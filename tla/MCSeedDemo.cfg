SPECIFICATION Spec
CONSTANTS
    Commands = {c1, c2}
    ADMIN = "demo_admin"
    USERNAMES = {"olena"}
    Visitors = {"visitor"}
    CATEGORIES = {"Parks"}
    Categories = {"PARKS"}
    SlugOf <- MCSlugOf
    LOCATIONS = {"garden", "gallery"}
    AuthorOf <- MCAuthorOf
    CategoryOf <- MCCategoryOf
    MaxMade = 4
SYMMETRY Symmetry
INVARIANTS
    ReferencesHold
    OneWholeBatch
PROPERTIES
    OthersKept
    AloneResetRenews
CHECK_DEADLOCK FALSE
