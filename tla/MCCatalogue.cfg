SPECIFICATION Spec
CONSTANTS
    n1 = n1
    n2 = n2
    n3 = n3
    Requests = {p1, p2}
    Authors = {u1}
    Names = {n1, n2, n3}
    SlugOf <- MCSlugOf
    Titles = {"a", "b"}
    MaxCategories = 2
    MaxLocations = 1
    Ops = {"create category", "edit category", "delete category", "create location", "edit location", "delete location", "admin edit", "admin delete"}
SYMMETRY Symmetry
INVARIANTS
    LocationsHaveCategories
    SlugsIdentify
PROPERTY OnlyNamedFieldsChange
CHECK_DEADLOCK FALSE
