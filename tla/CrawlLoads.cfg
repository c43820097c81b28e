SPECIFICATION SpecCrawl
CONSTANTS
    u1 = u1  u2 = u2  c1 = c1  c2 = c2  mint = mint
    Urls = {u1, u2}
    Codes = {c1, c2}
    NoCode = NoCode
    Conds = {mint}
    NoCond = NoCond
    Title <- SameTitle
    CardTitle = "card"
    ProductPages <- SomePages
    FirstPages = {1, 2}
    MaxSearchPages = 2
    MaxRows = 2
    MaxLoose = 1
CHECK_DEADLOCK FALSE
SYMMETRY UrlSymmetry
INVARIANTS NothingOnlyIfSaid WholeCrawl
PROPERTIES SoldOutIsZeroed DeactivatedOnlyIfTold
