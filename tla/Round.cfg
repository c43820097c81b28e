SPECIFICATION FairSpec
CONSTANTS
    a = a  b = b  k1 = k1  k2 = k2  code = code
    l1 = l1  l2 = l2  remover = remover
    Loaders = {l1, l2}
    Remover = remover
    Cards = {a, b}
    Removable = {a}
    NoCard = NoCard
    Keys = {k1, k2}
    CodeOf <- OneCode
    Observations <- SomeFound
    Interval = 2
INVARIANTS WaitBounded
PROPERTIES Spaced LoadIsWhole SoldOutAmongOthers OthersRowsKept RoundsEnd
