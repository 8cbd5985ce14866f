SPECIFICATION Spec
CONSTANTS
    k1 = k1
    k2 = k2
    o1 = o1
    o2 = o2
    Keys = {k1, k2}
    Owners = {o1, o2}
    Names <- AnnotationNames
    AnnotationLists <- Lists
    Btls = {0, 1}
    MaxBlock = 2
    NoEntity = noEntity
    NoSender = noSender
    Digits <- DigitSymbols
    Letters = {"a", "x", "owner", "key", "expiration", "first", "second", "one", "two", "red", "blue"}
    OtherLetters = {}
    MaxNumber = 20
    AddressOf <- AddressTexts
    EntityKeyOf <- KeyTexts
    Expressions <- Asked
SYMMETRY StoreSymmetry
INVARIANTS
    OwnedAreFound
CHECK_DEADLOCK FALSE
