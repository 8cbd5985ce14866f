SPECIFICATION Spec
CONSTANTS
    Digits <- DigitSymbols
    Letters = {"a", "x", "owner", "key", "expiration", "addr", "hash"}
    OtherLetters = {"e-acute"}
    MaxNumber = 17
    AddressOf <- AddressTexts
    EntityKeyOf <- KeyTexts
    MaxPieces = 5
    MaxSymbols = 4
INVARIANTS
    ReadsBack
    ParsesGrammar
CHECK_DEADLOCK FALSE
