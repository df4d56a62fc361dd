CONSTANTS
    I32Max = 7
    I64Max = 15
    IsizeMax = 15
    ElementSize = 2
    PointerSize = 4
    Sizes <- SomeSizes
    Counts <- SomeCounts
    Addresses <- SomeAddresses
SPECIFICATION Spec
INVARIANTS SentAsGiven SlicesAreSound ResultFitsCall HonestIsAccepted
