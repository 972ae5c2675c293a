SPECIFICATION Spec
CONSTANTS
    Precision = 4
    AwkwardKeys = {"a.b"}
    Records <- AllRecords
    KeyTexts <- AllKeys
    ValueTexts <- AllValues
    None = None
    Texts <- AllTexts
    Depth <- Depths
    MaxDepth = 2
    MaxFlying = 1
INVARIANT TypeOK
INVARIANT NothingHidden
INVARIANT NoFalseAlarm
INVARIANT FoldsOfThisRow
PROPERTY FoldsKept
