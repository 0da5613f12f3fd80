SPECIFICATION FairSpec
CONSTANTS
    Size = 9
    HeaderSize = 2
    MaxLen = 5
    Word = 64
    Lens = {1, 2}
    Codes <- GoodCodes
    MaxMessages = 3
CHECK_DEADLOCK FALSE
PROPERTY EveryMessageDelivered
