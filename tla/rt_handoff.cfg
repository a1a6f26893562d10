CONSTANTS
    Replies <- RepliesWithTransfer
    MaxRounds = 2
    Capacity = 2
SPECIFICATION RuntimeSpec
CHECK_DEADLOCK FALSE
PROPERTY TransferEnds
