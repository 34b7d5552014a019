SPECIFICATION Spec
CONSTANTS
    Offers <- OneOffer
    NoOffer = NoOffer
    FirstVersion = 1
    QueueDepth = 2
    TxDepth = 3
    IdMod = 8
    Storage = FALSE
    ClearFails = FALSE
    MaxPowerLoss = 0
INVARIANT InProgressHasTask
