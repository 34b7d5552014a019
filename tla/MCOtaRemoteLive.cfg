SPECIFICATION Spec
CONSTANTS
    Offers <- OneOffer
    NoOffer = NoOffer
    FirstVersion = 1
    QueueDepth = 2
    TxDepth = 3
    IdMod = 1
    Storage = TRUE
    ClearFails = TRUE
    MaxPowerLoss = 0
PROPERTIES Reconnects AcceptHandled
