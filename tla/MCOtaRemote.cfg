SPECIFICATION Spec
CONSTANTS
    Offers <- TwoOffers
    NoOffer = NoOffer
    FirstVersion = 1
    QueueDepth = 2
    TxDepth = 2
    IdMod = 1
    Storage = TRUE
    ClearFails = FALSE
    MaxPowerLoss = 1
INVARIANTS TypeOK OneUpdateTask CompletedIsTrue OfferIsNewer
