\* Two relays, whose locks may outlive them, and an order that is canceled.
CONSTANTS
    r1 = r1  r2 = r2  o1 = o1
    Relays = {r1, r2}
    OrderIds = {o1}
    NoEvent = NoEvent
    LocksLinger = TRUE
    MaxFailures = 2
SPECIFICATION FairSpec
INVARIANTS RelayInv DuplicatesAreExplained
PROPERTIES ImplementsDelivery EveryEventPublished
