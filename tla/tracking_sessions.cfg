SPECIFICATION FairSpec
CONSTANTS
    None = None
    Ships = {a}
    Events <- PickupAndDelivery
    OccurredAt <- Moments
    StatusOf <- Statused
    Deadline = 3
    Polls = {p1, p2}
    Hooks = {h1}
INVARIANTS
    FactsRecorded
PROPERTIES
    ChangeIsAnnounced
    StatusConverges
