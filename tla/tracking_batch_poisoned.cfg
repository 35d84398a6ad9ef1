SPECIFICATION Spec
CONSTANTS
    None = None
    Ships = {a, b}
    Events <- Delivery
    OccurredAt <- Moments
    StatusOf <- Statused
    Deadline = 3
    Polls = {p1}
    Hooks = {h1}
PROPERTY FailureIsContained
