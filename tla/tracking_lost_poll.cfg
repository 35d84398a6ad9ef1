SPECIFICATION Spec
CONSTANTS
    None = None
    Ships = {a}
    Events <- Delivery
    OccurredAt <- Moments
    StatusOf <- Statused
    Deadline = 3
    Polls = {p1}
    Hooks = {h1, h2}
INVARIANT StoppedIsFinal
SYMMETRY SymmetricSessions
