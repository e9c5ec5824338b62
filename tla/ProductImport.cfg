\* Two products, two transactions at once, one edit of the store, one change of the user, refused page or failure.
SPECIFICATION Spec
CONSTANTS
    P1 = P1
    P2 = P2
    Products = {P1, P2}
    Offers <- MCOffers
    NoSku = 0
    Plain = Plain
    MaxSku = 3
    MaxMasters = 5
    Workers = {w1, w2}
    MaxEdits = 1
    MaxPulls = 2
    Disturbances = {"creates", "changes", "breaks", "refused"}
    MaxDisturbances = 1
    None = None
SYMMETRY Symmetry
CHECK_DEADLOCK FALSE
INVARIANTS LinkedBySku EditsFollowed
