CONSTANTS
    b1 = b1
    b2 = b2
    e1 = e1
    e2 = e2
    r1 = r1
    r2 = r2
    BindID = {b1, b2}
    RouteURI = {"u1"}
    Endpoint = {e1, e2}
    PlansOf <- MCPlans
    Settings <- MCSettings
    Default = "default"
    Request = {r1, r2}
    MaxUpdates = 2
SYMMETRY MCSymmetry
SPECIFICATION Spec
INVARIANTS
    BrokerTypeOK
    BindingsKnown
    BindingsInEffect
    FileFollowsMap
    BindingsPersist
CHECK_DEADLOCK FALSE
