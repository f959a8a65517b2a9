SPECIFICATION Spec
CONSTANTS
    c1 = c1
    c2 = c2
    c3 = c3
    Connections = {c1, c2, c3}
    provider = c1
    EndpointOf <- Endpoints
    Timeout = 5
    RetrySleep = 2
    FirstIds = {0, 1}
INVARIANT ListenersRemoved
PROPERTY SendsOnce
