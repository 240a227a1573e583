SPECIFICATION FairSpec
CONSTANTS
    c1 = c1
    c2 = c2
    Caller = {c1, c2}
    Request <- Requests
    Endpoint = {"pairs"}
    endpoint_label <- Labels
    Cached <- Requests
    Softened = {"pairs"}
    One = 2
    Rps = 1
    MaxRetries = 1
    Backoff = 1
    Ttl = 1
    MaxSize = 1
INVARIANTS
    RateKept
    HealthIsTrue
    CacheFits
PROPERTIES
    EveryCallEnds
