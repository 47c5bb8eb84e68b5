SPECIFICATION DriverSpec
CONSTANTS
    Versions <- MCVersions
    MaxFid = 5
    Queries <- MCQueries
    Gaps = {"like a"}
    Unsupported = {"b()"}
    Limits = {1, 2}
    concurrent_read = "GdalUnverified"
    Clauses = {"", "a", "b", "a +"}
    Refused = {"a +"}
    Geometries = {"", "disc"}
    EnvelopeOf <- MCEnvelopeOf
INVARIANTS
    CursorGivesResult
    CallsAnswerWhole
    LayerGivesFiltered
