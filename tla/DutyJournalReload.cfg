SPECIFICATION Spec
CONSTANTS
    Duties = {d1, d2}
    Payloads = {p1, p2}
    NoPayload = NoPayload
    Cuts = {}
    Stops = {{"kill", "power"}}
    MaxRecords = 4
INVARIANT SignedIsDurable
