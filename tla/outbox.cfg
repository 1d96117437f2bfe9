\* Two processes, one on either transport, drain the same table.
CONSTANTS
    p1 = p1
    Event = {1, 2}
    Registered = {1, 2}
    Consumer = {c1}
    Process = {p1, p2}
    Nobody = Nobody
    Transport <- MCTransport
    BatchSize = 2
    MaxFailures = 2
    MaxStops = 1
    MaxThrows = 1
SPECIFICATION Spec
INVARIANTS TypeOK StampedWasHandedOver
PROPERTIES DeliverySpec EveryEventIsStamped
CHECK_DEADLOCK FALSE
