SPECIFICATION FairSpec
CONSTANTS
    m1 = m1 b1 = b1 b2 = b2 r1 = r1 r2 = r2 r3 = r3
    Daemons = {m1}
    DeliveryCount = 2
    Bodies = {b1, b2}
    Unplannable = {b2}
    Requests = {r1, r2, r3}
    Traffic <- MCTraffic
    Slots = 2
    QueueCapacity = 1
    MaximumRetries = 2
    PageSize = 1
    MaxDeliveries = 2
    BodiesExpire = TRUE
    Disturbances = 0
PROPERTIES AcknowledgedIsRun
