\* Two batches, one with a record that does not parse; calls fail half-way, the
\* handler dies, users come and go and the key is rotated.
CONSTANTS
    d1 = d1  d2 = d2  a1 = a1  a2 = a2
    NoKey = NoKey
    NoContainer = NoContainer
    Batch <- MixedBatch
    Deliveries = {d1, d2}
    Containers = {w1, w2}
    Addresses = {a1, a2}
    MaxAttempts = 2
    MaxKey = 1
    BounceFaults = {"secrets", "cognito", "ddb", "crash"}
SPECIFICATION BounceSpec
INVARIANTS QuarantineIsRight
PROPERTIES EveryInvocationEnds
\* Deliveries are finite: the system may stop.
CHECK_DEADLOCK FALSE
