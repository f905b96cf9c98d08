\* Two callers of a DynamoDB lock; no request is repeated by the SDK.
CONSTANTS
    Clients = {x1, x2}
    Backends = {"dynamo"}
    Usages = {"lock"}
    KvTtl = 1
    MaxNow = 3
    KvRetries = 0
    MaxOps = 4
    MaxSweeps = 0
SPECIFICATION KvSpec
INVARIANTS LeaseIsMine
CHECK_DEADLOCK FALSE
