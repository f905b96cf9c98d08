CONSTANTS
    c1 = c1  c2 = c2  c3 = c3  x1 = x1  x2 = x2  x3 = x3
\* Overlapping calls for one key of the limiter: replicas lag, writes conflict and
\* fail, rows are reset and swept, clocks differ.
    Cost <- MixedCost
    Consumers = {c1, c2, c3}
    Capacity = 4
    Second = 2
    Margin = 1
    MaxRetries = 2
    Skew = 1
    MaxTime = 4
    NoRow = NoRow
    Faults = {"stale", "serialization", "read", "write", "reset"}
\* Two callers of one key of a store, long enough for a lease to expire twice.
    Clients = {x1, x2}
    Backends = {"memory", "dynamo", "postgres"}
    Usages = {"lock", "record", "claims", "plain"}
    KvTtl = 1
    MaxNow = 3
    KvRetries = 1
    MaxOps = 3
    MaxSweeps = 1
\* One event to two stores; it counts as written when all, or any, have it.
    Events = {e1}
    AuditModes = {"all", "any"}
    Inputs <- AuditInputs
    MaxBytes = 4
    Policies = {"reject", "truncate"}
    Retention <- KeptFor
    AuditAttempts = 2
    AuditMaxTime = 3
\* Three calls for two secrets in a cache of one.
    Refs = {r1, r2}
    Resolvers = {x1, x2, x3}
    MaxEntries = 1
    SecretTtl = 1
    SecretAttempts = 2
    SecretMaxTime = 2
\* Two processes, each with a cache of the toggle.
    Hosts = {x1, x2}
    Askers = {x1, x2}
    ToggleTtl = 1
    ReadTime = 1
    MaxSets = 1
    ToggleMaxTime = 3
\* Two calls about one address.
    Emails = {m1}
    Ids = {i1, i2}
    IdpCalls = {x1, x2}
    TokenLife = 2
    Slack = 1
    IdpMaxTime = 2
\* Two requests, of one tenant or of two.
    Requests = {x1, x2}
    Arrivals <- Arriving
    Composites <- Stacks
    Directory <- Domains
    Reserved = {"www"}
    CountryMap <- Countries
    AllowedRegions = {"eu", "us"}
    Default = "us"
    FallbackOrders <- Orders
    ResidencyTtl = 1
    PolicyTime = 1
    PipeMaxTime = 3
    MaxMoves = 1
SPECIFICATION MCSpec
SYMMETRY Symmetry
INVARIANTS AdmittedIsPaid SweptOnlyWhenFull KvContract AuditPromise CacheOwnsItsBytes
    ToggleAgeBounded RequestsStayApart FailsNotOverwrites
\* Calls are finite: the system may stop.
CHECK_DEADLOCK FALSE
