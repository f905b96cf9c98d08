CONSTANTS
\* Two viewers at once while the pool rotates its keys, and one alone whose
\* request may be flawed.
    SigningKeys = {k1, k2}
    Tenants = {ta, tb}
    NoTenantId = NoTenantId
    Grace = 0
    Viewers = {v0, v1, v2}
    Odd = {v0}
    Verifiers = {"edge", "shared", "issuer", "pools"}
    JwksTtl = 1
    MaxStale = 1
    Latency = 1
    EdgeMaxTime = 2
    EdgeFaults = {"fetch", "body", "store"}
\* A browser and two tenants, long enough for a refresh token to expire.
    Browsers = {b1}
    SessionTenants = {t1, t2}
    Deployments = {"single", "shared"}
    IdTtl = 1
    SharedIdAge = 1
    RefreshValidity = 2
    RefreshCookieAge = 2
    RotationGrace = 1
    MaxTokens = 3
    SMaxTime = 3
\* Three calls of two keys while the row changes and loads outlive their entries,
\* settle out of order and fail.
    NoLoad = NoLoad
    Keys = {s1, s2}
    Calls = {c1, c2, c3}
    Loads = {x1, x2}
    Ttl = 1
    Lag = 1
    MaxWrites = 1
    MaxTime = 2
\* Two sign-ins of one address at two tenants, whose subdomains may be one.
    Clients = {d1, d2}
    Subdomains = {h1, h2}
    Inboxes = {i1}
    Attempts = {x1, x2}
    ConfigAge = 1
    SendsPerSite = 1
    LinkTtl = 1
    SendWindow = 1
    MaxEdits = 1
    TriggerMaxTime = 1
\* A rotation from the first secret to the second, process by process.
    SealHosts = {x1, x2}
    SealLife = 1
    SealFaults = {"derive"}
    MaxSecret = 2
    SealMaxTime = 3
SPECIFICATION MCSpec
SYMMETRY Symmetry
INVARIANTS NeverTooOld AdmitsExactlyGenuine KeysKeepUp RotationKeepsSession
    SessionsAreOwn  SessionsSurviveRotation
\* Requests and calls are finite: the system may stop.
CHECK_DEADLOCK FALSE
