\* Two creates, a delete and an update of one tenant while DynamoDB and Cognito
\* calls fail half-way, the index lags and the Lambda dies.
CONSTANTS
    NoTenant = NoTenant
    Original = Original
    Creates = {c1, c2}
    Deletes = {d1}
    Updates = {u1}
    Subdomains = {s1}
    TenantIds = {t1}
    IdemKeys = {k1}
    ResLife = 1
    IdemLife = 2
    Deadline = 1
    MaxTime = 2
    Faults = {"ddb", "cognito", "crash", "stale"}
SPECIFICATION MCSpec
SYMMETRY Symmetry
INVARIANTS ReservationExcludes ReportIsRight NamesComeFree
PROPERTIES ImplementsLifecycle
\* Requests are finite: the system may stop.
CHECK_DEADLOCK FALSE
