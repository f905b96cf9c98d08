\* Two creates with one idempotency key, without failures: the second looks for the
\* record before it is there, and reserves after the first has released.
CONSTANTS
    NoTenant = NoTenant
    Original = Original
    Creates = {c1, c2}
    Deletes = {}
    Updates = {}
    Subdomains = {s1}
    TenantIds = {t1}
    IdemKeys = {k1}
    ResLife = 1
    IdemLife = 2
    Deadline = 1
    MaxTime = 2
    Faults = {}
SPECIFICATION MCSpec
INVARIANTS SubdomainUnique
\* Requests are finite: the system may stop.
CHECK_DEADLOCK FALSE
