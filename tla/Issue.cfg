\* Two requests in a self-signup or an admin-only deployment; MCChallengeIssue
\* says what is different in the latter.
CONSTANTS
    a1 = a1  a2 = a2
    NoOne = NoOne
    Mail <- MailShared
    Flows = {f1, f2}
    Users = {u1, u2}
    Addresses = {a1, a2}
    Codes = {c1}
    Ips = {i1}
    SelfSignup = TRUE
    SignupDomain = {a1}
    IpLimit = 2
    SendsPerWindow = 1
    SendsPerDay = 1
    SignupsPerWindow = 1
    Ttl = 1
    WindowLen = 1
    DayLen = 4
    MaxTime = 1
    Entries = {"browser"}
    Bouncing = {a1}
    AdminStatuses = {"absent"}
    Faults = {"hmac", "cognito", "crash"}
SPECIFICATION MCSpec
SYMMETRY FlowSymmetry
INVARIANTS IssuePromise
\* Requests are finite: the system may stop.
CHECK_DEADLOCK FALSE
