\* Two redemptions of one request while the user is disabled and enabled, stores
\* fail half-way, Lambdas die and rows expire.
CONSTANTS
    u1 = u1  u2 = u2  a1 = a1  a2 = a2
    NoOne = NoOne
    Junk = Junk
    Mail <- MailShared
    Flows = {f1}
    Tries = {t1, t2}
    Users = {u1}
    Addresses = {a1}
    Codes = {c1, c2}
    Ips = {i1}
    SelfSignup = FALSE
    SignupDomain = {}
    IpLimit = 2
    SendsPerWindow = 1
    SendsPerDay = 2
    SignupsPerWindow = 1
    Ttl = 1
    WindowLen = 1
    DayLen = 4
    MaxTime = 1
    Entries = {"browser", "direct"}
    Bouncing = {}
    AdminStatuses = {"active", "disabled"}
    Faults = {"binding", "store", "ses", "cognito", "allowlist", "crash"}
SPECIFICATION Spec
INVARIANTS OneAnswerPerBinding NoSignInWhenIneligible
PROPERTIES EveryoneIsAnswered
\* Requests are finite: the system may stop.
CHECK_DEADLOCK FALSE
