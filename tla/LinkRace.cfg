\* Two redemptions race, by link and by code, for two challenges of one user.
CONSTANTS
    u1 = u1  u2 = u2  a1 = a1  a2 = a2
    NoOne = NoOne
    Junk = Junk
    Mail <- MailShared
    Flows = {f1, f2}
    Tries = {t1, t2}
    Users = {u1}
    Addresses = {a1}
    Codes = {c1}
    Ips = {i1}
    SelfSignup = FALSE
    SignupDomain = {}
    IpLimit = 2
    SendsPerWindow = 2
    SendsPerDay = 2
    SignupsPerWindow = 1
    Ttl = 1
    WindowLen = 1
    DayLen = 4
    MaxTime = 1
    Entries = {"direct"}
    Bouncing = {}
    AdminStatuses = {"active"}
    Faults = {}
SPECIFICATION Spec
INVARIANTS OwnSecretOnly NoLateSignIn
PROPERTIES ImplementsOneTimeSecret CorrectAnswerWins
\* Requests are finite: the system may stop.
CHECK_DEADLOCK FALSE
