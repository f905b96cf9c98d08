CONSTANTS
\* Deployments of an identity stack that fail once and are repeated, and one
\* change of the configuration.  A quota of two attributes.
    MaxCustomAttributesPerPool = 2
    Configs <- IdentityConfigs
    Recipients <- Addressees
    MaxStackFaults = 1
    MaxChanges = 1
\* Two deployments of a site, one of which may fail, under a visitor.
    SiteConfigs <- Sites
    MaxSiteDeploys = 2
    MaxSiteFaults = 1
    LoginLimit = 1
    VerifyLimit = 1
\* Four hours, long enough for the alarm to go off twice.
    SendsPerHourCap = 1
    MaxSends = 2
    MaxHours = 4
    DeliveryAttempts = 3
    MaxEdits = 1
\* Three syntheses over one directory, any of which may die.
    SharedConfigs <- Shareds
    Visits <- Requested
    MaxSyntheses = 3
    MaxHops = 2
\* Two tenants, two app clients, two callers that take turns in the managers.
    TenantIds <- Ids
    AppClients = {app1, app2}
    FedCallers = {x1, x2}
    MaxSlug = 2
    MaxFedCalls = 4
    Serialised = TRUE
    Pools = {"v1", "v2"}
    Rows = {"a", "no row"}
\* Bodies below, at and above the cap.
    Probes = {"oidc", "samlUrl", "samlXml"}
    Urls <- UrlShapes
    Answers <- Lookups
    MaxBody = 2
    Sizes = {0, 1, 2, 3}
    OidcDocs <- Configurations
    SamlDocs <- Documents
SPECIFICATION MCSpec
INVARIANTS DialsOnlyChecked SignedCoversParsed ToldIsTrue HooksFailClosed PoolWorks
    SiteWorks SharedWorks
PROPERTIES ProbeEnds DeployConverges SpikeClosesSignUp VisitorArrives
\* Deployments, calls and probes are finite: the system may stop.
CHECK_DEADLOCK FALSE
