\* Two tenants whose identifiers become the same provider name.
CONSTANTS
    TenantIds <- Homonyms
    AppClients = {app}
    FedCallers = {x1}
    MaxSlug = 2
    MaxFedCalls = 3
    Serialised = TRUE
SPECIFICATION FedSpec
PROPERTIES ProviderStaysWithTenant
CHECK_DEADLOCK FALSE
