----------------------------- MODULE Reconciler -----------------------------
(***************************************************************************)
(* The hourly reconciler (shared-distribution/admin/reconciler.ts) beside  *)
(* the admin Lambda: it lists the pool's app clients page by page, then    *)
(* scans ClientConfig page by page, and reports each id it saw on one side *)
(* only.  Neither reading is a snapshot: tenants come and go between pages.*)
(***************************************************************************)
EXTENDS TenantAdmin

VARIABLES
    rpc,        \* where the reconciler is
    left,       \* ids the current reading has not come to
    seenC,      \* cognitoClientIds
    seenR,      \* configClientIds
    whole,      \* history: ids with client and row since the run began
    halfC,      \* history: ids with a client and no row since the run began
    halfR       \* history: ids with a row and no client since the run began

scan == <<rpc, left, seenC, seenR>>

watch == <<whole, halfC, halfR>>

rvars == <<vars, scan, watch>>

RInit ==
    /\ Init
    /\ rpc = "idle" /\ left = {} /\ seenC = {} /\ seenR = {}
    /\ whole = {} /\ halfC = {} /\ halfR = {}

\* The schedule fires: both sets start empty.
Start ==
    /\ rpc = "idle" /\ rpc' = "list"
    /\ left' = Creates /\ seenC' = {} /\ seenR' = {}
    /\ whole' = clients \intersect rows
    /\ halfC' = clients \ rows /\ halfR' = rows \ clients

\* One page of ListUserPoolClients.
ListPage ==
    /\ rpc = "list"
    /\ \E page \in SUBSET left :
         /\ page # {}
         /\ seenC' = seenC \union (page \intersect clients)
         /\ \/ page # left /\ left' = left \ page /\ UNCHANGED rpc
            \/ page = left /\ left' = Creates /\ rpc' = "scan"
    /\ UNCHANGED seenR

\* Mutant: each page of the scan replaces the one before.
ScanPage_Replace ==
    /\ rpc = "scan"
    /\ \E page \in SUBSET left :
         /\ page # {}
         /\ seenR' = page \intersect rows
         /\ \/ page # left /\ left' = left \ page /\ UNCHANGED rpc
            \/ page = left /\ left' = {} /\ rpc' = "report"
    /\ UNCHANGED seenC

\* One page of the Scan.
ScanPage ==
    /\ rpc = "scan"
    /\ \E page \in SUBSET left :
         /\ page # {}
         /\ seenR' = seenR \union (page \intersect rows)
         /\ \/ page # left /\ left' = left \ page /\ UNCHANGED rpc
            \/ page = left /\ left' = {} /\ rpc' = "report"
    /\ UNCHANGED seenC

orphanedAppClients == seenC \ seenR

orphanedConfigRows == seenR \ seenC

\* The invocation is over; its sets go with it.
Over ==
    /\ rpc' = "idle" /\ left' = {} /\ seenC' = {} /\ seenR' = {}
    /\ whole' = {} /\ halfC' = {} /\ halfR' = {}

\* The report is out; the next run is an hour away.
Report == rpc = "report" /\ Over

\* A page fails or the Lambda dies: nothing is reported.
Abort ==
    /\ rpc \in {"list", "scan"}
    /\ Faults \intersect {"ddb", "cognito", "crash"} # {}
    /\ Over

\* What was whole, or half, and still is.
Watch ==
    /\ whole' = whole \intersect clients' \intersect rows'
    /\ halfC' = (halfC \intersect clients') \ rows'
    /\ halfR' = (halfR \intersect rows') \ clients'

RNext ==
    \/ Next /\ Watch /\ UNCHANGED scan
    \/ (Start \/ Report \/ Abort) /\ UNCHANGED vars
    \/ (ListPage \/ ScanPage) /\ UNCHANGED <<vars, watch>>

RSpec == RInit /\ [][RNext]_rvars

-----------------------------------------------------------------------------
\* The readings are pages taken at different times, yet the report is right
\* about what lasted: a tenant that had its client and its row throughout the
\* run is not reported, whatever was created and deleted around it, and an
\* orphan that was there throughout is, on its own side.
ReportIsRight ==
    rpc = "report" =>
      /\ whole \intersect (orphanedAppClients \union orphanedConfigRows) = {}
      /\ halfC \subseteq orphanedAppClients /\ halfR \subseteq orphanedConfigRows
=============================================================================
