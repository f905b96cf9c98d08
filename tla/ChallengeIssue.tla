--------------------------- MODULE ChallengeIssue ---------------------------
(***************************************************************************)
(* How a sign-in is started: POST /auth-login, Cognito's InitiateAuth and  *)
(* the CreateAuthChallenge trigger it runs (packages/vestibulum).          *)
(*                                                                         *)
(* A flow f is one sign-in request.  It draws one binding secret, obtains  *)
(* at most one Cognito session and at most one link token; all three are   *)
(* fresh random values, so the flow itself names them.  The 8-digit code   *)
(* is drawn from Codes and two flows may draw the same one.  Every await   *)
(* of the handlers ends a step: flows interleave there, dependencies fail  *)
(* there (with or without their effect), and a Lambda may die there.       *)
(*                                                                         *)
(* Addresses are normalised addresses (normalizeEmail ran before the first *)
(* modelled step).  Counters kept for a phantom's made-up username are not *)
(* represented: no address shares them.                                    *)
(***************************************************************************)
EXTENDS Integers, FiniteSets

CONSTANTS
    Flows,            \* sign-in requests
    Users,            \* Cognito usernames
    Addresses,        \* normalised addresses
    Mail,             \* the email attribute of each user
    NoOne,            \* the phantom username
    Codes,            \* values an 8-digit code can take
    Ips,              \* client addresses seen by CloudFront
    SelfSignup,       \* enrollment = "self-signup" (else "admin-only")
    SignupDomain,     \* addresses whose domain PreSignUp allows
    IpLimit, SendsPerWindow, SendsPerDay, SignupsPerWindow,
    Ttl,              \* lifetime of links and bindings, in ticks
    WindowLen, DayLen,\* ticks per rate-limit window and per day
    MaxTime,          \* bound: the clock stops here
    Entries,          \* ways in used in this instance: "browser", "direct"
    Bouncing,         \* addresses that may bounce in this instance
    AdminStatuses,    \* statuses administrators may set in this instance
    Faults            \* dependencies that may fail in this instance

FaultKinds == {"ip", "allowlist", "cognito", "hmac", "denylist", "limits",
               "store", "ses", "binding", "crash"}

Statuses == {"absent", "active", "unverified", "disabled", "deleted"}

ASSUME ConstantsAssumption ==
    /\ NoOne \notin Users
    /\ Addresses # {} /\ Ips # {} /\ Codes # {}
    /\ Mail \in [Users -> Addresses]
    /\ SelfSignup \in BOOLEAN
    /\ SignupDomain \subseteq Addresses
    /\ IpLimit \in Nat /\ SendsPerWindow \in Nat
    /\ SendsPerDay \in Nat \ {0} /\ SignupsPerWindow \in Nat
    /\ Ttl \in Nat \ {0} /\ WindowLen \in Nat \ {0} /\ DayLen \in Nat \ {0}
    /\ MaxTime \in Nat
    /\ Entries \subseteq {"browser", "direct"}
    /\ Bouncing \subseteq Addresses
    /\ AdminStatuses \subseteq Statuses
    /\ Faults \subseteq FaultKinds

VARIABLES
    now,        \* the clock every Lambda reads
    status,     \* Cognito: the state of each user
    flagged,    \* Cognito: users with custom:email_quarantined = "true"
    denylist,   \* DenylistTable: addresses
    count,      \* RateLimitTable: the counter of each bucket
    token,      \* TokenTable: the row of each flow's token
    bound,      \* BindingTable: flows whose binding row is there
    bindExp,    \* BindingTable: expires_at of those rows
    mailed,     \* SES: flows whose link and code were sent
    pc,         \* where each flow's handlers are
    kind,       \* who asked: auth-login for a browser, or a direct caller
    req,        \* the request to auth-login
    user,       \* the username Cognito works with
    at, code,   \* Create: captured clock, drawn code
    clear,      \* Create: flows with no suppression reason so far
    chal,       \* Cognito: private challenge parameters of the session
    held,       \* flows whose caller received the session
    barred      \* history: flows whose subject may not be mailed

pool == <<status, flagged, denylist>>

store == <<count, token, bound, bindExp, mailed>>

request == <<kind, req, user>>

challenge == <<at, code, clear, chal, held>>

issueVars == <<now, pool, store, pc, request, challenge, barred>>

-----------------------------------------------------------------------------
(* The rate-limit table: bucket ids are keyed hashes of a purpose prefix,  *)
(* an address or IP and the start of the period, hence injective.          *)

Periods == 0..MaxTime

Buckets == ({"ip"} \X Ips \X Periods)
             \union ({"window", "day", "signup"} \X Addresses \X Periods)

WindowOf(t) == t \div WindowLen

DayOf(t) == t \div DayLen

\* attribute_not_exists(#c) OR #c < :limit
UnderLimit(b, limit) == count[b] = 0 \/ count[b] < limit

\* What a remote call may come to: done and answered, refused without effect,
\* or done with the answer lost (the caller sees an error either way).
Outcomes(dependency) ==
    {"ok"} \union (IF dependency \in Faults THEN {"failed", "lost"} ELSE {})

\* The conditional UpdateItem on bucket b.
Consume(b, limit, o) ==
    count' = IF o # "failed" /\ UnderLimit(b, limit)
               THEN [count EXCEPT ![b] = @ + 1]
               ELSE count

-----------------------------------------------------------------------------
(* The allow-list backed by the pool's own users. *)

InPool(u) == status[u] \notin {"absent", "deleted"}

Holders(a) == {u \in Users : InPool(u) /\ Mail[u] = a}

\* lookup: exactly one user holds the address, and it is verified.
Lookup(a) ==
    IF \E u \in Users : Holders(a) = {u} /\ status[u] # "unverified"
      THEN CHOOSE u \in Users : Holders(a) = {u}
      ELSE NoOne

\* Cognito's own resolution of an address used as a username (self-signup).
Resolve(a) ==
    IF Holders(a) = {} THEN NoOne ELSE CHOOSE u \in Users : u \in Holders(a)

\* eligible(get(subject)): present, enabled and verified.
Eligible(u) == u \in Users /\ status[u] = "active"

-----------------------------------------------------------------------------
Kinds == {"none", "browser", "direct"}

LoginPcs == {"limit", "lookup", "signup", "register", "initiate", "bind"}

CreatePcs == {"hmac", "denylist", "window", "day", "allowlist", "put", "ses"}

Pcs == LoginPcs \union CreatePcs \union {"idle", "answer", "done"}

IssueTypeOK ==
    /\ now \in Periods
    /\ status \in [Users -> Statuses]
    /\ flagged \subseteq Users /\ denylist \subseteq Addresses
    /\ count \in [Buckets -> Nat]
    /\ token \in [Flows -> {"none", "live", "gone"}]
    /\ bound \subseteq Flows /\ bindExp \in [Flows -> 0..(MaxTime + Ttl)]
    /\ mailed \subseteq Flows
    /\ pc \in [Flows -> Pcs]
    /\ kind \in [Flows -> Kinds]
    /\ req \in [Flows -> [addr : Addresses, ip : Ips]]
    /\ user \in [Flows -> Users \union {NoOne}]
    /\ at \in [Flows -> Periods] /\ code \in [Flows -> Codes]
    /\ clear \subseteq Flows /\ held \subseteq Flows /\ barred \subseteq Flows
    /\ chal \in [Flows -> {"none", "open", "shut"}]

IssueInit ==
    /\ now = 0
    /\ status \in [Users -> AdminStatuses]
    /\ flagged = {} /\ denylist = {}
    /\ count = [b \in Buckets |-> 0]
    /\ token = [f \in Flows |-> "none"]
    /\ bound = {} /\ bindExp = [f \in Flows |-> 0]
    /\ mailed = {}
    /\ pc = [f \in Flows |-> "idle"]
    /\ kind = [f \in Flows |-> "none"]
    /\ req = [f \in Flows |-> [addr |-> CHOOSE a \in Addresses : TRUE,
                               ip |-> CHOOSE i \in Ips : TRUE]]
    /\ user = [f \in Flows |-> NoOne]
    /\ at = [f \in Flows |-> 0]
    /\ code = [f \in Flows |-> CHOOSE c \in Codes : TRUE]
    /\ clear = {} /\ held = {} /\ barred = {}
    /\ chal = [f \in Flows |-> "none"]

-----------------------------------------------------------------------------
(* auth-login, up to InitiateAuth.  Malformed and cross-origin requests    *)
(* are answered before any state is touched and are not flows.             *)

At(f, where) == pc[f] = where

Goto(f, where) == pc' = [pc EXCEPT ![f] = where]

Login(f, a, i) ==
    /\ At(f, "idle") /\ Goto(f, "limit")
    /\ kind' = [kind EXCEPT ![f] = "browser"]
    /\ req' = [req EXCEPT ![f] = [addr |-> a, ip |-> i]]
    /\ UNCHANGED <<now, pool, store, user, challenge, barred>>

\* The app client id is public: a caller may go to Cognito directly, naming
\* any username, and then holds the session itself.
Direct(f, u) ==
    /\ At(f, "idle") /\ Goto(f, "initiate")
    /\ kind' = [kind EXCEPT ![f] = "direct"]
    /\ user' = [user EXCEPT ![f] = u]
    /\ UNCHANGED <<now, pool, store, req, challenge, barred>>

\* tryConsumeIpRateLimit; over the limit (or on error) Cognito is not called.
ConsumeIpLimit(f) ==
    /\ At(f, "limit")
    /\ LET b == <<"ip", req[f].ip, WindowOf(now)>> IN
       \E o \in Outcomes("ip") :
         /\ Consume(b, IpLimit, o)
         /\ Goto(f, IF o = "ok" /\ UnderLimit(b, IpLimit)
                      THEN IF SelfSignup THEN "signup" ELSE "lookup"
                      ELSE "bind")
    /\ UNCHANGED <<now, pool, token, bound, bindExp, mailed, request, challenge,
                   barred>>

\* Admin-only: unknown, ambiguous and unavailable all become a phantom.
LookupSubject(f) ==
    /\ At(f, "lookup") /\ Goto(f, "initiate")
    /\ \E o \in Outcomes("allowlist") :
         user' = [user EXCEPT ![f] = IF o = "ok" THEN Lookup(req[f].addr) ELSE NoOne]
    /\ UNCHANGED <<now, pool, store, kind, req, challenge, barred>>

\* Self-signup: SignUp runs the PreSignUp trigger (domain, then counter); any
\* rejection or error is swallowed by signUpQuietly.  The invite-only mode,
\* which rejects every SignUp, is SignupDomain = {}.
PreSignUp(f) ==
    /\ At(f, "signup")
    /\ LET a == req[f].addr
           b == <<"signup", a, WindowOf(now)>>
       IN \/ a \notin SignupDomain /\ Goto(f, "initiate") /\ UNCHANGED count
          \/ /\ a \in SignupDomain
             /\ \E o \in Outcomes("limits") :
                  /\ Consume(b, SignupsPerWindow, o)
                  /\ Goto(f, IF o = "ok" /\ UnderLimit(b, SignupsPerWindow)
                               THEN "register" ELSE "initiate")
    /\ UNCHANGED <<now, pool, token, bound, bindExp, mailed, request, challenge,
                   barred>>

\* Cognito creates the confirmed, verified user unless the address is taken.
Register(f) ==
    /\ At(f, "register") /\ Goto(f, "initiate")
    /\ LET a == req[f].addr
           fresh == {u \in Users : Mail[u] = a /\ status[u] = "absent"}
       IN \/ \E u \in fresh : /\ Holders(a) = {}
                              /\ status' = [status EXCEPT ![u] = "active"]
          \/ /\ Holders(a) # {} \/ fresh = {}
             /\ UNCHANGED status
    /\ UNCHANGED <<now, flagged, denylist, store, request, challenge, barred>>

-----------------------------------------------------------------------------
(* InitiateAuth.  DefineAuthChallenge sees an empty session and asks for   *)
(* the custom challenge, so Cognito runs CreateAuthChallenge with the      *)
(* user's attributes as they are at this moment.                           *)

\* The user InitiateAuth works with: auth-login sends the address itself in
\* self-signup mode, the looked-up username otherwise.
Subject(f) ==
    LET named == IF SelfSignup /\ kind[f] = "browser"
                   THEN Resolve(req[f].addr) ELSE user[f]
    IN IF named \in Users /\ InPool(named) THEN named ELSE NoOne

\* A subject that CreateAuthChallenge must not mail.
Suppressed(u) ==
    \/ u = NoOne
    \/ ~SelfSignup /\ ~Eligible(u)
    \/ u \in flagged
    \/ Mail[u] \in denylist

\* Create begins: it captures the clock, draws the token and the code, and
\* holds the attribute snapshot (a phantom has none).
Initiate(f) ==
    /\ At(f, "initiate") /\ Goto(f, "hmac")
    /\ user' = [user EXCEPT ![f] = Subject(f)]
    /\ at' = [at EXCEPT ![f] = now]
    /\ \E c \in Codes : code' = [code EXCEPT ![f] = c]
    /\ clear' = IF Subject(f) \in Users \ flagged THEN clear \union {f} ELSE clear
    /\ barred' = IF Suppressed(Subject(f)) THEN barred \union {f} ELSE barred
    /\ UNCHANGED <<now, pool, store, kind, req, chal, held>>

\* What follows an InitiateAuth that gave no session: auth-login still writes
\* the binding row; a direct caller has nothing.
NoSession(f) == IF kind[f] = "browser" THEN "bind" ELSE "done"

\* Mutant: auth-login starts over for as long as InitiateAuth fails.
InitiateFails_StartOver(f) ==
    /\ At(f, "initiate")
    /\ "cognito" \in Faults
    /\ Goto(f, IF kind[f] = "browser" THEN "lookup" ELSE "done")
    /\ UNCHANGED <<now, pool, store, request, challenge, barred>>

\* Cognito refuses or drops the call before Create runs.
InitiateFails(f) ==
    /\ At(f, "initiate")
    /\ "cognito" \in Faults
    /\ Goto(f, NoSession(f))
    /\ UNCHANGED <<now, pool, store, request, challenge, barred>>

-----------------------------------------------------------------------------
(* CreateAuthChallenge.  Every read is settled; clear records that no      *)
(* suppression reason has come up, and is what the decision looks at.      *)

\* A read or counter found a reason to suppress, or none.
Note(f, ok) == clear' = IF ok THEN clear ELSE clear \ {f}

\* unanswerableChallenge
Shut(f) == Goto(f, "answer") /\ chal' = [chal EXCEPT ![f] = "shut"]

\* After the last read: store and mail, or build the unanswerable challenge.
Decide(f, ok) ==
    \/ f \in clear /\ ok /\ Goto(f, "put") /\ UNCHANGED chal
    \/ ~(f \in clear /\ ok) /\ Shut(f)

\* Without the HMAC key the denylist and both counters are skipped.
ResolveHmacKey(f) ==
    /\ At(f, "hmac")
    /\ \/ Goto(f, "denylist") /\ UNCHANGED clear
       \/ "hmac" \in Faults /\ Goto(f, "allowlist") /\ Note(f, FALSE)
    /\ UNCHANGED <<now, pool, store, request, at, code, chal, held, barred>>

ReadDenylist(f) ==
    /\ At(f, "denylist") /\ Goto(f, "window")
    /\ \E o \in Outcomes("denylist") :
         Note(f, o = "ok" /\ user[f] # NoOne /\ Mail[user[f]] \notin denylist)
    /\ UNCHANGED <<now, pool, store, request, at, code, chal, held, barred>>

\* Mutant: a counter that cannot be written does not stop the mail.
ConsumeWindow_FailOpen(f) ==
    /\ At(f, "window") /\ Goto(f, "day")
    /\ \/ user[f] = NoOne /\ UNCHANGED <<count, clear>>
       \/ /\ user[f] # NoOne
          /\ LET b == <<"window", Mail[user[f]], WindowOf(at[f])>> IN
             \E o \in Outcomes("limits") :
               /\ Consume(b, SendsPerWindow, o)
               /\ Note(f, o # "ok" \/ UnderLimit(b, SendsPerWindow))
    /\ UNCHANGED <<now, pool, token, bound, bindExp, mailed, request, at, code, chal,
                   held, barred>>

\* The counters are keyed on the clock captured at the start, and both are
\* consumed whatever was found before.
ConsumeWindow(f) ==
    /\ At(f, "window") /\ Goto(f, "day")
    /\ \/ user[f] = NoOne /\ UNCHANGED <<count, clear>>
       \/ /\ user[f] # NoOne
          /\ LET b == <<"window", Mail[user[f]], WindowOf(at[f])>> IN
             \E o \in Outcomes("limits") :
               /\ Consume(b, SendsPerWindow, o)
               /\ Note(f, o = "ok" /\ UnderLimit(b, SendsPerWindow))
    /\ UNCHANGED <<now, pool, token, bound, bindExp, mailed, request, at, code, chal,
                   held, barred>>

\* Mutant: the daily bucket is keyed on the window, not on the day.
ConsumeDay_PerWindow(f) ==
    /\ At(f, "day") /\ Goto(f, "allowlist")
    /\ \/ user[f] = NoOne /\ UNCHANGED <<count, clear>>
       \/ /\ user[f] # NoOne
          /\ LET b == <<"day", Mail[user[f]], WindowOf(at[f])>> IN
             \E o \in Outcomes("limits") :
               /\ Consume(b, SendsPerDay, o)
               /\ Note(f, o = "ok" /\ UnderLimit(b, SendsPerDay))
    /\ UNCHANGED <<now, pool, token, bound, bindExp, mailed, request, at, code, chal,
                   held, barred>>

ConsumeDay(f) ==
    /\ At(f, "day") /\ Goto(f, "allowlist")
    /\ \/ user[f] = NoOne /\ UNCHANGED <<count, clear>>
       \/ /\ user[f] # NoOne
          /\ LET b == <<"day", Mail[user[f]], DayOf(at[f])>> IN
             \E o \in Outcomes("limits") :
               /\ Consume(b, SendsPerDay, o)
               /\ Note(f, o = "ok" /\ UnderLimit(b, SendsPerDay))
    /\ UNCHANGED <<now, pool, token, bound, bindExp, mailed, request, at, code, chal,
                   held, barred>>

\* Mutant: any user found in the pool counts as eligible.
ReadEligibility_Exists(f) ==
    /\ At(f, "allowlist")
    /\ Decide(f, user[f] \in Users /\ InPool(user[f]))
    /\ UNCHANGED <<now, pool, store, request, at, code, clear, held, barred>>

\* The allow-list read (admin-only; self-signup has none) and the decision.
ReadEligibility(f) ==
    /\ At(f, "allowlist")
    /\ \/ SelfSignup /\ Decide(f, TRUE)
       \/ /\ ~SelfSignup
          /\ \E o \in Outcomes("allowlist") :
               Decide(f, o = "ok" /\ Eligible(user[f]))
    /\ UNCHANGED <<now, pool, store, request, at, code, clear, held, barred>>

PutToken(f) ==
    /\ At(f, "put")
    /\ \E o \in Outcomes("store") :
         /\ token' = IF o = "failed" THEN token ELSE [token EXCEPT ![f] = "live"]
         /\ IF o = "ok" THEN Goto(f, "ses") /\ UNCHANGED chal ELSE Shut(f)
    /\ UNCHANGED <<now, pool, count, bound, bindExp, mailed, request, at, code, clear,
                   held, barred>>

\* sendMagicLinkEmail, then the answerable challenge; a failed send leaves the
\* stored row behind an unanswerable one.
SendMail(f) ==
    /\ At(f, "ses")
    /\ \E o \in Outcomes("ses") :
         /\ mailed' = IF o = "failed" THEN mailed ELSE mailed \union {f}
         /\ IF o = "ok"
              THEN Goto(f, "answer") /\ chal' = [chal EXCEPT ![f] = "open"]
              ELSE Shut(f)
    /\ UNCHANGED <<now, pool, count, token, bound, bindExp, request, at, code, clear,
                   held, barred>>

\* The trigger or Cognito's call times out: no session results, but what was
\* stored, counted or mailed stays.
CreateDies(f) ==
    /\ pc[f] \in CreatePcs
    /\ "crash" \in Faults
    /\ Goto(f, NoSession(f))
    /\ UNCHANGED <<now, pool, store, request, challenge, barred>>

\* InitiateAuth returns the session to its caller, or the answer is lost.
Answer(f) ==
    /\ At(f, "answer") /\ Goto(f, NoSession(f))
    /\ \/ held' = held \union {f}
       \/ "cognito" \in Faults /\ UNCHANGED held
    /\ UNCHANGED <<now, pool, store, request, at, code, clear, chal, barred>>

\* auth-login writes the binding row, with the session if there is one, and
\* answers 202 with the cookie whether or not the write succeeded.
Bind(f) ==
    /\ At(f, "bind") /\ Goto(f, "done")
    /\ \/ /\ bound' = bound \union {f}
          /\ bindExp' = [bindExp EXCEPT ![f] = now + Ttl]
       \/ "binding" \in Faults /\ UNCHANGED <<bound, bindExp>>
    /\ UNCHANGED <<now, pool, count, token, mailed, request, challenge, barred>>

\* auth-login itself is killed: the browser gets an error and no cookie.
LoginDies(f) ==
    /\ pc[f] \in LoginPcs /\ kind[f] = "browser"
    /\ "crash" \in Faults
    /\ Goto(f, "done") /\ kind' = [kind EXCEPT ![f] = "none"]
    /\ UNCHANGED <<now, pool, store, req, user, challenge, barred>>

-----------------------------------------------------------------------------
(* The surroundings: time, administrators, the bounce handler. *)

Tick ==
    /\ now < MaxTime
    /\ now' = now + 1
    /\ UNCHANGED <<pool, store, pc, request, challenge, barred>>

\* A deleted username is never given out again.
SetStatus(u, s) ==
    /\ status[u] # "deleted" /\ s \notin {"absent", status[u]}
    /\ status[u] = "absent" => s # "deleted"
    /\ status' = [status EXCEPT ![u] = s]
    /\ barred' = IF s = "active" THEN {f \in barred : user[f] # u} ELSE barred
    /\ UNCHANGED <<now, flagged, denylist, store, pc, request, challenge>>

\* quarantineEmail: flag the user behind the address, or list the address.
Quarantine(a) ==
    /\ IF Holders(a) # {}
         THEN /\ \E u \in Holders(a) : flagged' = flagged \union {u}
              /\ UNCHANGED denylist
         ELSE denylist' = denylist \union {a} /\ UNCHANGED flagged
    /\ UNCHANGED <<now, status, store, pc, request, challenge, barred>>

FlowStep(f) ==
    \/ ConsumeIpLimit(f) \/ LookupSubject(f) \/ PreSignUp(f) \/ Register(f)
    \/ Initiate(f) \/ InitiateFails(f)
    \/ ResolveHmacKey(f) \/ ReadDenylist(f) \/ ConsumeWindow(f) \/ ConsumeDay(f)
    \/ ReadEligibility(f) \/ PutToken(f) \/ SendMail(f) \/ CreateDies(f)
    \/ Answer(f) \/ Bind(f) \/ LoginDies(f)

Request ==
    \E f \in Flows :
      \/ /\ "browser" \in Entries
         /\ \E a \in Addresses, i \in Ips : Login(f, a, i)
      \/ /\ "direct" \in Entries
         /\ \E u \in Users \union {NoOne} : Direct(f, u)

Environment ==
    \/ Tick
    \/ \E u \in Users, s \in AdminStatuses : SetStatus(u, s)
    \/ \E a \in Bouncing : Quarantine(a)

IssueNext == Request \/ (\E f \in Flows : FlowStep(f)) \/ Environment

IssueSpec == IssueInit /\ [][IssueNext]_issueVars

-----------------------------------------------------------------------------
(* Properties. *)

MailsIn(a, period(_), n) ==
    {f \in mailed : Mail[user[f]] = a /\ period(at[f]) = n}

AtLeastOne(n) == IF n = 0 THEN 1 ELSE n

\* However sign-in requests for one address overlap, and whichever calls fail
\* half-way, tryConsumeRateLimit lets at most SendsPerWindow mails be sent for
\* the challenges begun in one window (a limit of 0 acts as 1: the first write
\* finds no row), and tryConsumeDailyCap SendsPerDay per UTC day, across all
\* windows of that day.
MailCapped ==
    \A a \in Addresses, n \in Periods :
      /\ Cardinality(MailsIn(a, WindowOf, n)) <= AtLeastOne(SendsPerWindow)
      /\ Cardinality(MailsIn(a, DayOf, n)) <= SendsPerDay

\* CreateAuthChallenge never mails a phantom, nor an address that was
\* quarantined, denylisted or (admin-only) ineligible when the challenge began
\* and has not been made eligible since.
NoMailToBarred == mailed \cap barred = {}

\* Fails closed: a challenge is answerable only if its row was stored and its
\* mail sent without an error, and a session only reaches a caller together
\* with a finished challenge.
AnswerableOnlyIfMailed ==
    \A f \in Flows :
      /\ chal[f] = "open" => f \in mailed /\ token[f] # "none"
      /\ f \in held => chal[f] # "none"

\* What CreateAuthChallenge promises about the mail it sends and the challenges
\* it leaves open.
IssuePromise == MailCapped /\ NoMailToBarred /\ AnswerableOnlyIfMailed

\* Every sign-in request is answered, whatever fails on the way.
EveryRequestAnswered ==
    \A f \in Flows : ~At(f, "idle") ~> At(f, "done")

=============================================================================
