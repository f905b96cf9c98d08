---------------------------- MODULE EdgeProofs ----------------------------
(*****************************************************************************)
(* Proofs about what runs at the edge and behind the shared distribution:    *)
(* the sealed session cookies, sign-out and sessions, the Cognito triggers   *)
(* all tenants share, and the gates with their token verifiers.              *)
(*****************************************************************************)
EXTENDS SealedCookies, Sessions, SharedTriggers, EdgeAuth, FiniteSetTheorems, TLAPS

(* The sealed cookies.  Two instances are at most one deployment apart, and the *)
(* second of two deployments keeps the key of the first as its fallback, so a  *)
(* cookie that is still carried was sealed under a key every instance derives. *)

SealConfigs == [no : Nat, primary : Nat \ {0}, fallback : Nat]

KeyStates == {"unset", "ready", "failed"}

SealTypeOK ==
    /\ sealNow \in Nat /\ settled \in Nat /\ wanted \in SealConfigs
    /\ instance \in [SealHosts -> [config : SealConfigs, primaryKey : KeyStates,
                                   fallbackKey : KeyStates]]
    /\ cookie \in [secret : Nat, no : Nat, at : Nat, body : SealedBodies \union {"none"}]
    /\ verdict \in [of : {"nothing", "session", "UnsealError", "null", "throws"},
                    failed : BOOLEAN, alive : BOOLEAN, intact : BOOLEAN, newer : BOOLEAN]

\* One deployment turns configuration a into b: the secret is rotated in or out.
Follows(a, b) ==
    /\ b.no = a.no + 1
    /\ \/ a.fallback = 0 /\ b.fallback = a.primary
       \/ b.primary = a.primary /\ b.fallback = 0

\* A process runs the deployed configuration or the one before it.
OneDeploymentBehind ==
    \A h \in SealHosts : instance[h].config = wanted \/ Follows(instance[h].config, wanted)

\* A configuration reads the browser's cookie, unless the cookie is of a later one or
\* past its life.
ReadsCookie(conf) ==
    \/ conf.no < cookie.no
    \/ cookie.secret = conf.primary
    \/ conf.fallback # 0 /\ cookie.secret = conf.fallback
    \/ sealNow >= cookie.at + SealLife

CookieRead ==
    /\ cookie.no <= wanted.no
    /\ cookie # NoSealed =>
         ReadsCookie(wanted) /\ \A h \in SealHosts : ReadsCookie(instance[h].config)

\* Once every process runs the deployed configuration, only cookies from before that
\* are sealed under another secret than its primary one.
OldBeforeSettled ==
    /\ cookie.at <= sealNow /\ settled <= sealNow
    /\ RolledOut => cookie.secret = wanted.primary \/ cookie.at <= settled

SealInv ==
    /\ SealTypeOK /\ OneDeploymentBehind /\ CookieRead /\ OldBeforeSettled
    /\ SessionsSurviveRotation

LEMMA SealInvInit == SealInit => SealInv
  BY SealAssumption
     DEF SealInit, SealInv, SealTypeOK, SealConfigs, KeyStates, OneDeploymentBehind, CookieRead,
         OldBeforeSettled, SessionsSurviveRotation, NewSessionCookie, NoSealed, Unsent, RolledOut

LEMMA DerivedKeys ==
    ASSUME NEW k \in KeyStates
    PROVE  Derived(k) \subseteq {"ready", "failed"}
  BY DEF Derived, KeyStates

\* Sealing: whatever is running reads what any process seals now, or is older.
LEMMA SealStep ==
    ASSUME SealInv, NEW h \in SealHosts, Seal(h)
    PROVE  SealInv'
<1> USE SealAssumption
<1>1. PICK pk \in Derived(instance[h].primaryKey), body \in SealedBodies :
      /\ instance' = [instance EXCEPT ![h].primaryKey = pk]
      /\ cookie' = IF pk = "failed" THEN cookie
                   ELSE [secret |-> SealingSecret(instance[h].config),
                         no |-> instance[h].config.no, at |-> sealNow, body |-> body]
      /\ UNCHANGED <<sealNow, wanted, settled, verdict>>
  BY DEF Seal
<1>2. pk \in KeyStates
  BY <1>1, DerivedKeys DEF SealInv, SealTypeOK, KeyStates
<1>3. SealTypeOK'
  BY <1>1, <1>2 DEF SealInv, SealTypeOK, SealConfigs, SealingSecret
<1>4. \A g \in SealHosts : instance'[g].config = instance[g].config
  BY <1>1 DEF SealInv, SealTypeOK
<1>5. OneDeploymentBehind'
  BY <1>1, <1>4 DEF SealInv, OneDeploymentBehind
<1>6. CASE pk = "failed"
  BY <1>1, <1>3, <1>4, <1>5, <1>6
     DEF SealInv, CookieRead, ReadsCookie, OldBeforeSettled, SessionsSurviveRotation, RolledOut
<1>7. CASE pk # "failed"
  <2> DEFINE own == instance[h].config
  <2>1. /\ cookie' # NoSealed /\ cookie'.secret = own.primary /\ cookie'.no = own.no
        /\ cookie'.at = sealNow
    BY <1>1, <1>7 DEF NoSealed, SealedBodies, SealingSecret
  <2>2. own \in SealConfigs /\ wanted \in SealConfigs
        /\ \A g \in SealHosts : instance[g].config \in SealConfigs
    BY DEF SealInv, SealTypeOK
  <2>3. own = wanted \/ Follows(own, wanted)
    BY DEF SealInv, OneDeploymentBehind
  <2>4. own.no < wanted.no \/ own.no = wanted.no
    BY <2>2, <2>3 DEF Follows, SealConfigs
  <2> HIDE DEF own
  <2>5. ReadsCookie(wanted)'
    BY <1>1, <2>1, <2>2, <2>3 DEF ReadsCookie, Follows, SealConfigs
  <2>6. ASSUME NEW g \in SealHosts PROVE ReadsCookie(instance[g].config)'
    <3> DEFINE x == instance[g].config
    <3>1. x \in SealConfigs /\ (x = wanted \/ Follows(x, wanted))
      BY DEF SealInv, SealTypeOK, OneDeploymentBehind
    <3>2. instance'[g].config = x
      BY <1>4
    <3> HIDE DEF x
    <3>3. x.no < own.no \/ own.primary = x.primary \/ (x.fallback # 0 /\ own.primary = x.fallback)
      BY <2>2, <2>3, <3>1 DEF Follows, SealConfigs
    <3> QED  BY <2>1, <3>2, <3>3 DEF ReadsCookie
  <2>7. CookieRead'
    BY <1>1, <2>1, <2>2, <2>4, <2>5, <2>6 DEF CookieRead, SealConfigs
  <2>8. OldBeforeSettled'
    <3>1. RolledOut' => own = wanted
      BY <1>1, <1>4 DEF RolledOut, own
    <3> QED  BY <1>1, <2>1, <3>1 DEF OldBeforeSettled, SealInv, SealTypeOK
  <2> QED  BY <1>1, <1>3, <1>5, <2>7, <2>8 DEF SealInv, SessionsSurviveRotation
<1> QED  BY <1>6, <1>7

\* Unsealing: what a request with the cookie is told.
LEMMA CarryStep ==
    ASSUME SealInv, NEW h \in SealHosts, Carry(h)
    PROVE  SealInv'
<1> USE SealAssumption
<1> DEFINE conf == instance[h].config
<1>1. PICK body \in {cookie.body, "tampered"}, pk \in Derived(instance[h].primaryKey) :
         \E fk \in IF NeedsFallback([cookie EXCEPT !.body = body], conf, pk)
                   THEN Derived(instance[h].fallbackKey) ELSE {instance[h].fallbackKey} :
               /\ instance' = [instance EXCEPT ![h] = [@ EXCEPT !.primaryKey = pk, !.fallbackKey = fk]]
               /\ verdict' = [of |-> UnsealJson([cookie EXCEPT !.body = body],
                                         Unseal([cookie EXCEPT !.body = body], conf, pk, fk)),
                              failed |-> "failed" \in {pk, fk},
                              alive |-> sealNow < cookie.at + SealLife,
                              intact |-> body # "tampered", newer |-> conf.no < cookie.no]
  BY DEF Carry
<1> DEFINE tok == [cookie EXCEPT !.body = body]
<1>2. PICK fk \in IF NeedsFallback(tok, conf, pk)
                   THEN Derived(instance[h].fallbackKey) ELSE {instance[h].fallbackKey} :
               /\ instance' = [instance EXCEPT ![h] = [@ EXCEPT !.primaryKey = pk, !.fallbackKey = fk]]
               /\ verdict' = [of |-> UnsealJson(tok, Unseal(tok, conf, pk, fk)),
                              failed |-> "failed" \in {pk, fk},
                              alive |-> sealNow < cookie.at + SealLife,
                              intact |-> body # "tampered", newer |-> conf.no < cookie.no]
  BY <1>1
<1>3. /\ cookie # NoSealed /\ UNCHANGED <<sealNow, wanted, settled, cookie>>
  BY DEF Carry
<1>4. /\ conf \in SealConfigs /\ instance[h].primaryKey \in KeyStates
      /\ instance[h].fallbackKey \in KeyStates
      /\ cookie.secret \in Nat /\ cookie.at \in Nat /\ cookie.no \in Nat /\ sealNow \in Nat
  BY DEF SealInv, SealTypeOK
<1>5. tok.secret = cookie.secret /\ tok.body = body
  BY DEF SealInv, SealTypeOK
<1>6. pk \in {"ready", "failed"} /\ fk \in KeyStates
      /\ (NeedsFallback(tok, conf, pk) => fk \in {"ready", "failed"})
  BY <1>1, <1>2, <1>4, DerivedKeys DEF KeyStates
<1>7. ReadsCookie(conf)
  BY <1>3 DEF SealInv, CookieRead
<1> HIDE DEF tok, conf
<1> DEFINE opened == Unseal(tok, conf, pk, fk)
<1>8. /\ opened \in {"throws", "plaintext", "null"}
      /\ opened = "plaintext" => body # "tampered"
      /\ opened \in {"throws", "null"} /\ body # "tampered" /\ sealNow < cookie.at + SealLife =>
           conf.no < cookie.no \/ "failed" \in {pk, fk}
  <2>1. CASE pk = "failed"
    BY <2>1 DEF Unseal
  <2>2. CASE pk = "ready" /\ Opens(tok, conf.primary)
    BY <1>5, <2>2 DEF Unseal, Opens
  <2>3. CASE pk = "ready" /\ ~Opens(tok, conf.primary) /\ conf.fallback = 0
    <3>1. opened = "null"
      BY <2>3 DEF Unseal
    <3>2. body # "tampered" => cookie.secret # conf.primary
      BY <1>5, <2>3 DEF Opens
    <3> QED  BY <1>4, <1>7, <2>3, <3>1, <3>2 DEF ReadsCookie
  <2>4. CASE pk = "ready" /\ ~Opens(tok, conf.primary) /\ conf.fallback # 0
    <3>1. opened = IF fk = "failed" THEN "throws"
                   ELSE IF Opens(tok, conf.fallback) THEN "plaintext" ELSE "null"
      BY <2>4 DEF Unseal
    <3>2. body # "tampered" => cookie.secret # conf.primary
      BY <1>5, <2>4 DEF Opens
    <3> QED  BY <1>4, <1>5, <1>7, <2>4, <3>1, <3>2 DEF ReadsCookie, Opens
  <2> QED  BY <1>6, <2>1, <2>2, <2>3, <2>4
<1> HIDE DEF opened
<1>9. /\ UnsealJson(tok, opened) \in {"session", "UnsealError", "null", "throws"}
      /\ UnsealJson(tok, opened) \in {"session", "UnsealError"} => opened = "plaintext"
      /\ UnsealJson(tok, opened) \in {"null", "throws"} => opened \in {"null", "throws"}
  BY <1>8 DEF UnsealJson
<1>10. verdict' = [of |-> UnsealJson(tok, opened), failed |-> "failed" \in {pk, fk},
                   alive |-> sealNow < cookie.at + SealLife,
                   intact |-> body # "tampered", newer |-> conf.no < cookie.no]
  BY <1>2 DEF opened
<1>11. SessionsSurviveRotation'
  BY <1>8, <1>9, <1>10 DEF SessionsSurviveRotation
<1>12. instance' \in [SealHosts -> [config : SealConfigs, primaryKey : KeyStates, fallbackKey : KeyStates]]
       /\ \A g \in SealHosts : instance'[g].config = instance[g].config
  BY <1>2, <1>6, ZenonT(60) DEF SealInv, SealTypeOK, KeyStates
<1>13. SealTypeOK'
  BY <1>3, <1>9, <1>10, <1>12 DEF SealInv, SealTypeOK
<1> QED
  BY <1>3, <1>11, <1>12, <1>13
     DEF SealInv, OneDeploymentBehind, CookieRead, ReadsCookie, OldBeforeSettled, RolledOut

LEMMA SealInvStep == SealInv /\ [SealNext]_sealVars => SealInv'
<1> SUFFICES ASSUME SealInv, [SealNext]_sealVars PROVE SealInv'
  OBVIOUS
<1> USE SealAssumption
<1>1. ASSUME NEW h \in SealHosts, Restart(h) PROVE SealInv'
  <2>1. PICK conf \in {wanted, instance[h].config} :
           instance' = [instance EXCEPT ![h] = NewSessionCookie(conf)]
    BY <1>1 DEF Restart
  <2>2. UNCHANGED <<sealNow, wanted, cookie, verdict>>
    BY <1>1 DEF Restart
  <2>3. conf \in SealConfigs
    BY <2>1 DEF SealInv, SealTypeOK
  <2>4. instance' \in [SealHosts -> [config : SealConfigs, primaryKey : KeyStates, fallbackKey : KeyStates]]
        /\ instance'[h].config = conf
        /\ \A g \in SealHosts : g # h => instance'[g].config = instance[g].config
    BY <2>1, <2>3 DEF SealInv, SealTypeOK, NewSessionCookie, KeyStates
  <2>5. settled' \in {settled, sealNow}
    BY <1>1 DEF Restart
  <2>6. SealTypeOK'
    BY <2>2, <2>4, <2>5 DEF SealInv, SealTypeOK
  <2>7. OneDeploymentBehind'
    BY <2>1, <2>2, <2>4 DEF SealInv, OneDeploymentBehind
  <2>8. CookieRead'
    BY <2>1, <2>2, <2>4 DEF SealInv, CookieRead, ReadsCookie
  <2>9. OldBeforeSettled'
    <3>1. CASE RolledOut
      BY <1>1, <2>1, <2>2, <2>4, <3>1 DEF Restart, SealInv, OldBeforeSettled, RolledOut
    <3>2. CASE ~RolledOut /\ RolledOut'
      BY <1>1, <2>2, <3>2 DEF Restart, SealInv, SealTypeOK, OldBeforeSettled, RolledOut
    <3>3. CASE ~RolledOut'
      BY <2>2, <2>5, <3>3 DEF SealInv, SealTypeOK, OldBeforeSettled
    <3> QED  BY <3>1, <3>2, <3>3
  <2> QED  BY <2>2, <2>6, <2>7, <2>8, <2>9 DEF SealInv, SessionsSurviveRotation
<1>2. CASE RotateIn
  <2>1. wanted' \in SealConfigs /\ Follows(wanted, wanted')
        /\ wanted'.fallback = wanted.primary /\ wanted.primary # 0
    BY <1>2 DEF RotateIn, SealInv, SealTypeOK, SealConfigs, Follows
  <2>2. SealTypeOK'
    BY <1>2, <2>1 DEF RotateIn, SealInv, SealTypeOK
  <2>3. OneDeploymentBehind'
    BY <1>2, <2>1 DEF RotateIn, RolledOut, OneDeploymentBehind
  <2>4. ReadsCookie(wanted) => ReadsCookie(wanted)'
    BY <1>2, <2>1 DEF RotateIn, ReadsCookie, SealInv, SealTypeOK, SealConfigs, CookieRead, Follows
  <2>5. CookieRead'
    BY <1>2, <2>1, <2>4 DEF RotateIn, SealInv, SealTypeOK, SealConfigs, Follows, CookieRead, ReadsCookie
  <2>6. ~RolledOut'
    BY <1>2, <2>1 DEF RotateIn, RolledOut, Follows, SealInv, SealTypeOK, SealConfigs
  <2> QED
    BY <1>2, <2>2, <2>3, <2>5, <2>6 DEF RotateIn, SealInv, OldBeforeSettled, SessionsSurviveRotation
<1>3. CASE RotateOut
  <2>1. wanted' \in SealConfigs /\ Follows(wanted, wanted') /\ wanted'.primary = wanted.primary
    BY <1>3 DEF RotateOut, SealInv, SealTypeOK, SealConfigs, Follows
  <2>2. SealTypeOK'
    BY <1>3, <2>1 DEF RotateOut, SealInv, SealTypeOK
  <2>3. OneDeploymentBehind'
    BY <1>3, <2>1 DEF RotateOut, RolledOut, OneDeploymentBehind
  <2>4. cookie.secret = wanted.primary \/ sealNow >= cookie.at + SealLife
    BY <1>3 DEF RotateOut, SealInv, OldBeforeSettled, SealTypeOK
  <2>5. ReadsCookie(wanted)'
    BY <1>3, <2>1, <2>4 DEF RotateOut, ReadsCookie
  <2>6. CookieRead'
    BY <1>3, <2>1, <2>5 DEF RotateOut, SealInv, SealTypeOK, SealConfigs, Follows, CookieRead, ReadsCookie
  <2>7. ~RolledOut'
    BY <1>3, <2>1 DEF RotateOut, RolledOut, Follows, SealInv, SealTypeOK, SealConfigs
  <2> QED
    BY <1>3, <2>2, <2>3, <2>6, <2>7 DEF RotateOut, SealInv, OldBeforeSettled, SessionsSurviveRotation
<1>4. CASE SealTick
  <2>1. SealTypeOK' /\ OneDeploymentBehind' /\ SessionsSurviveRotation'
    BY <1>4 DEF SealTick, SealInv, SealTypeOK, OneDeploymentBehind, SessionsSurviveRotation
  <2>2. CookieRead'
    BY <1>4 DEF SealTick, SealInv, SealTypeOK, CookieRead, ReadsCookie
  <2>3. OldBeforeSettled'
    BY <1>4 DEF SealTick, SealInv, SealTypeOK, OldBeforeSettled, RolledOut
  <2> QED  BY <2>1, <2>2, <2>3 DEF SealInv
<1>5. CASE UNCHANGED sealVars
  BY <1>5 DEF sealVars, SealInv, SealTypeOK, OneDeploymentBehind, CookieRead, ReadsCookie,
              OldBeforeSettled, RolledOut, SessionsSurviveRotation
<1> QED
  BY <1>1, <1>2, <1>3, <1>4, <1>5, SealStep, CarryStep DEF SealNext

\* The processes' keys and configurations and the browser's cookie stay well typed.
THEOREM SealTypeCorrect == SealSpec => []SealTypeOK
  BY SealInvInit, SealInvStep, PTL DEF SealSpec, SealInv

\* Rotating the secret the documented way ends no session, for any number of
\* processes, rotations and restarts and any session lifetime.
THEOREM SessionsSurvive == SealSpec => []SessionsSurviveRotation
  BY SealInvInit, SealInvStep, PTL DEF SealSpec, SealInv

------------------------------------------------------------------------------

(* Sessions.  Every cookie in an answer or a jar is one this deployment set for *)
(* this browser at a tenant it signed in to.  A session's tokens end together,  *)
(* and a refresh token in an answer has not been exchanged yet, so a browser    *)
(* that gets the answer to its refresh holds a token with the session's life.   *)

Tokens == [user : Browsers, tenant : SessionTenants, session : Nat, n : Nat]

SessionCookies ==
    [name : {"id-token", "refresh-token"}, hosts : SUBSET SessionTenants, tenant : SessionTenants,
     user : Browsers, exp : Nat, age : Nat, token : Tokens]

Honours == [token : Tokens, until : Nat, ends : Nat]

Answers ==
    [to : Browsers, host : SessionTenants, cookies : SUBSET SessionCookies, replaces : SUBSET Tokens]

STypeOK ==
    /\ deployment \in {"single", "shared"} /\ sNow \in 0..SMaxTime /\ minted \in Nat
    /\ jar \in [Browsers -> SUBSET SessionCookies]
    /\ honoured \subseteq Honours
    /\ answers \subseteq Answers
    /\ delivered \subseteq Tokens /\ missed \subseteq Tokens /\ stranded \subseteq Browsers

IsId(c) == c.name = "id-token"

\* Every cookie is for one host, of its tenant and its browser.
OwnCookie(c, b, t) ==
    /\ c.hosts = {t} /\ c.tenant = t /\ c.user = b
    /\ c.token.user = b /\ c.token.tenant = t

\* The cookies of one answer: an ID token and a refresh token, or none.
CookiesOK(a) ==
    /\ \A c \in a.cookies : OwnCookie(c, a.to, a.host)
    /\ \A c, d \in a.cookies : c.name = d.name => c = d
    /\ \A c \in a.cookies : IsId(c) => c.exp = sNow + IdTtl /\ c.age = IdCookieAge
    /\ a.cookies # {} => \E c, d \in a.cookies : IsId(c) /\ ~IsId(d)
    /\ \A k \in a.replaces : k.user = a.to /\ k.tenant = a.host
    /\ a.cookies = {} => a.replaces = {}

\* An answer under way was made in this tick.
AnswersOwn == \A a \in answers : CookiesOK(a)

JarOwn ==
    \A b \in Browsers :
      /\ \A c \in jar[b] : OwnCookie(c, b, c.tenant)
      /\ \A c, d \in jar[b] : c.name = d.name /\ c.tenant = d.tenant => c = d

\* What Cognito honours, and what is in an answer or a jar, has been minted.
Known(k) == k.n <= minted /\ k.session <= minted

TokensKnown ==
    /\ \A r \in honoured : /\ Known(r.token) /\ r.until <= r.ends
                           /\ sNow <= r.until /\ r.ends <= sNow + RefreshValidity
    /\ \A k \in delivered : Known(k)
    /\ \A a \in answers : \A c \in a.cookies : ~IsId(c) => Known(c.token)
    /\ \A b \in Browsers : \A c \in jar[b] : ~IsId(c) => Known(c.token)

\* On the single site an ID-token cookie outlasts every delivered session that
\* Cognito honours, unless a sign-out cleared it.
CookieOutlasts ==
    deployment = "single" =>
      \A r \in honoured : r.token \in delivered /\ r.token.user \notin stranded =>
        \E c \in jar[r.token.user] :
          IsId(c) /\ r.until <= c.age /\ r.until <= c.exp + RefreshValidity

\* Cognito honours something of a session; it honours a token; it honours a token as
\* long as the session.
Alive(s) == \E r \in honoured : r.token.session = s
Honoured(k) == \E r \in honoured : r.token = k
Whole(k) == \E r \in honoured : r.token = k /\ r.until = r.ends

\* The tokens of one session are one browser's at one tenant, and end together.
OneSession ==
    \A r, q \in honoured : r.token.session = q.token.session =>
        r.token.user = q.token.user /\ r.token.tenant = q.token.tenant /\ r.ends = q.ends

\* The refresh token in cookie c of answer a has never been sent back, and no other
\* answer has it.
Undelivered(a, c) ==
    /\ Alive(c.token.session) => Whole(c.token)
    /\ \A b \in Browsers : \A d \in jar[b] : ~IsId(d) => d.token # c.token
    /\ \A e \in answers : \A d \in e.cookies : ~IsId(d) /\ d.token = c.token => e = a

Underway == \A a \in answers : \A c \in a.cookies : ~IsId(c) => Undelivered(a, c)

\* A token that is being exchanged is still in its grace.
InGrace == \A a \in answers : \A k \in a.replaces : Alive(k.session) => Honoured(k)

GraceKnown == \A a \in answers : \A k \in a.replaces : k.session <= minted

\* The token in a jar lasts, or its replacement is under way, or was lost.
JarLasts ==
    \A b \in Browsers : \A c \in jar[b] : ~IsId(c) =>
        \/ Alive(c.token.session) => Whole(c.token)
        \/ c.token \in missed
        \/ \E a \in answers : c.token \in a.replaces

SInv ==
    /\ STypeOK /\ AnswersOwn /\ JarOwn /\ TokensKnown /\ CookieOutlasts
    /\ OneSession /\ Underway /\ InGrace /\ GraceKnown /\ JarLasts

LEMMA SInvInit == SInit => SInv
<1> SUFFICES ASSUME SInit PROVE SInv
  OBVIOUS
<1>1. honoured = {} /\ answers = {} /\ delivered = {} /\ \A b \in Browsers : jar[b] = {}
  BY DEF SInit
<1>2. STypeOK
  BY SessionAssumption DEF SInit, STypeOK
<1>3. AnswersOwn /\ Underway /\ InGrace /\ GraceKnown
  BY <1>1 DEF AnswersOwn, Underway, InGrace, GraceKnown
<1>4. JarOwn /\ JarLasts
  BY <1>1 DEF JarOwn, JarLasts
<1>5. TokensKnown
  BY <1>1 DEF TokensKnown
<1>6. CookieOutlasts /\ OneSession
  BY <1>1 DEF CookieOutlasts, OneSession
<1> QED  BY <1>2, <1>3, <1>4, <1>5, <1>6 DEF SInv

LEMMA SessionConstants ==
    /\ IdTtl \in Nat \ {0} /\ RefreshValidity \in Nat \ {0} /\ RefreshCookieAge \in Nat \ {0}
    /\ RotationGrace \in Nat \ {0}
    /\ SMaxTime \in Nat /\ MaxTokens \in Nat
    /\ IdCookieAge \in Nat
    /\ SessionHosts \subseteq SessionTenants
  BY SessionAssumption DEF IdCookieAge, SessionHosts

\* Fewer honoured tokens, by whole sessions, and answers without cookies.
LEMMA RevocationKeeps ==
    ASSUME SInv, honoured' \subseteq honoured,
           \A r, q \in honoured : r.token.session = q.token.session /\ r \in honoured' => q \in honoured',
           NEW A \in SUBSET Answers, \A a \in A : a.cookies = {} /\ a.replaces = {},
           answers' = answers \cup A,
           UNCHANGED <<deployment, sNow, jar, delivered, missed, stranded, minted>>
    PROVE  SInv'
<1>1. STypeOK' /\ JarOwn' /\ TokensKnown' /\ CookieOutlasts' /\ OneSession'
  BY DEF SInv, STypeOK, JarOwn, OwnCookie, TokensKnown, Known, CookieOutlasts, OneSession
<1>2. AnswersOwn'
  BY DEF SInv, AnswersOwn, CookiesOK, OwnCookie, IdCookieAge
<1>3. \A k : (Alive(k.session) => Whole(k)) => (Alive(k.session) => Whole(k))'
  BY DEF Alive, Whole
<1>4. \A k : (Alive(k.session) => Honoured(k)) => (Alive(k.session) => Honoured(k))'
  BY DEF Alive, Honoured
<1>5. Underway' /\ InGrace' /\ GraceKnown' /\ JarLasts'
  BY <1>3, <1>4 DEF SInv, Underway, Undelivered, InGrace, GraceKnown, JarLasts
<1> QED  BY <1>1, <1>2, <1>5 DEF SInv

\* An answer with the new token k joins those under way, and what Cognito honours
\* grows by it: a sign-in or a refresh.
LEMMA MintingKeeps ==
    ASSUME SInv, NEW b \in Browsers, NEW t \in SessionTenants,
           NEW session \in Nat, session <= minted + 1, NEW R \in SUBSET Tokens,
           NEW end \in Nat, sNow <= end, end <= sNow + RefreshValidity,
           \A x \in R : x.user = b /\ x.tenant = t /\ x.session = session /\ Honoured(x)',
           NEW k, k = RefreshToken(b, t, session, minted + 1), minted' = minted + 1,
           NEW a, a = Answer(b, t, {IdCookie(b, t), RefreshCookie(k)}, R), answers' = answers \cup {a},
           UNCHANGED <<deployment, sNow, jar, delivered, missed, stranded>>,
           Honour(k, end) \in honoured',
           honoured' \subseteq Honours,
           deployment = "single" => \A r \in honoured' : r \in honoured \/ r.token = k,
           \A r \in honoured' :
              /\ Known(r.token)' /\ r.until <= r.ends /\ sNow <= r.until /\ r.ends <= sNow + RefreshValidity
              /\ r.token.session # session => r \in honoured
              /\ r.token.session = session => r.token.user = b /\ r.token.tenant = t /\ r.ends = end,
           \A r \in honoured : r.token \notin R => r \in honoured',
           session # minted + 1 => Alive(session),
           \A x \in R : \E c \in jar[b] : ~IsId(c) /\ c.token = x
    PROVE  SInv'
<1> USE SessionConstants
<1>1. k \in Tokens /\ k.user = b /\ k.tenant = t /\ k.session = session /\ k.n = minted + 1
      /\ minted \in Nat
  BY DEF RefreshToken, Tokens, SInv, STypeOK
<1>2. /\ a \in Answers /\ CookiesOK(a) /\ a.to = b /\ a.host = t /\ a.replaces = R
      /\ \A c \in a.cookies : ~IsId(c) => c.token = k
  <2> DEFINE i == IdCookie(b, t)
             r == RefreshCookie(k)
             z == RefreshToken(b, t, 0, 0)
  <2>0. z \in Tokens /\ z.user = b /\ z.tenant = t
    BY DEF RefreshToken, Tokens
  <2>1. /\ i \in SessionCookies /\ i.hosts = {t} /\ i.tenant = t /\ i.user = b /\ i.token = z
        /\ IsId(i) /\ i.exp = sNow + IdTtl /\ i.age = IdCookieAge /\ i.name = "id-token"
    BY <2>0 DEF IdCookie, CookieDomain, SessionCookies, SInv, STypeOK, IsId
  <2>2. /\ r \in SessionCookies /\ r.hosts = {t} /\ r.tenant = t /\ r.user = b /\ r.token = k
        /\ ~IsId(r) /\ r.name = "refresh-token"
    BY <1>1 DEF RefreshCookie, CookieDomain, SessionCookies, IsId
  <2>3. a = Answer(b, t, {i, r}, R)
    OBVIOUS
  <2> HIDE DEF i, r, z
  <2>4. OwnCookie(i, b, t) /\ OwnCookie(r, b, t)
    BY <1>1, <2>0, <2>1, <2>2 DEF OwnCookie
  <2>5. /\ a.to = b /\ a.host = t /\ a.replaces = R /\ a.cookies = {i, r}
        /\ a \in Answers
    BY <2>1, <2>2, <2>3 DEF Answer, Answers
  <2>6. CookiesOK(a)
    BY <2>1, <2>2, <2>4, <2>5 DEF CookiesOK
  <2> QED
    BY <2>1, <2>2, <2>5, <2>6
<1>4. Honour(k, end).token = k /\ Honour(k, end).until = end /\ Honour(k, end).ends = end
  BY DEF Honour
<1>6. STypeOK'
  BY <1>1, <1>2 DEF SInv, STypeOK
<1>7. AnswersOwn'
  <2>1. \A e : CookiesOK(e) => CookiesOK(e)'
    BY DEF CookiesOK, OwnCookie, IdCookieAge
  <2> QED  BY <1>2, <2>1 DEF SInv, AnswersOwn
<1>8. JarOwn'
  BY DEF SInv, JarOwn, OwnCookie
<1>9. /\ \A e \in answers : \A c \in e.cookies : c.token \in Tokens
      /\ \A e \in Browsers : \A c \in jar[e] : c.token \in Tokens
      /\ \A r \in honoured : r.token \in Tokens
      /\ \A x \in delivered : x \in Tokens
  BY DEF SInv, STypeOK, Answers, SessionCookies, Honours
<1>10. \A x \in Tokens : (Known(x) => Known(x)' /\ x # k /\ (x.session = session => Alive(session)))
  BY <1>1 DEF Known, Tokens
<1>11. TokensKnown'
  <2>1. Known(k)'
    BY <1>1 DEF Known
  <2>2. \A e \in answers' : \A c \in e.cookies : ~IsId(c) => Known(c.token)'
    BY <1>2, <1>9, <1>10, <2>1 DEF SInv, TokensKnown
  <2>3. \A x \in delivered : Known(x)'
    BY <1>9, <1>10 DEF SInv, TokensKnown
  <2>4. \A e \in Browsers : \A c \in jar[e] : ~IsId(c) => Known(c.token)'
    BY <1>9, <1>10 DEF SInv, TokensKnown
  <2> QED  BY <2>2, <2>3, <2>4 DEF TokensKnown
<1>12. CookieOutlasts'
  <2> SUFFICES ASSUME deployment = "single", NEW r \in honoured', r.token \in delivered,
                      r.token.user \notin stranded
               PROVE  \E c \in jar[r.token.user] :
                        IsId(c) /\ r.until <= c.age /\ r.until <= c.exp + RefreshValidity
    BY DEF CookieOutlasts
  <2>1. r.token # k
    BY <1>9, <1>10 DEF SInv, TokensKnown
  <2>2. r \in honoured
    BY <1>4, <2>1
  <2> QED  BY <2>2 DEF SInv, CookieOutlasts
<1>13. OneSession'
  BY DEF SInv, OneSession
<1>14. ASSUME NEW x \in Tokens, Known(x), Alive(x.session) => Whole(x), x \notin R
       PROVE  (Alive(x.session) => Whole(x))'
  <2>1. Alive(x.session)' => Alive(x.session)
    BY <1>10, <1>14 DEF Alive
  <2> QED  BY <1>14, <2>1 DEF Whole
<1>15. Whole(k)'
  BY <1>4 DEF Whole
<1>16. \A e \in answers : \A c \in e.cookies : ~IsId(c) => c.token \notin R
  BY DEF SInv, Underway, Undelivered
<1>17. ASSUME NEW e \in answers', NEW c \in e.cookies, ~IsId(c) PROVE Undelivered(e, c)'
  <2> SUFFICES /\ (Alive(c.token.session) => Whole(c.token))'
               /\ \A x \in Browsers : \A d \in jar[x] : ~IsId(d) => d.token # c.token
               /\ \A f \in answers' : \A d \in f.cookies :
                    ~IsId(d) /\ d.token = c.token => f = e
    BY DEF Undelivered, IsId
  <2>1. CASE e \in answers
    <3>1. c.token \in Tokens /\ Known(c.token) /\ c.token # k /\ c.token \notin R
      BY <1>9, <1>10, <1>16, <1>17, <2>1 DEF SInv, TokensKnown
    <3>2. (Alive(c.token.session) => Whole(c.token))'
      BY <1>14, <1>17, <2>1, <3>1 DEF SInv, Underway, Undelivered
    <3>3. /\ \A x \in Browsers : \A d \in jar[x] : ~IsId(d) => d.token # c.token
          /\ \A f \in answers : \A d \in f.cookies : ~IsId(d) /\ d.token = c.token => f = e
      BY <1>17, <2>1 DEF SInv, Underway, Undelivered
    <3> QED  BY <1>2, <3>1, <3>2, <3>3
  <2>2. CASE e = a
    <3>1. c.token = k
      BY <1>2, <1>17, <2>2
    <3>2. \A x \in Browsers : \A d \in jar[x] : ~IsId(d) => d.token # k
      BY <1>9, <1>10 DEF SInv, TokensKnown
    <3>3. \A f \in answers : \A d \in f.cookies : ~IsId(d) => d.token # k
      BY <1>9, <1>10 DEF SInv, TokensKnown
    <3> QED  BY <1>15, <2>2, <3>1, <3>2, <3>3
  <2> QED  BY <1>17, <2>1, <2>2
<1>21. Underway'
  BY <1>17 DEF Underway, IsId
<1>18. InGrace'
  <2> SUFFICES ASSUME NEW e \in answers', NEW x \in e.replaces, Alive(x.session)'
               PROVE  Honoured(x)'
    BY DEF InGrace
  <2>1. CASE x \in R
    BY <2>1
  <2>2. CASE x \notin R
    <3>1. e \in answers
      BY <1>2, <2>2
    <3>2. PICK r \in honoured' : r.token.session = x.session
      BY DEF Alive
    <3>3. Alive(x.session)
      <4>1. CASE r \in honoured
        BY <3>2, <4>1 DEF Alive
      <4>2. CASE r \notin honoured
        <5>1. x.session = session
          BY <3>2, <4>2
        <5>2. CASE session # minted + 1
          BY <5>1, <5>2
        <5>3. CASE session = minted + 1
          <6>1. x.session <= minted
            BY <3>1 DEF SInv, GraceKnown
          <6> QED  BY <1>1, <5>1, <5>3, <6>1
        <5> QED  BY <5>2, <5>3
      <4> QED  BY <4>1, <4>2
    <3>4. PICK q \in honoured : q.token = x
      BY <3>1, <3>3 DEF SInv, InGrace, Honoured
    <3> QED  BY <2>2, <3>4 DEF Honoured
  <2> QED  BY <2>1, <2>2
<1>19. JarLasts'
  <2> SUFFICES ASSUME NEW e \in Browsers, NEW c \in jar[e], ~IsId(c)
               PROVE  \/ (Alive(c.token.session) => Whole(c.token))'
                      \/ c.token \in missed
                      \/ \E f \in answers' : c.token \in f.replaces
    BY DEF JarLasts
  <2>1. CASE c.token \in R
    BY <1>2, <2>1
  <2>2. CASE c.token \notin R
    <3>1. c.token \in Tokens /\ Known(c.token)
      BY <1>9 DEF SInv, TokensKnown
    <3> QED  BY <1>14, <2>2, <3>1 DEF SInv, JarLasts
  <2> QED  BY <2>1, <2>2
<1>20. GraceKnown'
  <2>1. \A e \in answers : \A x \in e.replaces : x.session <= minted + 1
    BY <1>1 DEF SInv, STypeOK, Answers, Tokens, GraceKnown
  <2>2. \A x \in R : x.session <= minted + 1
    OBVIOUS
  <2> QED  BY <1>2, <2>1, <2>2 DEF GraceKnown
<1> QED
  BY <1>6, <1>7, <1>8, <1>11, <1>12, <1>13, <1>18, <1>19, <1>20, <1>21 DEF SInv

LEMMA SInvStep == SInv /\ [SNext]_sVars => SInv'
<1> SUFFICES ASSUME SInv, [SNext]_sVars PROVE SInv'
  OBVIOUS
<1> USE SessionConstants
<1>0. /\ sNow \in Nat /\ minted \in Nat
      /\ \A r \in honoured : r \in Honours /\ r.token \in Tokens /\ r.until \in Nat /\ r.ends \in Nat
      /\ \A r \in honoured : r.token.session \in Nat /\ r.token.n \in Nat
  BY DEF SInv, STypeOK, Honours, Tokens
<1>1. ASSUME NEW b \in Browsers, NEW t \in SessionTenants, Redeem(b, t) PROVE SInv'
  <2>1. PICK end \in Nat : end = sNow + RefreshValidity
    BY <1>0
  <2>2. PICK k : k = RefreshToken(b, t, minted + 1, minted + 1)
    OBVIOUS
  <2>3. PICK a : a = Answer(b, t, {IdCookie(b, t), RefreshCookie(k)}, {})
    OBVIOUS
  <2>4. PICK s \in Nat : s = minted + 1
    BY <1>0
  <2>5. /\ minted' = minted + 1 /\ answers' = answers \cup {a}
        /\ honoured' = honoured \cup {Honour(k, end)}
        /\ UNCHANGED <<deployment, sNow, jar, delivered, missed, stranded>>
    BY <1>1, <2>1, <2>2, <2>3 DEF Redeem, history
  <2>6. k \in Tokens /\ k.user = b /\ k.tenant = t /\ k.session = s /\ k.n = s
    BY <1>0, <2>2, <2>4 DEF RefreshToken, Tokens
  <2>7. /\ Honour(k, end) \in Honours /\ Honour(k, end).token = k
        /\ Honour(k, end).until = end /\ Honour(k, end).ends = end
    BY <2>6 DEF Honour, Honours
  <2>8. ASSUME NEW r \in honoured
        PROVE  /\ r.token.session < s
               /\ Known(r.token)' /\ r.until <= r.ends /\ sNow <= r.until
               /\ r.ends <= sNow + RefreshValidity
    BY <1>0, <2>4, <2>5 DEF SInv, TokensKnown, Known
  <2>9. Known(k)'
    BY <1>0, <2>4, <2>5, <2>6 DEF Known
  <2>10. ASSUME NEW r \in honoured'
         PROVE  /\ Known(r.token)' /\ r.until <= r.ends /\ sNow <= r.until
                /\ r.ends <= sNow + RefreshValidity
                /\ r.token.session # s => r \in honoured
                /\ r.token.session = s => r.token.user = b /\ r.token.tenant = t /\ r.ends = end
    <3>1. CASE r \in honoured
      BY <1>0, <2>4, <2>8, <3>1
    <3>2. CASE r = Honour(k, end)
      BY <1>0, <2>1, <2>6, <2>7, <2>9, <3>2
    <3> QED  BY <2>5, <3>1, <3>2
  <2>11. honoured' \subseteq Honours
    BY <1>0, <2>5, <2>7
  <2>12. k = RefreshToken(b, t, s, minted + 1) /\ s <= minted + 1 /\ sNow <= end /\ end <= sNow + RefreshValidity
    BY <1>0, <2>1, <2>2, <2>4
  <2>13. PICK R \in SUBSET Tokens : R = {}
    OBVIOUS
  <2>14. /\ \A x \in R : x.user = b /\ x.tenant = t /\ x.session = s /\ Honoured(x)'
         /\ \A x \in R : \E d \in jar[b] : ~IsId(d) /\ d.token = x
         /\ \A r \in honoured : r.token \notin R => r \in honoured'
         /\ a = Answer(b, t, {IdCookie(b, t), RefreshCookie(k)}, R)
         /\ Honour(k, end) \in honoured'
    BY <2>3, <2>5, <2>13
  <2>15. /\ \A r \in honoured' : r \in honoured \/ r.token = k
         /\ s = minted + 1
    BY <2>4, <2>5, <2>7
  <2> QED
    BY <2>5, <2>10, <2>11, <2>12, <2>14, <2>15, MintingKeeps
<1>2. ASSUME NEW b \in Browsers, NEW t \in SessionTenants, Refresh(b, t) PROVE SInv'
  <2>1. PICK c \in Sent(b, t, "refresh-token"), r \in honoured :
           LET k == RefreshToken(b, t, c.token.session, minted + 1)
           IN  /\ r.token = c.token /\ r.token.tenant = t
               /\ ExchangeToken(r, k)
               /\ answers' = answers \cup {Answer(b, t, {IdCookie(b, t), RefreshCookie(k)}, {c.token})}
    BY <1>2 DEF Refresh
  <2>2. PICK k : k = RefreshToken(b, t, c.token.session, minted + 1)
    OBVIOUS
  <2>3. PICK a : a = Answer(b, t, {IdCookie(b, t), RefreshCookie(k)}, {c.token})
    OBVIOUS
  <2>4. PICK s \in Nat : s = c.token.session
    BY <1>0, <2>1
  <2>5. PICK end \in Nat : end = r.ends
    BY <1>0
  <2>6. PICK g \in Nat : g = IF r.until < sNow + RotationGrace THEN r.until ELSE sNow + RotationGrace
    BY <1>0
  <2>7. PICK q : q = [r EXCEPT !.until = g]
    OBVIOUS
  <2>8. /\ minted' = minted + 1 /\ answers' = answers \cup {a} /\ deployment = "shared"
        /\ honoured' = (honoured \ {r}) \cup {q, Honour(k, end)}
        /\ UNCHANGED <<deployment, sNow, jar, delivered, missed, stranded>>
    BY <1>2, <2>1, <2>2, <2>3, <2>5, <2>6, <2>7 DEF Refresh, ExchangeToken, history
  <2>9. /\ c \in jar[b] /\ ~IsId(c) /\ t \in c.hosts /\ c \in SessionCookies
    BY DEF Sent, IsId, SInv, STypeOK
  <2>10. c.token \in Tokens /\ c.token.user = b /\ c.token.tenant = t
    BY <2>9 DEF SInv, JarOwn, OwnCookie, SessionCookies
  <2>11. k \in Tokens /\ k.user = b /\ k.tenant = t /\ k.session = s /\ k.n = minted + 1
    BY <1>0, <2>2, <2>4 DEF RefreshToken, Tokens
  <2>12. /\ Honour(k, end) \in Honours /\ Honour(k, end).token = k
         /\ Honour(k, end).until = end /\ Honour(k, end).ends = end
    BY <2>11 DEF Honour, Honours
  <2>13. q \in Honours /\ q.token = c.token /\ q.until = g /\ q.ends = end
    BY <1>0, <2>1, <2>5, <2>7 DEF Honours
  <2>14. /\ sNow <= g /\ g <= end /\ sNow <= end /\ end <= sNow + RefreshValidity
         /\ s <= minted /\ c.token.n <= minted
    <3>1. /\ Known(r.token) /\ r.until <= r.ends /\ sNow <= r.until /\ r.ends <= sNow + RefreshValidity
      BY DEF SInv, TokensKnown
    <3> QED  BY <1>0, <2>1, <2>4, <2>5, <2>6, <3>1 DEF Known
  <2>15. ASSUME NEW x \in honoured
         PROVE  /\ Known(x.token)' /\ x.until <= x.ends /\ sNow <= x.until
                /\ x.ends <= sNow + RefreshValidity
                /\ x.token.session = s => x.token.user = b /\ x.token.tenant = t /\ x.ends = end
    <3>1. /\ Known(x.token)' /\ x.until <= x.ends /\ sNow <= x.until
          /\ x.ends <= sNow + RefreshValidity
      BY <1>0, <2>8 DEF SInv, TokensKnown, Known
    <3>2. x.token.session = s => x.token.user = b /\ x.token.tenant = t /\ x.ends = end
      BY <2>1, <2>4, <2>5, <2>10 DEF SInv, OneSession
    <3> QED  BY <3>1, <3>2
  <2>16. Known(k)' /\ Known(c.token)'
    BY <1>0, <2>4, <2>8, <2>10, <2>11, <2>14 DEF Known, Tokens
  <2>17. ASSUME NEW x \in honoured'
         PROVE  /\ Known(x.token)' /\ x.until <= x.ends /\ sNow <= x.until
                /\ x.ends <= sNow + RefreshValidity
                /\ x.token.session # s => x \in honoured
                /\ x.token.session = s => x.token.user = b /\ x.token.tenant = t /\ x.ends = end
    <3>1. CASE x \in honoured
      BY <2>15, <3>1
    <3>2. CASE x = Honour(k, end)
      BY <2>11, <2>12, <2>14, <2>16, <3>2
    <3>3. CASE x = q
      BY <2>4, <2>10, <2>13, <2>14, <2>16, <3>3
    <3> QED  BY <2>8, <3>1, <3>2, <3>3
  <2>18. honoured' \subseteq Honours
    BY <1>0, <2>8, <2>12, <2>13
  <2>19. /\ Alive(s) /\ Honoured(c.token)' /\ Honour(k, end) \in honoured'
         /\ \A x \in honoured : x.token \notin {c.token} => x \in honoured'
    BY <2>1, <2>4, <2>8, <2>13 DEF Alive, Honoured
  <2>20. k = RefreshToken(b, t, s, minted + 1) /\ s <= minted + 1
    BY <1>0, <2>2, <2>4, <2>14
  <2>21. PICK R \in SUBSET Tokens : R = {c.token}
    BY <2>10
  <2>22. /\ \A x \in R : x.user = b /\ x.tenant = t /\ x.session = s /\ Honoured(x)'
         /\ \A x \in R : \E d \in jar[b] : ~IsId(d) /\ d.token = x
         /\ \A x \in honoured : x.token \notin R => x \in honoured'
         /\ a = Answer(b, t, {IdCookie(b, t), RefreshCookie(k)}, R)
    BY <2>3, <2>4, <2>9, <2>10, <2>19, <2>21
  <2>23. deployment # "single" /\ (s # minted + 1 => Alive(s))
    BY <2>8, <2>19
  <2> QED
    BY <2>8, <2>14, <2>17, <2>18, <2>19, <2>20, <2>22, <2>23, MintingKeeps
<1>3. ASSUME NEW t \in SessionTenants, SignOutUsers(t) PROVE SInv'
  <2>1. PICK users \in SUBSET Browsers : honoured' = {r \in honoured : r.token.user \notin users}
    BY <1>3 DEF SignOutUsers
  <2>2. UNCHANGED <<deployment, sNow, jar, answers, delivered, missed, stranded, minted>>
    BY <1>3 DEF SignOutUsers, history
  <2>3. \A r, q \in honoured : r.token.session = q.token.session /\ r \in honoured' => q \in honoured'
    BY <2>1 DEF SInv, OneSession
  <2>4. answers' = answers \cup {} /\ {} \in SUBSET Answers
    BY <2>2
  <2> QED  BY <2>1, <2>2, <2>3, <2>4, RevocationKeeps
<1>4. ASSUME NEW t \in SessionTenants, DeleteClient(t) PROVE SInv'
  <2>1. /\ honoured' = {r \in honoured : r.token.tenant # t}
        /\ UNCHANGED <<deployment, sNow, jar, answers, delivered, missed, stranded, minted>>
    BY <1>4 DEF DeleteClient, history
  <2>2. \A r, q \in honoured : r.token.session = q.token.session /\ r \in honoured' => q \in honoured'
    BY <2>1 DEF SInv, OneSession
  <2>3. answers' = answers \cup {} /\ {} \in SUBSET Answers
    BY <2>1
  <2> QED  BY <2>1, <2>2, <2>3, RevocationKeeps
<1>5. ASSUME NEW b \in Browsers, NEW t \in SessionTenants, SignOutSite(b, t) \/ SignOutShared(b, t)
      PROVE  SInv'
  <2>1. PICK a : a = Answer(b, t, {}, {})
    OBVIOUS
  <2>2. a \in Answers /\ a.cookies = {} /\ a.replaces = {}
    BY <2>1 DEF Answer, Answers
  <2>3. /\ answers' = answers \cup {a}
        /\ UNCHANGED <<deployment, sNow, jar, delivered, missed, stranded, minted>>
        /\ \/ \E c \in Sent(b, t, "id-token") : honoured' = {r \in honoured : r.token.user # c.user}
           \/ UNCHANGED honoured
    BY <1>5, <2>1 DEF SignOutSite, SignOutShared, history
  <2>4. /\ honoured' \subseteq honoured
        /\ \A r, q \in honoured : r.token.session = q.token.session /\ r \in honoured' => q \in honoured'
    BY <2>3 DEF SInv, OneSession
  <2>5. {a} \in SUBSET Answers /\ \A x \in {a} : x.cookies = {} /\ x.replaces = {}
    BY <2>2
  <2> QED  BY <2>3, <2>4, <2>5, RevocationKeeps
<1>6. ASSUME NEW a \in answers, Lose(a) PROVE SInv'
  <2>1. /\ answers' = answers \ {a} /\ missed' = missed \cup a.replaces
        /\ UNCHANGED <<deployment, sNow, jar, honoured, delivered, stranded, minted>>
    BY <1>6 DEF Lose
  <2>2. STypeOK'
    BY <2>1 DEF SInv, STypeOK, Answers
  <2>3. AnswersOwn' /\ JarOwn' /\ TokensKnown' /\ CookieOutlasts' /\ OneSession'
    BY <2>1 DEF SInv, AnswersOwn, CookiesOK, IdCookieAge, JarOwn, OwnCookie, TokensKnown, Known,
                CookieOutlasts, OneSession
  <2>4. Underway' /\ InGrace' /\ GraceKnown' /\ JarLasts'
    BY <2>1 DEF SInv, Underway, Undelivered, InGrace, GraceKnown, JarLasts, Alive, Whole, Honoured
  <2> QED  BY <2>2, <2>3, <2>4 DEF SInv
<1>7. CASE STick
  <2>1. /\ sNow < SMaxTime /\ answers = {} /\ answers' = {} /\ sNow' = sNow + 1
        /\ jar' = [b \in Browsers |-> {c \in jar[b] : sNow + 1 < c.age}]
        /\ honoured' = {r \in honoured : sNow + 1 < r.until}
        /\ UNCHANGED <<deployment, delivered, missed, stranded, minted>>
    BY <1>7 DEF STick, history
  <2>2. STypeOK'
    BY <2>1 DEF SInv, STypeOK
  <2>3. AnswersOwn' /\ Underway' /\ InGrace' /\ GraceKnown'
    BY <2>1 DEF AnswersOwn, Underway, InGrace, GraceKnown
  <2>4. \A b \in Browsers : jar'[b] \subseteq jar[b]
    BY <2>1
  <2>5. JarOwn'
    BY <2>1, <2>4 DEF SInv, JarOwn, OwnCookie
  <2>6. TokensKnown'
    <3>1. \A r \in honoured' : /\ Known(r.token)' /\ r.until <= r.ends
                               /\ sNow' <= r.until /\ r.ends <= sNow' + RefreshValidity
      BY <1>0, <2>1 DEF SInv, TokensKnown, Known
    <3> QED  BY <2>1, <2>4, <3>1 DEF SInv, TokensKnown, Known
  <2>7. OneSession'
    BY <2>1 DEF SInv, OneSession
  <2>8. CookieOutlasts'
    <3> SUFFICES ASSUME deployment = "single", NEW r \in honoured, sNow + 1 < r.until,
                        r.token \in delivered, r.token.user \notin stranded
                 PROVE  \E c \in jar'[r.token.user] :
                          IsId(c) /\ r.until <= c.age /\ r.until <= c.exp + RefreshValidity
      BY <2>1 DEF CookieOutlasts
    <3>1. r.token.user \in Browsers
      BY <1>0 DEF Tokens
    <3>2. PICK c \in jar[r.token.user] :
             IsId(c) /\ r.until <= c.age /\ r.until <= c.exp + RefreshValidity
      BY DEF SInv, CookieOutlasts
    <3>3. c.age \in Nat
      BY <3>1 DEF SInv, STypeOK, SessionCookies
    <3> QED  BY <1>0, <2>1, <3>1, <3>2, <3>3
  <2>9. ASSUME NEW k, Alive(k.session) => Whole(k) PROVE (Alive(k.session) => Whole(k))'
    <3> SUFFICES ASSUME Alive(k.session)' PROVE Whole(k)'
      OBVIOUS
    <3>1. PICK r \in honoured' : r.token.session = k.session
      BY DEF Alive
    <3>2. r \in honoured /\ sNow + 1 < r.until
      BY <2>1
    <3>3. PICK q \in honoured : q.token = k /\ q.until = q.ends
      BY <2>9, <3>1, <3>2 DEF Alive, Whole
    <3>4. r.until <= r.ends /\ r.ends = q.ends
      BY <3>1, <3>2, <3>3 DEF SInv, TokensKnown, OneSession
    <3>5. sNow + 1 < q.until
      BY <1>0, <3>2, <3>3, <3>4
    <3> QED  BY <2>1, <3>3, <3>5 DEF Whole
  <2>10. JarLasts'
    <3> SUFFICES ASSUME NEW b \in Browsers, NEW c \in jar'[b], ~IsId(c)
                 PROVE  (Alive(c.token.session) => Whole(c.token))' \/ c.token \in missed
      BY <2>1 DEF JarLasts
    <3>1. (Alive(c.token.session) => Whole(c.token)) \/ c.token \in missed
      BY <2>1, <2>4 DEF SInv, JarLasts
    <3> QED  BY <2>9, <3>1
  <2> QED  BY <2>2, <2>3, <2>5, <2>6, <2>7, <2>8, <2>10 DEF SInv
<1>8. CASE UNCHANGED sVars
  <2>1. UNCHANGED <<deployment, sNow, jar, honoured, answers, delivered, missed, stranded, minted>>
    BY <1>8 DEF sVars, history
  <2>2. answers' = answers \cup {} /\ {} \in SUBSET Answers /\ honoured' \subseteq honoured
    BY <2>1
  <2> QED  BY <2>1, <2>2, RevocationKeeps
<1>9. ASSUME NEW a \in answers, Deliver(a) PROVE SInv'
  <2> DEFINE b == a.to
             kept == {c \in jar[b] : c.hosts # CookieDomain(a.host) \/ c.name \notin Names(a)}
             new == {[c EXCEPT !.age = sNow + @] : c \in a.cookies}
             arrived == {c.token : c \in {c \in a.cookies : c.name = "refresh-token"}}
  <2>1. /\ a \in Answers /\ a.to \in Browsers /\ a.host \in SessionTenants
        /\ a.cookies \subseteq SessionCookies /\ CookiesOK(a)
    BY DEF SInv, STypeOK, Answers, AnswersOwn
  <2>2. /\ jar' = [jar EXCEPT ![b] = kept \cup new] /\ delivered' = delivered \cup arrived
        /\ answers' = answers \ {a} /\ UNCHANGED <<deployment, sNow, honoured, missed, minted>>
        /\ stranded' = IF a.cookies = {} /\ \E r \in honoured : r.token.user = b /\ r.token \in delivered
                       THEN stranded \cup {b} ELSE stranded
    BY <1>9 DEF Deliver
  <2>3. ASSUME NEW d \in new
        PROVE  \E c \in a.cookies :
                 /\ d \in SessionCookies /\ d.name = c.name /\ d.hosts = c.hosts /\ d.tenant = c.tenant
                 /\ d.user = c.user /\ d.exp = c.exp /\ d.token = c.token /\ d.age = sNow + c.age
    <3>1. PICK c \in a.cookies : d = [c EXCEPT !.age = sNow + @]
      BY <2>3
    <3>2. c \in SessionCookies
      BY <2>1
    <3> QED  BY <1>0, <3>1, <3>2 DEF SessionCookies
  <2>4. ASSUME NEW c \in a.cookies
        PROVE  \E d \in new : d.name = c.name /\ d.exp = c.exp /\ d.age = sNow + c.age
    <3>1. c \in SessionCookies
      BY <2>1
    <3> DEFINE d == [c EXCEPT !.age = sNow + @]
    <3>2. d \in new
      OBVIOUS
    <3>3. d.name = c.name /\ d.exp = c.exp /\ d.age = sNow + c.age
      BY <3>1 DEF SessionCookies
    <3> HIDE DEF new, d
    <3> QED  BY <3>2, <3>3
  <2>5. \A d, e \in new : d.name = e.name => d = e
    BY <2>1 DEF CookiesOK, SessionCookies
  <2>6. /\ \A d \in new : d \in SessionCookies /\ OwnCookie(d, b, a.host)
        /\ \A d \in new : IsId(d) => d.exp = sNow + IdTtl /\ d.age = sNow + IdCookieAge
        /\ \A d \in new : ~IsId(d) => \E c \in a.cookies : ~IsId(c) /\ c.token = d.token
    BY <2>1, <2>3 DEF CookiesOK, OwnCookie, IsId
  <2>7. ASSUME a.cookies # {} PROVE \E d \in new : IsId(d)
    <3>1. PICK c \in a.cookies : IsId(c)
      BY <2>1, <2>7 DEF CookiesOK
    <3> QED  BY <2>4, <3>1 DEF IsId
  <2>8. Names(a) = {"id-token", "refresh-token"}
    <3>1. CASE a.cookies = {}
      BY <3>1 DEF Names
    <3>2. CASE a.cookies # {}
      BY <2>1, <3>2 DEF Names, CookiesOK, SessionCookies, IsId
    <3> QED  BY <3>1, <3>2
  <2>9. \A d \in kept : d \in jar[b] /\ d.hosts # {a.host}
    <3>1. \A d \in jar[b] : d.name \in {"id-token", "refresh-token"}
      BY <2>1 DEF SInv, STypeOK, SessionCookies
    <3> QED  BY <2>8, <3>1 DEF CookieDomain
  <2>10. arrived \subseteq Tokens /\ \A k \in arrived : Known(k)
    BY <2>1 DEF SInv, TokensKnown, SessionCookies, IsId
  <2>11. \A k \in arrived : \E c \in a.cookies : ~IsId(c) /\ c.token = k
    BY DEF IsId
  <2> HIDE DEF b, kept, new, arrived
  <2>12. b = a.to /\ b \in Browsers
    BY <2>1 DEF b
  <2>13. jar'[b] = kept \cup new /\ \A x \in Browsers : x # b => jar'[x] = jar[x]
    BY <2>2, <2>12 DEF SInv, STypeOK
  <2>14. jar' \in [Browsers -> SUBSET SessionCookies]
    BY <2>2, <2>6, <2>9, <2>12 DEF SInv, STypeOK
  <2>15. STypeOK'
    BY <2>2, <2>10, <2>12, <2>14 DEF SInv, STypeOK
  <2>16. AnswersOwn' /\ OneSession'
    BY <2>2 DEF SInv, AnswersOwn, CookiesOK, OwnCookie, IdCookieAge, OneSession
  <2>17. /\ \A d \in new : d.tenant = a.host
         /\ \A d \in kept : OwnCookie(d, b, d.tenant) /\ d.tenant # a.host
    BY <2>6, <2>9, <2>12 DEF SInv, JarOwn, OwnCookie
  <2>18. \A c, d \in kept : c.name = d.name /\ c.tenant = d.tenant => c = d
    BY <2>9, <2>12 DEF SInv, JarOwn
  <2>19. JarOwn'
    <3>1. \A c \in jar'[b] : OwnCookie(c, b, c.tenant)'
      BY <2>2, <2>6, <2>13, <2>17 DEF OwnCookie
    <3>2. \A c, d \in jar'[b] : c.name = d.name /\ c.tenant = d.tenant => c = d
      BY <2>5, <2>13, <2>17, <2>18
    <3>3. \A x \in Browsers : x # b =>
             /\ \A c \in jar'[x] : OwnCookie(c, x, c.tenant)'
             /\ \A c, d \in jar'[x] : c.name = d.name /\ c.tenant = d.tenant => c = d
      BY <2>2, <2>13 DEF SInv, JarOwn, OwnCookie
    <3> QED  BY <3>1, <3>2, <3>3 DEF JarOwn
  <2>20. ASSUME NEW x \in Browsers, NEW c \in jar'[x], ~IsId(c)
         PROVE  \/ c \in jar[x] /\ (x = b => c.tenant # a.host)
                \/ x = b /\ c \in new
    BY <2>9, <2>13, <2>17
  <2>21. TokensKnown'
    <3>1. \A x \in Browsers : \A c \in jar'[x] : ~IsId(c) => Known(c.token)
      BY <2>6, <2>20 DEF SInv, TokensKnown
    <3> QED  BY <2>2, <2>10, <3>1 DEF SInv, TokensKnown, Known
  <2>22. CookieOutlasts'
    <3> SUFFICES ASSUME deployment = "single", NEW r \in honoured, r.token \in delivered \cup arrived,
                        r.token.user \notin stranded'
                 PROVE  \E c \in jar'[r.token.user] :
                          IsId(c) /\ r.until <= c.age /\ r.until <= c.exp + RefreshValidity
      BY <2>2 DEF SInv, CookieOutlasts
    <3>1. r.token.user \notin stranded /\ r.until <= sNow + RefreshValidity /\ r.until \in Nat
          /\ r.token.user \in Browsers
      BY <1>0, <2>2 DEF SInv, TokensKnown, Tokens
    <3>2. r.token \in arrived => r.token.user = b
      BY <2>1, <2>11, <2>12 DEF CookiesOK, OwnCookie
    <3>3. CASE r.token.user # b
      BY <2>13, <3>1, <3>2, <3>3 DEF SInv, CookieOutlasts
    <3>4. CASE r.token.user = b
      <4>1. a.cookies # {}
        BY <2>2, <2>11, <3>4
      <4>2. PICK d \in new : IsId(d)
        BY <2>7, <4>1
      <4>3. d.exp = sNow + IdTtl /\ d.age = sNow + RefreshValidity
        BY <2>6, <4>2 DEF IdCookieAge
      <4> QED  BY <1>0, <2>13, <3>1, <3>4, <4>2, <4>3
    <3> QED  BY <3>3, <3>4
  <2>23. InGrace' /\ GraceKnown'
    BY <2>2 DEF SInv, InGrace, GraceKnown, Alive, Honoured
  <2>24. \A k : (Alive(k.session) => Whole(k)) => (Alive(k.session) => Whole(k))'
    BY <2>2 DEF Alive, Whole
  <2>25. ASSUME NEW e \in answers, e # a, NEW c \in e.cookies, ~IsId(c) PROVE Undelivered(e, c)'
    <3> SUFFICES /\ (Alive(c.token.session) => Whole(c.token))'
                 /\ \A x \in Browsers : \A d \in jar'[x] : ~IsId(d) => d.token # c.token
                 /\ \A f \in answers' : \A d \in f.cookies :
                      ~IsId(d) /\ d.token = c.token => f = e
      BY DEF Undelivered, IsId
    <3>1. (Alive(c.token.session) => Whole(c.token))'
      BY <2>24, <2>25 DEF SInv, Underway, Undelivered
    <3>2. \A d \in new : ~IsId(d) => d.token # c.token
      BY <2>6, <2>25 DEF SInv, Underway, Undelivered
    <3>3. \A x \in Browsers : \A d \in jar'[x] : ~IsId(d) => d.token # c.token
      BY <2>20, <2>25, <3>2 DEF SInv, Underway, Undelivered
    <3>4. \A f \in answers' : \A d \in f.cookies : ~IsId(d) /\ d.token = c.token => f = e
      BY <2>2, <2>25 DEF SInv, Underway, Undelivered
    <3> QED  BY <3>1, <3>3, <3>4
  <2>27. Underway'
    BY <2>2, <2>25 DEF Underway, IsId
  <2>26. JarLasts'
    <3> SUFFICES ASSUME NEW x \in Browsers, NEW c \in jar'[x], ~IsId(c)
                 PROVE  \/ (Alive(c.token.session) => Whole(c.token))'
                        \/ c.token \in missed
                        \/ \E f \in answers' : c.token \in f.replaces
      BY <2>2 DEF JarLasts
    <3>1. CASE x = b /\ c \in new
      <4>1. PICK d \in a.cookies : ~IsId(d) /\ d.token = c.token
        BY <2>6, <3>1
      <4>2. Alive(c.token.session) => Whole(c.token)
        BY <4>1 DEF SInv, Underway, Undelivered
      <4> QED  BY <2>24, <4>2
    <3>2. CASE c \in jar[x] /\ (x = b => c.tenant # a.host)
      <4>1. c.token \notin a.replaces
        BY <2>1, <2>12, <3>2 DEF CookiesOK, SInv, JarOwn, OwnCookie
      <4> QED  BY <2>2, <2>24, <3>2, <4>1 DEF SInv, JarLasts
    <3> QED  BY <2>20, <3>1, <3>2
  <2> QED
    BY <2>15, <2>16, <2>19, <2>21, <2>22, <2>23, <2>26, <2>27 DEF SInv
<1> QED
  BY <1>1, <1>2, <1>3, <1>4, <1>5, <1>6, <1>7, <1>8, <1>9 DEF SNext

\* Cookies, answers and refresh tokens stay well typed.
THEOREM SessionsTypeCorrect == SSpec => []STypeOK
  BY SInvInit, SInvStep, PTL DEF SSpec, SInv

\* Rotation does not cut a session off, for any number of browsers, tenants and
\* refreshes that overlap, any grace, and answers in any order.
THEOREM SessionsKept == SSpec => []RotationKeepsSession
<1>1. SInv => RotationKeepsSession
  <2> SUFFICES ASSUME SInv, NEW b \in Browsers, NEW t \in SessionTenants,
                      NEW c \in Sent(b, t, "refresh-token"), NEW r \in honoured,
                      r.token.session = c.token.session
               PROVE  c.token \in missed \/ \E q \in honoured : q.token = c.token
    BY DEF RotationKeepsSession
  <2>1. c \in jar[b] /\ ~IsId(c) /\ Alive(c.token.session)
    BY DEF Sent, IsId, Alive
  <2>2. \/ Whole(c.token) \/ c.token \in missed
        \/ \E a \in answers : c.token \in a.replaces
    BY <2>1 DEF SInv, JarLasts
  <2> QED  BY <2>1, <2>2 DEF SInv, InGrace, Whole, Honoured
<1> QED  BY <1>1, SInvInit, SInvStep, PTL DEF SSpec

\* One jar, many tenants: what a host is sent is its own; and on the single site a
\* live session can be ended as long as Cognito honours its refresh token.
THEOREM SessionsOwn == SSpec => []SessionsAreOwn
<1>1. SInv => RevocableWhileAlive
  <2> SUFFICES ASSUME SInv, deployment = "single", NEW r \in honoured, r.token \in delivered,
                      r.token.user \notin stranded
               PROVE  \E t \in SessionTenants : \E c \in Sent(r.token.user, t, "id-token") :
                          c.user = r.token.user /\ Verified(c)
    BY DEF RevocableWhileAlive
  <2>1. PICK c \in jar[r.token.user] :
           IsId(c) /\ r.until <= c.age /\ r.until <= c.exp + RefreshValidity
    BY DEF SInv, CookieOutlasts
  <2>2. r.token.user \in Browsers /\ r.until \in Nat /\ sNow \in Nat /\ sNow <= r.until
    BY DEF SInv, STypeOK, Honours, Tokens, TokensKnown
  <2>3. c.tenant \in SessionTenants /\ c.exp \in Nat
    BY <2>2 DEF SInv, STypeOK, SessionCookies
  <2>4. c.hosts = {c.tenant} /\ c.user = r.token.user
    BY <2>2 DEF SInv, JarOwn, OwnCookie
  <2>5. Verified(c)
    BY <2>1, <2>2, <2>3, SessionConstants DEF Verified, RefreshGrace
  <2> QED  BY <2>1, <2>3, <2>4, <2>5 DEF Sent, IsId
<1>2. SInv => JarKeepsTenantsApart
  <2> SUFFICES ASSUME SInv, NEW b \in Browsers, NEW t \in SessionTenants
               PROVE  /\ \A c \in jar[b] : t \in c.hosts => c.tenant = t
                      /\ Cardinality(Sent(b, t, "id-token")) <= 1
    BY DEF JarKeepsTenantsApart
  <2>1. \A c \in jar[b] : t \in c.hosts => c.tenant = t
    BY DEF SInv, JarOwn, OwnCookie
  <2>2. \A c, d \in Sent(b, t, "id-token") : c = d
    BY <2>1 DEF SInv, JarOwn, Sent
  <2>3. CASE Sent(b, t, "id-token") = {}
    BY <2>1, <2>3, FS_EmptySet
  <2>4. CASE Sent(b, t, "id-token") # {}
    <3>1. PICK c : Sent(b, t, "id-token") = {c}
      BY <2>2, <2>4
    <3>2. Cardinality({c}) = 1
      BY FS_Singleton
    <3> QED  BY <2>1, <3>1, <3>2
  <2> QED  BY <2>3, <2>4
<1> QED  BY <1>1, <1>2, SInvInit, SInvStep, PTL DEF SSpec, SessionsAreOwn

------------------------------------------------------------------------------

(* The triggers of the shared distribution.  TrigInv follows each attempt     *)
(* through its awaits: what it has been told is remembered with the time it   *)
(* was begun, since the row and the denylist may change under it.             *)

Stages == {"unstarted", "load", "denylist", "limit", "token", "send", "open", "in",
           "refused", "unanswerable"}

Rows == {NoRow} \union TenantRows

AttemptRecords ==
    [stage : Stages, client : Clients, inbox : Inboxes, begun : Nat, at : Nat,
     link : SUBSET Subdomains, arrived : SUBSET Subdomains]

TrigTypeOK ==
    /\ trigNow \in Nat /\ trigNow <= TriggerMaxTime
    /\ config \in [Clients -> Rows]
    /\ replaced \in [Clients -> SUBSET [row : Rows, until : Nat]]
    /\ denied \in [Inboxes -> Nat]
    /\ sends \in [Inboxes -> [Windows -> Nat]]
    /\ posted \in [Attempts -> SUBSET Subdomains]
    /\ attempt \in [Attempts -> AttemptRecords]

\* The attempt r, whose mails are p, has a slot of its window.
Counted(r, p) == r.stage \in {"token", "send", "open", "in"} \/ p # {}

\* A row of the site let the attempt in, and it was there less than ConfigAge
\* before the attempt was begun, or later.
LetIn(r) ==
    \/ config[r.client].there
    \/ \E x \in replaced[r.client] : x.row.there /\ r.begun < x.until + ConfigAge

\* What is true of one attempt, r, and of the mails p sent for it.
AttemptOK(r, p) ==
    /\ r.begun <= trigNow
    /\ r.stage \notin {"open", "in", "refused"} => p = {}
    /\ p \subseteq r.link /\ r.link \subseteq Named(r.client) /\ r.arrived \subseteq p
    /\ r.stage \in {"unstarted", "load"} => r.link = {}
    /\ r.link # {} => LetIn(r)
    /\ Counted(r, p) \/ r.stage = "limit" => r.begun <= denied[r.inbox]

Counts(i, w) ==
    {a \in Attempts :
        attempt[a].inbox = i /\ WindowOf(a) = w /\ Counted(attempt[a], posted[a])}

\* A client's rows name one host.
OneHost == \A c \in Clients : \A g, h \in Named(c) : g = h

SendsRight ==
    \A i \in Inboxes, w \in Windows :
        /\ sends[i][w] <= SendsPerSite
        /\ IsFiniteSet(Counts(i, w)) /\ Cardinality(Counts(i, w)) <= sends[i][w]

TrigInv ==
    /\ TrigTypeOK
    /\ \A a \in Attempts : AttemptOK(attempt[a], posted[a])
    /\ OneHost
    /\ SendsRight

\* What a row names: one host, if it is there.
LEMMA RowFacts ==
    ASSUME NEW row \in Rows
    PROVE  /\ row.sub \in SUBSET Subdomains /\ (row.there <=> row.sub # {})
           /\ \A g, h \in row.sub : g = h
<1>1. CASE row = NoRow
  BY <1>1 DEF NoRow
<1>2. CASE row \in TenantRows
  <2>1. row.there = TRUE /\ row.sub \in {{h} : h \in Subdomains}
    BY <1>2 DEF TenantRows
  <2>2. PICK h \in Subdomains : row.sub = {h}
    BY <2>1
  <2> QED  BY <2>1, <2>2
<1> QED  BY <1>1, <1>2 DEF Rows

\* Hosts are named by rows, and only there.
LEMMA NamedSame ==
    ASSUME OneHost, UNCHANGED <<config, replaced>>
    PROVE  OneHost' /\ \A c \in Clients : Named(c)' = Named(c) /\ Named(c) \subseteq Named(c)'
  BY DEF OneHost, Named

LEMMA TrigInvInit == TrigInit => TrigInv
<1> SUFFICES ASSUME TrigInit PROVE TrigInv
  OBVIOUS
<1> USE TriggerAssumption
<1>1. Unstarted \in AttemptRecords /\ Unstarted.stage = "unstarted" /\ Unstarted.begun = 0
      /\ Unstarted.link = {} /\ Unstarted.arrived = {}
  BY DEF Unstarted, AttemptRecords, Stages
<1>2. TrigTypeOK
  <2>1. /\ trigNow \in Nat /\ trigNow <= TriggerMaxTime
        /\ denied \in [Inboxes -> Nat] /\ sends \in [Inboxes -> [Windows -> Nat]]
    BY DEF TrigInit, never
  <2>2. /\ config \in [Clients -> Rows] /\ posted \in [Attempts -> SUBSET Subdomains]
        /\ replaced \in [Clients -> SUBSET [row : Rows, until : Nat]]
    BY DEF TrigInit, Rows
  <2>3. attempt \in [Attempts -> AttemptRecords]
    BY <1>1 DEF TrigInit
  <2> QED  BY <2>1, <2>2, <2>3 DEF TrigTypeOK
<1>4. \A a \in Attempts : AttemptOK(attempt[a], posted[a])
  BY <1>1 DEF TrigInit, AttemptOK, Counted
<1>5. \A i \in Inboxes, w \in Windows : Counts(i, w) = {}
  BY <1>1 DEF TrigInit, Counts, Counted
<1>6. SendsRight
  <2>1. IsFiniteSet({}) /\ Cardinality({}) = 0
    BY FS_EmptySet
  <2>2. \A i \in Inboxes, w \in Windows : sends[i][w] = 0
    BY DEF TrigInit
  <2> QED  BY <1>5, <2>1, <2>2 DEF SendsRight
<1>7. OneHost
  <2>1. \A c \in Clients : config[c] \in Rows /\ replaced[c] = {}
    BY DEF TrigInit, Rows
  <2> QED  BY <2>1, RowFacts DEF OneHost, Named
<1> QED  BY <1>2, <1>4, <1>6, <1>7 DEF TrigInv

\* The slots in use grow by the attempt a at most.
LEMMA CountsGrow ==
    ASSUME NEW X, NEW Y, NEW a, IsFiniteSet(X), Y \subseteq X \union {a}, NEW n \in Nat,
           Cardinality(X) <= n
    PROVE  IsFiniteSet(Y) /\ Cardinality(Y) <= n + 1
<1>1. IsFiniteSet(X \union {a}) /\ Cardinality(X \union {a}) <= Cardinality(X) + 1
  <2>1. Cardinality(X) \in Nat
    BY FS_CardinalityType
  <2>2. /\ IsFiniteSet(X \union {a})
        /\ Cardinality(X \union {a}) = IF a \in X THEN Cardinality(X) ELSE Cardinality(X) + 1
    BY FS_AddElement
  <2> QED  BY <2>1, <2>2
<1>2. IsFiniteSet(Y) /\ Cardinality(Y) <= Cardinality(X \union {a})
  BY <1>1, FS_Subset
<1> QED  BY <1>1, <1>2, FS_CardinalityType

\* They do not grow when no attempt takes one.
LEMMA CountsShrink ==
    ASSUME SendsRight, TrigTypeOK, UNCHANGED sends,
           \A i \in Inboxes, w \in Windows : Counts(i, w)' \subseteq Counts(i, w)
    PROVE  SendsRight'
<1> SUFFICES ASSUME NEW i \in Inboxes, NEW w \in Windows
             PROVE  /\ sends[i][w] <= SendsPerSite
                    /\ IsFiniteSet(Counts(i, w)') /\ Cardinality(Counts(i, w)') <= sends[i][w]
  BY DEF SendsRight
<1>1. IsFiniteSet(Counts(i, w)') /\ Cardinality(Counts(i, w)') <= Cardinality(Counts(i, w))
  BY FS_Subset DEF SendsRight
<1>2. /\ sends[i][w] \in Nat /\ Cardinality(Counts(i, w)) \in Nat
      /\ Cardinality(Counts(i, w)') \in Nat
  BY <1>1, FS_CardinalityType DEF TrigTypeOK, SendsRight
<1> QED  BY <1>1, <1>2 DEF SendsRight

\* A step that moves one attempt and mails for no other: what is to be shown of
\* that attempt.
LEMMA AttemptMoves ==
    ASSUME TrigInv, NEW a \in Attempts, NEW r \in AttemptRecords, NEW p \in SUBSET Subdomains,
           attempt' = [attempt EXCEPT ![a] = r], posted' = [posted EXCEPT ![a] = p],
           UNCHANGED <<trigNow, config, replaced, denied, sends>>,
           AttemptOK(r, p),
           Counted(r, p) => /\ Counted(attempt[a], posted[a])
                            /\ r.inbox = attempt[a].inbox /\ r.at = attempt[a].at
    PROVE  TrigInv'
<1>1. TrigTypeOK'
  BY DEF TrigInv, TrigTypeOK
<1>2. attempt'[a] = r /\ posted'[a] = p
      /\ \A e \in Attempts \ {a} : attempt'[e] = attempt[e] /\ posted'[e] = posted[e]
  BY DEF TrigInv, TrigTypeOK
<1>3. \A e \in Attempts : AttemptOK(attempt'[e], posted'[e])
  BY <1>2 DEF TrigInv
<1>4. \A e \in Attempts : AttemptOK(attempt[e], posted[e])'
  BY <1>3 DEF AttemptOK, LetIn, Counted, Named
<1>5. \A i \in Inboxes, w \in Windows : Counts(i, w)' \subseteq Counts(i, w)
  BY <1>2 DEF Counts, WindowOf, Counted
<1>6. SendsRight'
  BY <1>5, CountsShrink DEF TrigInv
<1>7. OneHost'
  BY DEF TrigInv, OneHost, Named
<1> QED  BY <1>1, <1>4, <1>6, <1>7 DEF TrigInv

\* An attempt's new stage, when the rest of it stays.
LEMMA GotoMoves ==
    ASSUME TrigInv, NEW a \in Attempts, NEW s \in Stages, Goto(a, s)
    PROVE  \E r \in AttemptRecords :
              /\ attempt' = [attempt EXCEPT ![a] = r]
              /\ r.stage = s /\ r.client = attempt[a].client /\ r.inbox = attempt[a].inbox
              /\ r.begun = attempt[a].begun /\ r.at = attempt[a].at
              /\ r.link = attempt[a].link /\ r.arrived = attempt[a].arrived
<1>1. attempt[a] \in AttemptRecords
  BY DEF TrigInv, TrigTypeOK
<1> DEFINE r == [attempt[a] EXCEPT !.stage = s]
<1>2. /\ r \in AttemptRecords
      /\ r.stage = s /\ r.client = attempt[a].client /\ r.inbox = attempt[a].inbox
      /\ r.begun = attempt[a].begun /\ r.at = attempt[a].at
      /\ r.link = attempt[a].link /\ r.arrived = attempt[a].arrived
  BY <1>1 DEF AttemptRecords
<1>3. attempt' = [attempt EXCEPT ![a] = r]
  BY DEF Goto
<1> HIDE DEF r
<1> QED  BY <1>2, <1>3

\* A trigger that throws or closes the challenge takes nothing.
LEMMA RefusalKeeps ==
    ASSUME TrigInv, NEW a \in Attempts, NEW s \in {"refused", "unanswerable"}, Goto(a, s),
           attempt[a].stage \notin {"open", "in", "refused"},
           UNCHANGED <<trigNow, config, replaced, denied, sends, posted>>
    PROVE  TrigInv'
<1>1. PICK r \in AttemptRecords :
              /\ attempt' = [attempt EXCEPT ![a] = r]
              /\ r.stage = s /\ r.client = attempt[a].client /\ r.inbox = attempt[a].inbox
              /\ r.begun = attempt[a].begun /\ r.at = attempt[a].at
              /\ r.link = attempt[a].link /\ r.arrived = attempt[a].arrived
  BY GotoMoves DEF Stages
<1>2. posted' = [posted EXCEPT ![a] = {}] /\ posted[a] = {}
  BY DEF TrigInv, TrigTypeOK, AttemptOK
<1>3. AttemptOK(r, {}) /\ ~Counted(r, {})
  BY <1>1, <1>2 DEF TrigInv, AttemptOK, LetIn, Counted
<1> QED  BY <1>1, <1>2, <1>3, AttemptMoves

\* A step that moves no attempt, and loses neither a row nor a denial that one
\* relies on.
LEMMA AsideKeepsAttempts ==
    ASSUME TrigInv, TrigTypeOK', UNCHANGED <<attempt, posted, sends>>, trigNow <= trigNow',
           OneHost', \A c \in Clients : Named(c) \subseteq Named(c)',
           \A r \in AttemptRecords : r.begun <= trigNow /\ LetIn(r) => LetIn(r)',
           \A i \in Inboxes, t \in Nat : t <= trigNow /\ t <= denied[i] => t <= denied'[i]
    PROVE  TrigInv'
<1>1. ASSUME NEW a \in Attempts PROVE AttemptOK(attempt[a], posted[a])'
  <2>1. PICK r \in AttemptRecords : r = attempt[a]
    BY DEF TrigInv, TrigTypeOK
  <2>2. PICK p \in SUBSET Subdomains : p = posted[a]
    BY DEF TrigInv, TrigTypeOK
  <2>3. r.begun \in Nat /\ r.inbox \in Inboxes /\ r.client \in Clients
    BY DEF AttemptRecords
  <2>4. AttemptOK(r, p)
    BY <2>1, <2>2 DEF TrigInv
  <2>5. r.begun <= trigNow /\ r.begun <= trigNow'
    BY <2>3, <2>4 DEF AttemptOK, TrigInv, TrigTypeOK
  <2>6. r.link # {} => LetIn(r)'
    BY <2>4, <2>5 DEF AttemptOK
  <2>7. Counted(r, p) \/ r.stage = "limit" => r.begun <= denied'[r.inbox]
    BY <2>3, <2>4, <2>5 DEF AttemptOK
  <2>8. AttemptOK(r, p)'
    <3>1. r.link \subseteq Named(r.client)'
      BY <2>3, <2>4 DEF AttemptOK
    <3> QED  BY <2>4, <2>5, <2>6, <2>7, <3>1 DEF AttemptOK, Counted
  <2>9. attempt'[a] = r /\ posted'[a] = p
    BY <2>1, <2>2
  <2> QED  BY <2>8, <2>9 DEF AttemptOK, LetIn, Counted, Named
<1>2. \A i \in Inboxes, w \in Windows : Counts(i, w)' \subseteq Counts(i, w)
  BY DEF Counts, WindowOf, Counted
<1>3. SendsRight'
  BY <1>2, CountsShrink DEF TrigInv
<1> QED  BY <1>1, <1>3 DEF TrigInv

LEMMA TrigInvStep == TrigInv /\ [TrigNext]_trigVars => TrigInv'
<1> SUFFICES ASSUME TrigInv, [TrigNext]_trigVars PROVE TrigInv'
  OBVIOUS
<1> USE TriggerAssumption
<1>0. ASSUME NEW a \in Attempts
      PROVE  /\ attempt[a] \in AttemptRecords /\ posted[a] \in SUBSET Subdomains
             /\ AttemptOK(attempt[a], posted[a])
             /\ posted = [posted EXCEPT ![a] = posted[a]]
  BY DEF TrigInv, TrigTypeOK
<1>1. ASSUME NEW c \in Clients, NEW i \in Inboxes, SharedPreSignUp(c, i) PROVE TrigInv'
  <2>1. TrigTypeOK' /\ UNCHANGED <<trigNow, config, replaced, denied, attempt, posted, sends>>
    BY <1>1 DEF SharedPreSignUp, TrigInv, TrigTypeOK
  <2> QED  BY <2>1, NamedSame, AsideKeepsAttempts DEF LetIn, TrigInv, TrigTypeOK
<1>2. ASSUME NEW a \in Attempts, NEW c \in Clients, NEW i \in Inboxes, Begin(a, c, i)
      PROVE  TrigInv'
  <2> DEFINE r == [Unstarted EXCEPT !.stage = "load", !.client = c, !.inbox = i,
                                    !.begun = trigNow]
  <2>1. /\ r \in AttemptRecords /\ r.stage = "load" /\ r.begun = trigNow
        /\ r.link = {} /\ r.arrived = {}
    BY DEF Unstarted, AttemptRecords, Stages, TrigInv, TrigTypeOK
  <2>2. /\ attempt' = [attempt EXCEPT ![a] = r] /\ attempt[a].stage = "unstarted"
        /\ UNCHANGED <<trigNow, config, replaced, denied, sends, posted>>
    BY <1>2 DEF Begin, At, store
  <2> HIDE DEF r
  <2>3. posted[a] = {}
    BY <1>0, <2>2 DEF AttemptOK
  <2>4. AttemptOK(r, {}) /\ ~Counted(r, {})
    BY <2>1 DEF AttemptOK, Counted, TrigInv, TrigTypeOK
  <2> QED  BY <1>0, <2>1, <2>2, <2>3, <2>4, AttemptMoves
<1>3. ASSUME NEW a \in Attempts, LoadConfig(a) PROVE TrigInv'
  <2>1. /\ attempt[a].stage = "load" /\ posted[a] = {} /\ attempt[a].client \in Clients
        /\ UNCHANGED <<trigNow, config, replaced, denied, sends, posted>>
    BY <1>0, <1>3 DEF LoadConfig, At, store, AttemptOK, AttemptRecords
  <2>2. CASE Throw(a)
    BY <2>1, <2>2, RefusalKeeps DEF Throw
  <2>3. \A row \in LoadedByClient(attempt[a].client) : row \in Rows
    <3>1. /\ config[attempt[a].client] \in Rows
          /\ \A x \in replaced[attempt[a].client] : x.row \in Rows
      BY <2>1 DEF TrigInv, TrigTypeOK
    <3> QED  BY <3>1 DEF LoadedByClient
  <2>4. ASSUME NEW row \in LoadedByClient(attempt[a].client), row.there,
               attempt' = [attempt EXCEPT ![a] =
                  [@ EXCEPT !.stage = "denylist", !.at = trigNow, !.link = row.sub]]
        PROVE  TrigInv'
    <3>0. row.sub \in SUBSET Subdomains
      BY <2>3, RowFacts
    <3> DEFINE r == [attempt[a] EXCEPT !.stage = "denylist", !.at = trigNow, !.link = row.sub]
    <3>1. /\ r \in AttemptRecords /\ r.stage = "denylist" /\ r.begun = attempt[a].begun
          /\ r.link = row.sub /\ r.arrived = attempt[a].arrived /\ r.client = attempt[a].client
      BY <1>0, <2>1, <3>0 DEF AttemptRecords, Stages, TrigInv, TrigTypeOK
    <3>2. attempt' = [attempt EXCEPT ![a] = r]
      BY <2>4
    <3> HIDE DEF r
    <3>3. LetIn(r)
      <4>1. CASE row = config[attempt[a].client]
        BY <2>4, <3>1, <4>1 DEF LetIn
      <4>2. ASSUME NEW x \in replaced[attempt[a].client], trigNow < x.until + ConfigAge, row = x.row
            PROVE  LetIn(r)
        <5>1. x.until \in Nat /\ r.begun \in Nat /\ r.begun <= trigNow
          BY <1>0, <2>1, <3>1 DEF TrigInv, TrigTypeOK, AttemptRecords, AttemptOK
        <5>2. r.begun < x.until + ConfigAge
          BY <4>2, <5>1 DEF TrigInv, TrigTypeOK
        <5> QED  BY <2>4, <3>1, <4>2, <5>2 DEF LetIn
      <4> QED  BY <4>1, <4>2 DEF LoadedByClient
    <3>4. r.link \subseteq Named(r.client)
      BY <3>0, <3>1 DEF LoadedByClient, Named
    <3>5. AttemptOK(r, {}) /\ ~Counted(r, {})
      BY <1>0, <2>1, <3>1, <3>3, <3>4 DEF AttemptOK, Counted
    <3> QED  BY <1>0, <2>1, <3>1, <3>2, <3>5, AttemptMoves
  <2> QED  BY <1>3, <2>2, <2>4 DEF LoadConfig, SiteBaseUrl
<1>4. ASSUME NEW a \in Attempts, CheckDenylist(a) PROVE TrigInv'
  <2>1. /\ attempt[a].stage = "denylist" /\ posted[a] = {} /\ attempt[a].inbox \in Inboxes
        /\ UNCHANGED <<trigNow, config, replaced, denied, sends, posted>>
    BY <1>0, <1>4 DEF CheckDenylist, At, store, AttemptOK, AttemptRecords
  <2>2. CASE Throw(a)
    BY <2>1, <2>2, RefusalKeeps DEF Throw
  <2>3. CASE FailClosedChallenge(a)
    BY <2>1, <2>3, RefusalKeeps DEF FailClosedChallenge
  <2>4. CASE denied[attempt[a].inbox] = never /\ Goto(a, "limit")
    <3>1. PICK r \in AttemptRecords :
              /\ attempt' = [attempt EXCEPT ![a] = r]
              /\ r.stage = "limit" /\ r.client = attempt[a].client /\ r.inbox = attempt[a].inbox
              /\ r.begun = attempt[a].begun /\ r.at = attempt[a].at
              /\ r.link = attempt[a].link /\ r.arrived = attempt[a].arrived
      BY <2>4, GotoMoves DEF Stages
    <3>2. r.begun <= denied[r.inbox]
      BY <1>0, <2>4, <3>1 DEF AttemptOK, AttemptRecords, never, TrigInv, TrigTypeOK
    <3>3. AttemptOK(r, {}) /\ ~Counted(r, {})
      BY <1>0, <2>1, <3>1, <3>2 DEF AttemptOK, LetIn, Counted
    <3> QED  BY <1>0, <2>1, <3>1, <3>3, AttemptMoves
  <2> QED  BY <1>4, <2>2, <2>3, <2>4 DEF CheckDenylist
<1>5. ASSUME NEW a \in Attempts, ConsumeSends(a) PROVE TrigInv'
  <2>1. /\ attempt[a].stage = "limit" /\ posted[a] = {} /\ attempt[a].inbox \in Inboxes
        /\ UNCHANGED <<trigNow, config, replaced, denied, posted>>
    BY <1>0, <1>5 DEF ConsumeSends, At, store, AttemptOK, AttemptRecords
  <2>2. CASE Throw(a) /\ UNCHANGED sends
    BY <2>1, <2>2, RefusalKeeps DEF Throw
  <2>3. CASE FailClosedChallenge(a) /\ UNCHANGED sends
    BY <2>1, <2>3, RefusalKeeps DEF FailClosedChallenge
  <2> DEFINE j == attempt[a].inbox
             v == WindowOf(a)
  <2>4. ASSUME UnderCap(j, v), sends' = [sends EXCEPT ![j][v] = @ + 1],
               NEW s \in {"token", "refused"}, Goto(a, s)
        PROVE  TrigInv'
    <3>1. PICK r \in AttemptRecords :
              /\ attempt' = [attempt EXCEPT ![a] = r]
              /\ r.stage = s /\ r.client = attempt[a].client /\ r.inbox = attempt[a].inbox
              /\ r.begun = attempt[a].begun /\ r.at = attempt[a].at
              /\ r.link = attempt[a].link /\ r.arrived = attempt[a].arrived
      BY <2>4, GotoMoves DEF Stages
    <3>2. /\ attempt'[a] = r /\ posted'[a] = {}
          /\ \A e \in Attempts \ {a} : attempt'[e] = attempt[e] /\ posted'[e] = posted[e]
      BY <2>1, <3>1 DEF TrigInv, TrigTypeOK
    <3>3. AttemptOK(r, {})
      BY <1>0, <2>1, <2>4, <3>1 DEF AttemptOK, LetIn, Counted
    <3>4. \A e \in Attempts : AttemptOK(attempt'[e], posted'[e])
      BY <1>0, <3>2, <3>3
    <3>5. \A e \in Attempts : AttemptOK(attempt[e], posted[e])'
      BY <2>1, <3>4 DEF AttemptOK, LetIn, Counted, Named
    <3>6. sends \in [Inboxes -> [Windows -> Nat]]
      BY DEF TrigInv, TrigTypeOK
    <3>7. sends' \in [Inboxes -> [Windows -> Nat]]
      <4>1. sends[j] \in [Windows -> Nat]
        BY <2>1, <3>6
      <4>2. ASSUME NEW f \in [Windows -> Nat], NEW u
            PROVE  [f EXCEPT ![u] = f[u] + 1] \in [Windows -> Nat]
        <5>1. CASE u \in Windows
          <6>1. f[u] + 1 \in Nat
            BY <5>1
          <6> QED  BY <6>1
        <5>2. CASE u \notin Windows
          BY <5>2
        <5> QED  BY <5>1, <5>2
      <4> HIDE DEF j, v
      <4> QED  BY <2>1, <2>4, <3>6, <4>1, <4>2
    <3>8. TrigTypeOK'
      BY <2>1, <3>1, <3>7 DEF TrigInv, TrigTypeOK
    <3>9. ASSUME NEW i \in Inboxes, NEW w \in Windows
          PROVE  /\ sends'[i][w] <= SendsPerSite
                 /\ IsFiniteSet(Counts(i, w)') /\ Cardinality(Counts(i, w)') <= sends'[i][w]
      <4>1. /\ sends[i][w] \in Nat /\ sends[i][w] <= SendsPerSite
            /\ IsFiniteSet(Counts(i, w)) /\ Cardinality(Counts(i, w)) <= sends[i][w]
        BY <3>6 DEF TrigInv, SendsRight
      <4>2. Counts(i, w)' \subseteq Counts(i, w) \union {a}
        BY <3>2 DEF Counts, WindowOf, Counted
      <4>3. CASE i = j /\ w = v
        <5>1. sends'[i][w] = sends[i][w] + 1
          BY <2>4, <3>6, <4>3
        <5>2. sends[i][w] < SendsPerSite
          BY <2>4, <4>3 DEF UnderCap
        <5>3. IsFiniteSet(Counts(i, w)') /\ Cardinality(Counts(i, w)') <= sends[i][w] + 1
          BY <4>1, <4>2, CountsGrow
        <5> QED  BY <4>1, <5>1, <5>2, <5>3
      <4>4. CASE ~(i = j /\ w = v)
        <5>1. sends'[i][w] = sends[i][w]
          <6>1. CASE i # j
            BY <2>4, <3>6, <6>1
          <6>2. CASE i = j /\ w # v
            BY <2>4, <3>6, <6>2
          <6> QED  BY <4>4, <6>1, <6>2
        <5>2. Counts(i, w)' \subseteq Counts(i, w)
          BY <2>1, <3>1, <3>2, <4>4 DEF Counts, WindowOf, Counted
        <5>3. IsFiniteSet(Counts(i, w)') /\ Cardinality(Counts(i, w)') <= Cardinality(Counts(i, w))
          BY <4>1, <5>2, FS_Subset
        <5>4. Cardinality(Counts(i, w)') \in Nat /\ Cardinality(Counts(i, w)) \in Nat
          BY <4>1, <5>3, FS_CardinalityType
        <5> QED  BY <4>1, <5>1, <5>3, <5>4
      <4> QED  BY <4>3, <4>4
    <3>10. SendsRight'
      BY <3>9 DEF SendsRight
    <3>11. OneHost'
      BY <2>1, NamedSame DEF TrigInv
    <3> QED  BY <3>5, <3>8, <3>10, <3>11 DEF TrigInv
  <2> QED  BY <1>5, <2>2, <2>3, <2>4 DEF ConsumeSends, Throw
<1>6. ASSUME NEW a \in Attempts, PutLink(a) PROVE TrigInv'
  <2>1. /\ attempt[a].stage = "token" /\ posted[a] = {}
        /\ UNCHANGED <<trigNow, config, replaced, denied, sends, posted>>
    BY <1>0, <1>6 DEF PutLink, At, store, AttemptOK
  <2>2. CASE Throw(a)
    BY <2>1, <2>2, RefusalKeeps DEF Throw
  <2>3. CASE Goto(a, "send")
    <3>1. PICK r \in AttemptRecords :
              /\ attempt' = [attempt EXCEPT ![a] = r]
              /\ r.stage = "send" /\ r.client = attempt[a].client /\ r.inbox = attempt[a].inbox
              /\ r.begun = attempt[a].begun /\ r.at = attempt[a].at
              /\ r.link = attempt[a].link /\ r.arrived = attempt[a].arrived
      BY <2>3, GotoMoves DEF Stages
    <3>2. AttemptOK(r, {}) /\ Counted(attempt[a], posted[a])
      BY <1>0, <2>1, <3>1 DEF AttemptOK, LetIn, Counted
    <3> QED  BY <1>0, <2>1, <3>1, <3>2, AttemptMoves
  <2> QED  BY <1>6, <2>2, <2>3 DEF PutLink
<1>7. ASSUME NEW a \in Attempts, SendLink(a) PROVE TrigInv'
  <2>1. /\ attempt[a].stage = "send" /\ posted[a] = {} /\ Counted(attempt[a], posted[a])
        /\ UNCHANGED <<trigNow, config, replaced, denied, sends>>
    BY <1>0, <1>7 DEF SendLink, At, store, AttemptOK, Counted
  <2>2. CASE Throw(a) /\ UNCHANGED posted
    BY <2>1, <2>2, RefusalKeeps DEF Throw
  <2>3. ASSUME NEW s \in {"open", "refused"}, Goto(a, s),
               posted' = [posted EXCEPT ![a] = attempt[a].link]
        PROVE  TrigInv'
    <3>1. PICK r \in AttemptRecords :
              /\ attempt' = [attempt EXCEPT ![a] = r]
              /\ r.stage = s /\ r.client = attempt[a].client /\ r.inbox = attempt[a].inbox
              /\ r.begun = attempt[a].begun /\ r.at = attempt[a].at
              /\ r.link = attempt[a].link /\ r.arrived = attempt[a].arrived
      BY <2>3, GotoMoves DEF Stages
    <3>2. AttemptOK(r, attempt[a].link)
      BY <1>0, <2>1, <2>3, <3>1 DEF AttemptOK, LetIn, Counted
    <3>3. attempt[a].link \in SUBSET Subdomains
      BY <1>0 DEF AttemptRecords
    <3> QED  BY <2>1, <2>3, <3>1, <3>2, <3>3, AttemptMoves
  <2> QED  BY <1>7, <2>2, <2>3 DEF SendLink, Throw
<1>8. ASSUME NEW a \in Attempts, NEW b \in Attempts, NEW h \in Subdomains, RedeemLink(a, b, h)
      PROVE  TrigInv'
  <2>1. /\ attempt[a].stage = "open" /\ posted[b] # {}
        /\ UNCHANGED <<trigNow, config, replaced, denied, sends, posted>>
    BY <1>8 DEF RedeemLink, At, store
  <2>2. CASE Goto(a, "refused")
    <3>1. PICK r \in AttemptRecords :
              /\ attempt' = [attempt EXCEPT ![a] = r]
              /\ r.stage = "refused" /\ r.client = attempt[a].client /\ r.inbox = attempt[a].inbox
              /\ r.begun = attempt[a].begun /\ r.at = attempt[a].at
              /\ r.link = attempt[a].link /\ r.arrived = attempt[a].arrived
      BY <2>2, GotoMoves DEF Stages
    <3>2. AttemptOK(r, posted[a]) /\ Counted(attempt[a], posted[a])
      BY <1>0, <2>1, <3>1 DEF AttemptOK, LetIn, Counted
    <3> QED  BY <1>0, <2>1, <3>1, <3>2, AttemptMoves
  <2>3. CASE /\ Verifies(a, b) /\ attempt[a].client \in LoadedBySubdomain(h)
             /\ attempt' = [attempt EXCEPT ![a] = [@ EXCEPT !.stage = "in", !.arrived = {h}]]
    <3> DEFINE r == [attempt[a] EXCEPT !.stage = "in", !.arrived = {h}]
    <3>1. /\ r \in AttemptRecords /\ r.stage = "in" /\ r.client = attempt[a].client
          /\ r.inbox = attempt[a].inbox /\ r.begun = attempt[a].begun /\ r.at = attempt[a].at
          /\ r.link = attempt[a].link /\ r.arrived = {h}
      BY <1>0 DEF AttemptRecords, Stages
    <3>2. attempt' = [attempt EXCEPT ![a] = r]
      BY <2>3
    <3> HIDE DEF r
    <3>3. h \in Named(attempt[a].client)
      BY <2>3 DEF LoadedBySubdomain, LoadedByClient, Named
    <3>4. posted[a] # {} /\ posted[a] \subseteq Named(attempt[a].client) /\ attempt[a].client \in Clients
      BY <1>0, <2>1, <2>3 DEF Verifies, AttemptOK, AttemptRecords
    <3>5. h \in posted[a]
      BY <3>3, <3>4 DEF TrigInv, OneHost
    <3>6. AttemptOK(r, posted[a]) /\ Counted(attempt[a], posted[a])
      BY <1>0, <2>1, <3>1, <3>5 DEF AttemptOK, LetIn, Counted
    <3> QED  BY <1>0, <2>1, <3>1, <3>2, <3>6, AttemptMoves
  <2> QED  BY <1>8, <2>2, <2>3 DEF RedeemLink, RedeemingClient, SessionOfClient
<1>9. ASSUME NEW a \in Attempts, SweepLink(a) PROVE TrigInv'
  <2>1. TrigTypeOK' /\ UNCHANGED <<trigNow, config, replaced, denied, attempt, posted, sends>>
    BY <1>9 DEF SweepLink, TrigInv, TrigTypeOK, store
  <2> QED  BY <2>1, NamedSame, AsideKeepsAttempts DEF LetIn, TrigInv, TrigTypeOK
<1>10. ASSUME NEW c \in Clients, EditConfig(c) PROVE TrigInv'
  <2>1. PICK row \in Rows : /\ config' = [config EXCEPT ![c] = row]
                            /\ config[c].there /\ row.there => row.sub = config[c].sub
    BY <1>10 DEF EditConfig, Rows
  <2>2. /\ replaced' = [replaced EXCEPT ![c] =
                           replaced[c] \union {[row |-> config[c], until |-> trigNow]}]
        /\ UNCHANGED <<trigNow, denied, attempt, posted, sends>>
    BY <1>10 DEF EditConfig
  <2>3. TrigTypeOK'
    BY <2>1, <2>2 DEF TrigInv, TrigTypeOK
  <2>4. ASSUME NEW r \in AttemptRecords, r.begun <= trigNow, LetIn(r) PROVE LetIn(r)'
    <3>1. r.client \in Clients /\ r.begun \in Nat
      BY DEF AttemptRecords
    <3>2. CASE r.client # c
      BY <2>1, <2>2, <2>4, <3>1, <3>2 DEF LetIn, TrigInv, TrigTypeOK
    <3>3. CASE r.client = c
      <4>1. CASE config[c].there
        <5>1. [row |-> config[c], until |-> trigNow] \in replaced'[c]
          BY <2>2 DEF TrigInv, TrigTypeOK
        <5>2. r.begun < trigNow + ConfigAge
          BY <2>4, <3>1 DEF TrigInv, TrigTypeOK
        <5> QED  BY <3>3, <4>1, <5>1, <5>2 DEF LetIn
      <4>2. CASE ~config[c].there
        <5>1. replaced[c] \subseteq replaced'[c]
          BY <2>2 DEF TrigInv, TrigTypeOK
        <5> QED  BY <2>4, <3>3, <4>2, <5>1 DEF LetIn
      <4> QED  BY <4>1, <4>2
    <3> QED  BY <3>2, <3>3
  <2>5. trigNow <= trigNow' /\ \A i \in Inboxes, t \in Nat : t <= denied[i] => t <= denied'[i]
    BY <2>2 DEF TrigInv, TrigTypeOK
  <2>6. /\ \A d \in Clients : d # c => Named(d)' = Named(d)
        /\ Named(c)' = Named(c) \union row.sub
    <3>1. /\ config'[c] = row
          /\ replaced'[c] = replaced[c] \union {[row |-> config[c], until |-> trigNow]}
          /\ \A d \in Clients : d # c => config'[d] = config[d] /\ replaced'[d] = replaced[d]
      BY <2>1, <2>2 DEF TrigInv, TrigTypeOK
    <3>2. row.sub \subseteq Subdomains
      BY RowFacts
    <3>3. \A h : (\E r \in replaced'[c] : h \in r.row.sub)
              <=> (h \in config[c].sub \/ \E r \in replaced[c] : h \in r.row.sub)
      <4>1. PICK x : x = [row |-> config[c], until |-> trigNow]
        OBVIOUS
      <4>2. x.row = config[c] /\ replaced'[c] = replaced[c] \union {x}
        BY <3>1, <4>1
      <4> QED  BY <4>2
    <3>4. Named(c)' = Named(c) \union row.sub
      BY <3>1, <3>2, <3>3 DEF Named
    <3> QED  BY <3>1, <3>4 DEF Named
  <2>7. \A g, h \in Named(c) \union row.sub : g = h
    <3>1. \A g, h \in row.sub : g = h
      BY RowFacts
    <3>2. CASE config[c].there
      <4>1. row.sub \subseteq Named(c)
        BY <2>1, <3>2, RowFacts DEF Named
      <4> QED  BY <4>1 DEF TrigInv, OneHost
    <3>3. CASE ~config[c].there
      <4>1. replaced[c] = {} /\ config[c].sub = {}
        <5>1. config[c] \in Rows /\ replaced[c] = {}
          BY <1>10, <3>3 DEF EditConfig, TrigInv, TrigTypeOK
        <5> QED  BY <3>3, <5>1, RowFacts
      <4>2. Named(c) = {}
        BY <4>1 DEF Named
      <4> QED  BY <3>1, <4>2
    <3> QED  BY <3>2, <3>3
  <2>8. OneHost' /\ \A d \in Clients : Named(d) \subseteq Named(d)'
    BY <2>6, <2>7 DEF OneHost, TrigInv
  <2> QED  BY <2>2, <2>3, <2>4, <2>5, <2>8, AsideKeepsAttempts
<1>11. ASSUME NEW i \in Inboxes, Deny(i) PROVE TrigInv'
  <2>1. /\ denied' = [denied EXCEPT ![i] = trigNow]
        /\ UNCHANGED <<trigNow, config, replaced, attempt, posted, sends>>
    BY <1>11 DEF Deny
  <2>2. TrigTypeOK'
    BY <2>1 DEF TrigInv, TrigTypeOK
  <2>3. \A h \in Inboxes, t \in Nat : t <= trigNow /\ t <= denied[h] => t <= denied'[h]
    BY <2>1 DEF TrigInv, TrigTypeOK
  <2>4. trigNow <= trigNow' /\ \A r \in AttemptRecords : LetIn(r) => LetIn(r)'
    BY <2>1 DEF TrigInv, TrigTypeOK, LetIn
  <2>5. OneHost' /\ \A d \in Clients : Named(d) \subseteq Named(d)'
    BY <2>1 DEF OneHost, Named, TrigInv
  <2> QED  BY <2>1, <2>2, <2>3, <2>4, <2>5, AsideKeepsAttempts
<1>12. CASE TrigTick
  <2>1. /\ trigNow' = trigNow + 1 /\ trigNow < TriggerMaxTime
        /\ UNCHANGED <<config, replaced, denied, attempt, posted, sends>>
    BY <1>12 DEF TrigTick, store
  <2>2. TrigTypeOK' /\ trigNow <= trigNow'
    BY <2>1 DEF TrigInv, TrigTypeOK
  <2>3. OneHost' /\ \A d \in Clients : Named(d) \subseteq Named(d)'
    BY <2>1 DEF OneHost, Named, TrigInv
  <2> QED  BY <2>1, <2>2, <2>3, AsideKeepsAttempts DEF LetIn
<1>13. CASE UNCHANGED trigVars
  <2>1. TrigTypeOK' /\ UNCHANGED <<trigNow, config, replaced, denied, attempt, posted, sends>>
    BY <1>13 DEF trigVars, TrigInv, TrigTypeOK
  <2> QED  BY <2>1, NamedSame, AsideKeepsAttempts DEF LetIn, TrigInv, TrigTypeOK
<1> QED
  BY <1>1, <1>2, <1>3, <1>4, <1>5, <1>6, <1>7, <1>8, <1>9, <1>10, <1>11, <1>12, <1>13
     DEF TrigNext

\* For any number of tenants and addresses that share the pool, and whatever is
\* edited, denied, throttled or fails between two awaits: mails and sign-ins stay
\* with the tenant that asked, though two share a subdomain, and the tenants together
\* stay under the cap.
THEOREM TenantsApart == TrigSpec => []TenantsStayApart
<1>1. TrigInv => TenantsStayApart
  <2> SUFFICES ASSUME TrigInv PROVE TenantsStayApart
    OBVIOUS
  <2>1. ASSUME NEW a \in Attempts
        PROVE  /\ posted[a] \subseteq Named(attempt[a].client)
               /\ attempt[a].arrived \subseteq posted[a]
               /\ posted[a] # {} => attempt[a].begun <= denied[attempt[a].inbox]
               /\ posted[a] # {} => LetIn(attempt[a])
    BY DEF TrigInv, AttemptOK, Counted
  <2>2. ASSUME NEW i \in Inboxes, NEW w \in Windows
        PROVE  Cardinality(Posted(i, w)) <= SendsPerSite
    <3>1. Posted(i, w) \subseteq Counts(i, w)
      BY DEF Posted, Counts, Counted
    <3>2. /\ IsFiniteSet(Counts(i, w)) /\ Cardinality(Counts(i, w)) <= sends[i][w]
          /\ sends[i][w] <= SendsPerSite /\ sends[i][w] \in Nat
      BY DEF TrigInv, SendsRight, TrigTypeOK
    <3>3. IsFiniteSet(Posted(i, w)) /\ Cardinality(Posted(i, w)) <= Cardinality(Counts(i, w))
      BY <3>1, <3>2, FS_Subset
    <3>4. Cardinality(Posted(i, w)) \in Nat /\ Cardinality(Counts(i, w)) \in Nat
      BY <3>2, <3>3, FS_CardinalityType
    <3> QED  BY <3>2, <3>3, <3>4, TriggerAssumption
  <2> QED  BY <2>1, <2>2 DEF TenantsStayApart, LetIn
<1> QED  BY <1>1, TrigInvInit, TrigInvStep, PTL DEF TrigSpec

------------------------------------------------------------------------------

(* The verifiers and their key caches.  A set of keys is Fresh as of t when   *)
(* none of them had been withdrawn by then, and Complete when it has every    *)
(* key that was published before t and still is.  EdgeInv dates each set a    *)
(* process holds, in its cache or in an answer on its way, by one of these.   *)

Fresh(keys, t) == \A k \in keys : retired[k] = Absent \/ t <= retired[k]

Complete(keys, t) == \A k \in Published : born[k] < t => k \in keys

GoodCookies == {OneCookie} \cup {c \in OddCookies : Len(c) = 2}

Caches == [gen : Nat, full : BOOLEAN, keys : SUBSET SigningKeys, at : Nat]

Waiting == [tok : Token, host : Hosts, cookies : GoodCookies,
            pc : {"asked", "again", "fetching", "served", "fetch", "body"},
            t0 : Nat, gen : Nat, keys : SUBSET SigningKeys, retried : BOOLEAN]

CacheOK(j) ==
    /\ j \in Caches /\ j.at <= clock
    /\ kind \in {"edge", "shared"} => Fresh(j.keys, j.at)
    /\ kind = "shared" /\ j.full => Complete(j.keys, j.at)

\* The keys a request has cannot have verified it, unless they have just come.
Unserved(q) == q.tok.kid \notin q.keys \/ ~q.tok.genuine

\* A request that waits began on the cache j or on one before it.
WaitingOK(q, j) ==
    /\ q \in Waiting /\ q.pc # "asked" /\ q.t0 <= clock
    /\ q.gen <= j.gen
    /\ kind = "edge" /\ q.gen = j.gen => j.at <= q.t0
    /\ q.pc = "served" => Fresh(q.keys, q.t0) /\ Complete(q.keys, q.t0)
    /\ q.pc # "served" => Unserved(q)

DoneOK(r) ==
    /\ r.pc = "done"
    /\ r.out = "pass" <=> r.sound /\ r.held
    /\ kind \in {"edge", "shared"} /\ r.out = "pass" => r.sinceAsked < JwksTtl
    /\ kind = "shared" /\ r.late /\ r.sound => r.out # "bad-signature"

ViewerOK(q, j) == q = Unasked \/ q = Away \/ WaitingOK(q, j) \/ DoneOK(q)

PoolOK ==
    /\ kind \in {"edge", "shared", "issuer", "pools"} /\ clock \in Nat
    /\ born \in [SigningKeys -> Nat \union {Absent}]
    /\ retired \in [SigningKeys -> Nat \union {Absent}]
    /\ \A k \in SigningKeys : born[k] <= clock /\ retired[k] <= clock

EdgeInv ==
    /\ PoolOK
    /\ stored \in [full : BOOLEAN, keys : SUBSET SigningKeys, at : Nat]
    /\ CacheOK(jwks)
    /\ viewer = [v \in Viewers |-> viewer[v]]
    /\ \A v \in Viewers : ViewerOK(viewer[v], jwks)

-----------------------------------------------------------------------------
(* What is decided about a request, given keys. *)

\* The library accepts a token for these reasons and no other, and blames key or
\* signature only when one of them is wrong; with the audience pinned, and without.
LEMMA LibraryPinned ==
    ASSUME NEW tok \in Token, NEW keys \in SUBSET SigningKeys, NEW t
    PROVE  /\ LibraryVerify(tok, keys, TRUE, t) = "ok" <=>
                /\ tok.form = "jwt" /\ tok.kid \in keys /\ tok.genuine /\ tok.iss = "own"
                /\ tok.aud = "own"
                /\ ~Expired(tok, t) /\ ~NotYet(tok, t)
           /\ LibraryVerify(tok, keys, TRUE, t) \in {"kid", "signature"} =>
                tok.kid \notin keys \/ ~tok.genuine
<1>1. /\ tok.form \in {"jwt", "garbage"} /\ tok.genuine \in BOOLEAN
      /\ tok.kid = "none" => tok.kid \notin keys
  BY TokenAssumption DEF Token
<1> QED  BY <1>1 DEF LibraryVerify

LEMMA LibraryOpen ==
    ASSUME NEW tok \in Token, NEW keys \in SUBSET SigningKeys, NEW t
    PROVE  /\ LibraryVerify(tok, keys, FALSE, t) = "ok" <=>
                /\ tok.form = "jwt" /\ tok.kid \in keys /\ tok.genuine /\ tok.iss = "own"
                /\ ~Expired(tok, t) /\ ~NotYet(tok, t)
           /\ LibraryVerify(tok, keys, FALSE, t) \in {"kid", "signature"} =>
                tok.kid \notin keys \/ ~tok.genuine
<1>1. /\ tok.form \in {"jwt", "garbage"} /\ tok.genuine \in BOOLEAN
      /\ tok.kid = "none" => tok.kid \notin keys
  BY TokenAssumption DEF Token
<1> QED  BY <1>1 DEF LibraryVerify

\* Each verifier passes exactly the genuine tokens whose key it has.
LEMMA VerdictRight ==
    ASSUME PoolOK, NEW q, q.tok \in Token, q.host \in Hosts, q.cookies \in GoodCookies,
           NEW keys \in SUBSET SigningKeys
    PROVE  /\ Verdict(q, keys) = "pass" <=> Genuine(q) /\ q.tok.kid \in keys
           /\ kind = "issuer" /\ Verdict(q, keys) = "invalid_signature" =>
                q.tok.kid \notin keys \/ ~q.tok.genuine
<1> DEFINE t == q.tok
<1>1. clock \in Nat /\ kind \in {"edge", "shared", "issuer", "pools"}
  BY DEF PoolOK
<1>2. /\ t.form \in {"jwt", "garbage"} /\ t.genuine \in BOOLEAN
      /\ t.kid = "none" => t.kid \notin keys
      /\ t.aud \in {"own", "other", "none"} /\ t.tenant \in Tenants \cup {NoTenantId}
      /\ q.host.label \in Tenants /\ q.host.shaped \in BOOLEAN
  BY TokenAssumption DEF Token, Hosts
<1>3. CASE kind = "edge"
  <2>1. Verdict(q, keys) = EdgeVerify(t, keys, clock)
    BY <1>3 DEF Verdict
  <2>2. LibraryVerify(t, keys, TRUE, clock) = "ok" <=>
             /\ t.form = "jwt" /\ t.kid \in keys /\ t.genuine /\ t.iss = "own"
             /\ t.aud = "own"
             /\ ~Expired(t, clock) /\ ~NotYet(t, clock)
    BY LibraryPinned
  <2>3. Genuine(q) <=>
          /\ t.form = "jwt" /\ t.genuine /\ t.iss = "own" /\ t.use = "id" /\ t.alg = "RS256"
          /\ ~Expired(t, clock) /\ ~NotYet(t, clock) /\ t.aud = "own"
    BY <1>3 DEF Genuine, GoodCookies
  <2> HIDE DEF t
  <2>4. Verdict(q, keys) = "pass" <=> Genuine(q) /\ t.kid \in keys
    BY <2>1, <2>2, <2>3 DEF EdgeVerify
  <2> QED  BY <1>3, <2>4 DEF t
<1>4. CASE kind = "shared"
  <2>1. Verdict(q, keys) = SharedVerify(t, keys, q.host, clock)
    BY <1>4 DEF Verdict
  <2>2. VerifyJwt(t, keys, clock) = "ok" <=>
          /\ t.form = "jwt" /\ t.kid \in keys /\ t.genuine /\ t.iss = "own" /\ t.alg = "RS256"
          /\ t.exp # Absent /\ ~Expired(t, clock) /\ ~NotYet(t, clock)
    <3>1. LibraryVerify(t, keys, FALSE, clock) = "ok" <=>
            /\ t.form = "jwt" /\ t.kid \in keys /\ t.genuine /\ t.iss = "own"
            /\ ~Expired(t, clock) /\ ~NotYet(t, clock)
      BY LibraryOpen
    <3> QED  BY <1>2, <3>1 DEF VerifyJwt
  <2>3. ExtractTenantSubdomain(q.host) =
          IF q.host.parent = "own" /\ q.host.labels = 1 /\ q.host.shaped
          THEN q.host.label ELSE NoTenantId
    BY DEF ExtractTenantSubdomain, SharedSubdomain, NormalizeHost, Hosts
  <2>4. SharedVerify(t, keys, q.host, clock) = "pass" <=>
          /\ VerifyJwt(t, keys, clock) = "ok" /\ t.use = "id" /\ t.tenant # NoTenantId
          /\ t.tenant = ExtractTenantSubdomain(q.host) /\ t.aud # "none"
    <3>1. \A err : MapVerifyErrorToResponse(err) # "pass"
      BY DEF MapVerifyErrorToResponse
    <3> QED  BY <3>1 DEF SharedVerify
  <2>5. t.tenant # NoTenantId /\ t.tenant = ExtractTenantSubdomain(q.host) <=>
          /\ q.host.parent = "own" /\ q.host.labels = 1 /\ q.host.shaped /\ q.host.label = t.tenant
    BY <1>2, <2>3, TokenAssumption
  <2>6. Genuine(q) <=>
          /\ t.form = "jwt" /\ t.genuine /\ t.iss = "own" /\ t.use = "id" /\ t.alg = "RS256"
          /\ ~Expired(t, clock) /\ ~NotYet(t, clock) /\ t.exp # Absent /\ t.aud # "none"
          /\ q.host.parent = "own" /\ q.host.labels = 1 /\ q.host.shaped /\ q.host.label = t.tenant
    BY <1>4 DEF Genuine, GoodCookies
  <2> HIDE DEF t
  <2>7. Verdict(q, keys) = "pass" <=> Genuine(q) /\ t.kid \in keys
    BY <2>1, <2>2, <2>4, <2>5, <2>6
  <2> QED  BY <1>4, <2>7 DEF t
<1>5. CASE kind = "issuer"
  <2>1. Verdict(q, keys) = IssuerVerify(t, keys, clock)
    BY <1>5 DEF Verdict
  <2>2. CustomJwtCheck(t) = "pass" <=>
          t.exp # Absent /\ t.alg \in {"RS256", "ES256"} /\ t.use = "id"
    BY DEF CustomJwtCheck
  <2>3. CustomJwtCheck(t) # "invalid_signature"
    BY DEF CustomJwtCheck
  <2>4. \A err : /\ ToIssuerError(err) # "pass"
                 /\ ToIssuerError(err) = "invalid_signature" => err \in {"kid", "signature", "fetch"}
    BY DEF ToIssuerError
  <2>5. LibraryVerify(t, keys, TRUE, clock) # "fetch"
    BY DEF LibraryVerify
  <2>6. Genuine(q) <=>
          /\ t.form = "jwt" /\ t.genuine /\ t.iss = "own" /\ t.use = "id"
          /\ t.alg \in {"RS256", "ES256"}
          /\ ~Expired(t, clock) /\ ~NotYet(t, clock) /\ t.exp # Absent /\ t.aud = "own"
    BY <1>5 DEF Genuine, GoodCookies
  <2>7. /\ LibraryVerify(t, keys, TRUE, clock) = "ok" <=>
             /\ t.form = "jwt" /\ t.kid \in keys /\ t.genuine /\ t.iss = "own"
             /\ t.aud = "own"
             /\ ~Expired(t, clock) /\ ~NotYet(t, clock)
        /\ LibraryVerify(t, keys, TRUE, clock) \in {"kid", "signature"} =>
             t.kid \notin keys \/ ~t.genuine
    BY LibraryPinned
  <2> HIDE DEF t
  <2>8. Verdict(q, keys) = "pass" <=> Genuine(q) /\ t.kid \in keys
    BY <2>1, <2>2, <2>4, <2>6, <2>7 DEF IssuerVerify
  <2>9. Verdict(q, keys) = "invalid_signature" => t.kid \notin keys \/ ~t.genuine
    BY <2>1, <2>3, <2>4, <2>5, <2>7 DEF IssuerVerify
  <2> QED  BY <2>8, <2>9 DEF t
<1>6. CASE kind = "pools"
  <2>1. Verdict(q, keys) = PoolsVerify(t, keys, clock)
    BY <1>6 DEF Verdict
  <2>2. \A err : MapPoolError(err) # "pass"
    BY DEF MapPoolError
  <2>3. LibraryVerify(t, keys, FALSE, clock) = "ok" <=>
             /\ t.form = "jwt" /\ t.kid \in keys /\ t.genuine /\ t.iss = "own"
             /\ ~Expired(t, clock) /\ ~NotYet(t, clock)
    BY LibraryOpen
  <2>4. PoolsVerify(t, keys, clock) = "pass" <=>
          /\ t.form # "garbage" /\ t.iss = "own" /\ t.use = "id" /\ t.aud = "own"
          /\ LibraryVerify(t, keys, FALSE, clock) = "ok"
    BY <2>2 DEF PoolsVerify
  <2>5. Genuine(q) <=>
          /\ t.form = "jwt" /\ t.genuine /\ t.iss = "own" /\ t.use = "id"
          /\ ~Expired(t, clock) /\ ~NotYet(t, clock) /\ t.aud = "own"
    BY <1>6 DEF Genuine, GoodCookies
  <2> HIDE DEF t
  <2>6. Verdict(q, keys) = "pass" <=> Genuine(q) /\ t.kid \in keys
    BY <1>2, <2>1, <2>3, <2>4, <2>5
  <2> QED  BY <1>6, <2>6 DEF t
<1> QED  BY <1>1, <1>3, <1>4, <1>5, <1>6

-----------------------------------------------------------------------------
\* A decision that is right about the token and made with keys that are not too
\* old is right on record.
LEMMA DecidedRight ==
    ASSUME PoolOK, NEW tok, NEW out, NEW sound \in BOOLEAN, NEW held \in BOOLEAN,
           NEW t0 \in Nat, out = "pass" <=> sound /\ held,
           kind \in {"edge", "shared"} /\ out = "pass" /\ tok.kid \in SigningKeys =>
               retired[tok.kid] = Absent \/ t0 - retired[tok.kid] < JwksTtl,
           kind = "shared" /\ sound /\ tok.kid \in Published /\ born[tok.kid] + JwksTtl <= t0 =>
               out # "bad-signature"
    PROVE  DoneOK(Decided(out, tok, sound, t0, held))
<1> DEFINE gone == tok.kid \in SigningKeys /\ retired[tok.kid] # Absent /\ out = "pass"
           late == tok.kid \in Published /\ t0 >= born[tok.kid] + JwksTtl
           since == IF gone THEN t0 - retired[tok.kid] ELSE Absent
           r == Decided(out, tok, sound, t0, held)
<1>1. /\ r.pc = "done" /\ r.out = out /\ r.sound = sound /\ r.held = held
      /\ r.sinceAsked = since /\ r.late = late
  BY DEF Decided
<1>2. kind \in {"edge", "shared"} /\ out = "pass" => since < JwksTtl
  BY EdgeAssumption DEF Absent
<1>3. kind = "shared" /\ late /\ sound => out # "bad-signature"
  BY EdgeAssumption DEF Published, PoolOK, Absent
<1> HIDE DEF since, late, r
<1>4. DoneOK(r)
  BY <1>1, <1>2, <1>3 DEF DoneOK
<1> QED  BY <1>4 DEF r

\* A waiting request is none of the other sorts.
LEMMA WaitingSorts ==
    ASSUME NEW q, NEW j, ViewerOK(q, j),
           q.pc \in {"again", "fetching", "served", "fetch", "body"}
    PROVE  WaitingOK(q, j)
  BY DEF ViewerOK, Unasked, Away, DoneOK

\* The invariant after a step that leaves clock and pool alone.
LEMMA SameKeys ==
    ASSUME PoolOK', UNCHANGED <<kind, clock, born, retired>>,
           stored' \in [full : BOOLEAN, keys : SUBSET SigningKeys, at : Nat],
           NEW j, jwks' = j, CacheOK(j), NEW v \in Viewers, NEW r,
           viewer = [e \in Viewers |-> viewer[e]],
           viewer' = [viewer EXCEPT ![v] = r],
           \A e \in Viewers : ViewerOK(viewer'[e], j)
    PROVE  EdgeInv'
<1>1. CacheOK(jwks)'
  BY DEF CacheOK, Fresh, Complete, Published
<1>2. \A e \in Viewers : ViewerOK(viewer[e], jwks)'
  BY ZenonT(60) DEF ViewerOK, WaitingOK, DoneOK, Fresh, Complete, Published, Unserved
<1>3. (viewer = [e \in Viewers |-> viewer[e]])'
  OBVIOUS
<1> QED  BY <1>1, <1>2, <1>3 DEF EdgeInv

\* A request is decided or tried again, and the cache is c.
LEMMA ConcludeKeeps ==
    ASSUME EdgeInv, NEW v \in Viewers, NEW q \in Waiting, NEW out, NEW c, CacheOK(c),
           q.t0 <= clock, q.gen <= c.gen, Conclude(v, q, out, c),
           UNCHANGED <<kind, clock, born, retired>>,
           stored' \in [full : BOOLEAN, keys : SUBSET SigningKeys, at : Nat],
           \A e \in Viewers \ {v} : ViewerOK(viewer[e], c),
           out = "pass" <=> Genuine(q) /\ q.tok.kid \in q.keys,
           kind = "issuer" /\ out = "invalid_signature" => Unserved(q),
           kind \in {"edge", "shared"} /\ out = "pass" =>
               retired[q.tok.kid] = Absent \/ q.t0 - retired[q.tok.kid] < JwksTtl,
           kind = "shared" /\ q.tok.kid \in Published
               /\ born[q.tok.kid] + JwksTtl <= q.t0 /\ Genuine(q) => out # "bad-signature"
    PROVE  EdgeInv'
<1>1. PoolOK /\ PoolOK' /\ viewer = [e \in Viewers |-> viewer[e]]
  BY DEF EdgeInv, PoolOK
<1>2. CASE kind = "issuer" /\ out = "invalid_signature" /\ ~q.retried
  <2> DEFINE p == [q EXCEPT !.pc = "again", !.retried = TRUE]
             d == [gen |-> c.gen + 1, full |-> FALSE, keys |-> {}, at |-> clock]
  <2>1. viewer' = [viewer EXCEPT ![v] = p] /\ jwks' = d
    BY <1>2 DEF Conclude
  <2>2. /\ p \in Waiting /\ p.pc = "again" /\ p.t0 = q.t0 /\ p.gen = q.gen
        /\ p.tok = q.tok /\ p.keys = q.keys
    BY DEF Waiting
  <2>3. d \in Caches /\ d.gen = c.gen + 1 /\ d.at = clock /\ c.gen \in Nat
    BY <1>1 DEF CacheOK, Caches, PoolOK
  <2> HIDE DEF p, d
  <2>4. CacheOK(d)
    BY <1>1, <1>2, <2>3 DEF CacheOK, PoolOK
  <2>5. WaitingOK(p, d)
    <3>1. q.gen \in Nat
      BY DEF Waiting
    <3>2. p.gen <= d.gen
      BY <2>2, <2>3, <3>1
    <3> QED  BY <1>2, <2>2, <3>2 DEF WaitingOK, Unserved
  <2>6. ASSUME NEW e \in Viewers \ {v} PROVE ViewerOK(viewer[e], d)
    <3>1. CASE WaitingOK(viewer[e], c)
      <4>1. viewer[e].gen \in Nat /\ viewer[e].gen <= c.gen
        BY <3>1 DEF WaitingOK, Waiting
      <4>2. viewer[e].gen <= d.gen
        BY <2>3, <4>1
      <4> QED  BY <1>2, <3>1, <4>2 DEF WaitingOK, ViewerOK
    <3> QED  BY <2>6, <3>1 DEF ViewerOK
  <2>7. \A e \in Viewers : ViewerOK(viewer'[e], d)
    BY <1>1, <2>1, <2>5, <2>6 DEF ViewerOK
  <2> QED  BY <1>1, <2>1, <2>4, <2>7, SameKeys
<1>3. CASE ~(kind = "issuer" /\ out = "invalid_signature" /\ ~q.retried)
  <2>1. PICK sound \in BOOLEAN : sound = Genuine(q)
    BY DEF Genuine
  <2>2. PICK held \in BOOLEAN : held = (q.tok.kid \in q.keys)
    <3>1. (q.tok.kid \in q.keys) \in BOOLEAN
      OBVIOUS
    <3> QED  BY <3>1, Zenon
  <2> DEFINE r == Decided(out, q.tok, sound, q.t0, held)
  <2>3. viewer' = [viewer EXCEPT ![v] = r] /\ jwks' = c
    BY <1>3, <2>1, <2>2 DEF Conclude
  <2>4. q.t0 \in Nat
    BY DEF Waiting
  <2>5. out = "pass" <=> sound /\ held
    BY <2>1, <2>2
  <2>6. DoneOK(r)
    BY <1>1, <2>1, <2>4, <2>5, DecidedRight
  <2> HIDE DEF r
  <2>7. \A e \in Viewers : ViewerOK(viewer'[e], c)
    BY <1>1, <2>3, <2>6 DEF ViewerOK
  <2> QED  BY <1>1, <2>3, <2>7, SameKeys
<1> QED  BY <1>2, <1>3

\* The cache a lookup goes to.
LEMMA ActiveRight ==
    ASSUME EdgeInv
    PROVE  /\ CacheOK(ActiveInner) /\ jwks.gen <= ActiveInner.gen
           /\ kind = "edge" => clock - ActiveInner.at < JwksTtl
           /\ \A e \in Viewers : ViewerOK(viewer[e], ActiveInner)
<1>0. jwks \in Caches /\ clock \in Nat
  BY DEF EdgeInv, CacheOK, PoolOK
<1>1. CASE kind = "edge" /\ clock - jwks.at >= JwksTtl
  <2> DEFINE d == [gen |-> jwks.gen + 1, full |-> FALSE, keys |-> {}, at |-> clock]
  <2>1. ActiveInner = d
    BY <1>1 DEF ActiveInner
  <2>2. d \in Caches /\ d.gen = jwks.gen + 1 /\ d.at = clock /\ d.keys = {} /\ jwks.gen \in Nat
    BY <1>0 DEF Caches
  <2> HIDE DEF d
  <2>3. CacheOK(d) /\ jwks.gen <= d.gen /\ clock - d.at < JwksTtl
    BY <1>0, <1>1, <2>2, EdgeAssumption DEF CacheOK, Fresh
  <2>4. ASSUME NEW e \in Viewers PROVE ViewerOK(viewer[e], d)
    <3>1. CASE WaitingOK(viewer[e], jwks)
      <4>1. viewer[e].gen \in Nat /\ viewer[e].gen <= jwks.gen
        BY <3>1 DEF WaitingOK, Waiting
      <4>2. viewer[e].gen <= d.gen /\ viewer[e].gen # d.gen
        BY <2>2, <4>1
      <4> QED  BY <3>1, <4>2 DEF WaitingOK, ViewerOK
    <3> QED  BY <3>1 DEF EdgeInv, ViewerOK
  <2> QED  BY <2>1, <2>3, <2>4
<1>2. CASE ~(kind = "edge" /\ clock - jwks.at >= JwksTtl)
  <2>1. ActiveInner = jwks
    BY <1>2 DEF ActiveInner
  <2>2. kind = "edge" => clock - jwks.at < JwksTtl
    BY <1>0, <1>2, EdgeAssumption DEF Caches
  <2>3. jwks.gen <= jwks.gen
    BY <1>0 DEF Caches
  <2> QED  BY <2>1, <2>2, <2>3 DEF EdgeInv
<1> QED  BY <1>1, <1>2

\* A request that looks its key up.
LEMMA LookupKeeps ==
    ASSUME EdgeInv, NEW v \in Viewers, NEW q \in Waiting, q.gen <= jwks.gen, Unserved(q),
           Lookup(v, q), UNCHANGED <<kind, clock, born, retired, stored>>
    PROVE  EdgeInv'
<1> DEFINE c == ActiveInner
           p == [q EXCEPT !.t0 = clock, !.gen = c.gen]
           h == [p EXCEPT !.keys = c.keys]
<1>1. /\ CacheOK(c) /\ \A e \in Viewers : ViewerOK(viewer[e], c)
      /\ kind = "edge" => clock - c.at < JwksTtl
  BY ActiveRight
<1>2. PoolOK /\ viewer = [e \in Viewers |-> viewer[e]]
  BY DEF EdgeInv
<1>3. /\ IF ~NeedsKey(q.tok) \/ KeyHit(c, q.tok)
         THEN Conclude(v, h, Verdict(p, c.keys), c)
         ELSE jwks' = c /\ viewer' = [viewer EXCEPT ![v] = [p EXCEPT !.pc = "fetching"]]
  BY DEF Lookup
<1> HIDE DEF c
<1>4. /\ p \in Waiting /\ p.t0 = clock /\ p.gen = c.gen /\ p.tok = q.tok /\ p.keys = q.keys
      /\ p.host = q.host /\ p.cookies = q.cookies
  BY <1>1, <1>2 DEF Waiting, PoolOK, CacheOK, Caches
<1> HIDE DEF p
<1>5. CASE ~NeedsKey(q.tok) \/ KeyHit(c, q.tok)
  <2>1. /\ h \in Waiting /\ h.t0 = clock /\ h.gen = c.gen /\ h.tok = q.tok /\ h.keys = c.keys
        /\ h.host = q.host /\ h.cookies = q.cookies
    BY <1>1, <1>4 DEF Waiting, CacheOK, Caches
  <2>2. Conclude(v, h, Verdict(p, c.keys), c)
    BY <1>3, <1>5
  <2> HIDE DEF h
  <2>3. /\ q.tok \in Token /\ q.host \in Hosts /\ q.cookies \in GoodCookies
        /\ c.keys \in SUBSET SigningKeys /\ c.at \in Nat /\ c.gen \in Nat /\ clock \in Nat
    BY <1>1, <1>2 DEF Waiting, CacheOK, Caches, PoolOK
  <2>4. PICK out : out = Verdict(p, c.keys)
    OBVIOUS
  <2>5. /\ out = "pass" <=> Genuine(p) /\ p.tok.kid \in c.keys
        /\ kind = "issuer" /\ out = "invalid_signature" => p.tok.kid \notin c.keys \/ ~p.tok.genuine
    BY <1>2, <1>4, <2>3, <2>4, VerdictRight
  <2>6. Genuine(h) <=> Genuine(p)
    BY <1>4, <2>1 DEF Genuine
  <2>7. out = "pass" <=> Genuine(h) /\ h.tok.kid \in h.keys
    BY <1>4, <2>1, <2>5, <2>6
  <2>8. kind = "issuer" /\ out = "invalid_signature" => Unserved(h)
    BY <1>4, <2>1, <2>5 DEF Unserved
  <2>9. kind = "shared" => c.full /\ clock - c.at < JwksTtl
    BY <1>5 DEF NeedsKey, KeyHit
  <2>10. kind \in {"edge", "shared"} /\ out = "pass" =>
            retired[h.tok.kid] = Absent \/ h.t0 - retired[h.tok.kid] < JwksTtl
    <3>1. SUFFICES ASSUME kind \in {"edge", "shared"}, out = "pass", retired[h.tok.kid] # Absent
                   PROVE  h.t0 - retired[h.tok.kid] < JwksTtl
      OBVIOUS
    <3>2. h.tok.kid \in c.keys
      BY <2>1, <2>7, <3>1
    <3>3. c.at <= retired[h.tok.kid] /\ retired[h.tok.kid] \in Nat
      BY <1>1, <1>2, <2>3, <3>1, <3>2 DEF CacheOK, Fresh, PoolOK
    <3>4. clock - c.at < JwksTtl
      BY <1>1, <2>9, <3>1
    <3> QED  BY <2>1, <2>3, <3>3, <3>4, EdgeAssumption
  <2>11. kind = "shared" /\ h.tok.kid \in Published
            /\ born[h.tok.kid] + JwksTtl <= h.t0 /\ Genuine(h) => out # "bad-signature"
    <3>1. SUFFICES ASSUME kind = "shared", h.tok.kid \in Published,
                          born[h.tok.kid] + JwksTtl <= h.t0, Genuine(h)
                   PROVE  out = "pass"
      OBVIOUS
    <3>2. born[h.tok.kid] \in Nat
      BY <1>2, <3>1 DEF Published, PoolOK
    <3>3. born[h.tok.kid] < c.at
      BY <2>1, <2>3, <2>9, <3>1, <3>2, EdgeAssumption
    <3>4. h.tok.kid \in c.keys
      BY <1>1, <2>9, <3>1, <3>3 DEF CacheOK, Complete
    <3> QED  BY <2>1, <2>7, <3>1, <3>4
  <2>12. stored' \in [full : BOOLEAN, keys : SUBSET SigningKeys, at : Nat]
    BY DEF EdgeInv
  <2>13. h.t0 <= clock /\ h.gen <= c.gen
    BY <2>1, <2>3
  <2> QED
    BY <1>1, <2>1, <2>2, <2>4, <2>7, <2>8, <2>10, <2>11, <2>12, <2>13, ConcludeKeeps
<1>6. CASE ~(~NeedsKey(q.tok) \/ KeyHit(c, q.tok))
  <2> DEFINE f == [p EXCEPT !.pc = "fetching"]
  <2>1. /\ f \in Waiting /\ f.pc = "fetching" /\ f.t0 = clock /\ f.gen = c.gen /\ f.tok = q.tok
        /\ f.keys = q.keys
    BY <1>4 DEF Waiting
  <2>2. jwks' = c /\ viewer' = [viewer EXCEPT ![v] = f]
    BY <1>3, <1>6
  <2> HIDE DEF f
  <2>3. c.at <= clock /\ c.gen \in Nat /\ clock \in Nat
    BY <1>1, <1>2 DEF CacheOK, Caches, PoolOK
  <2>4. WaitingOK(f, c)
    BY <2>1, <2>3 DEF WaitingOK, Unserved
  <2>5. \A e \in Viewers : ViewerOK(viewer'[e], c)
    BY <1>1, <1>2, <2>2, <2>4 DEF ViewerOK
  <2>6. PoolOK' /\ stored' \in [full : BOOLEAN, keys : SUBSET SigningKeys, at : Nat]
    BY DEF EdgeInv, PoolOK
  <2> QED  BY <1>1, <1>2, <2>2, <2>5, <2>6, SameKeys
<1> QED  BY <1>5, <1>6

-----------------------------------------------------------------------------
\* What a request carries.
LEMMA RequestsTyped ==
    ASSUME NEW q \in Requests \union Plain
    PROVE  q.tok \in Token /\ q.host \in Hosts /\ q.cookies \in {OneCookie} \cup OddCookies
<1>1. Home \in Tenants
  BY TokenAssumption DEF Home
<1>2. ASSUME NEW k \in SigningKeys
      PROVE  {GoodToken(k, Home)} \cup Flawed(GoodToken(k, Home)) \subseteq Token
  <2> DEFINE g == GoodToken(k, Home)
  <2>1. g \in Token
    BY <1>1, EdgeAssumption DEF GoodToken, Token
  <2> HIDE DEF g
  <2>2. Flawed(g) \subseteq Token
    <3>1. /\ [g EXCEPT !.form = "garbage"] \in Token /\ [g EXCEPT !.kid = "none"] \in Token
          /\ [g EXCEPT !.genuine = FALSE] \in Token
      BY <2>1 DEF Token
    <3>2. /\ [g EXCEPT !.alg = "ES256"] \in Token /\ [g EXCEPT !.alg = "EdDSA"] \in Token
          /\ [g EXCEPT !.iss = "other"] \in Token
      BY <2>1 DEF Token
    <3>3. /\ [g EXCEPT !.aud = "other"] \in Token /\ [g EXCEPT !.aud = "none"] \in Token
          /\ [g EXCEPT !.use = "access"] \in Token /\ [g EXCEPT !.tenant = NoTenantId] \in Token
      BY <2>1 DEF Token
    <3>4. Absent \in Int /\ EdgeMaxTime \in Int
      BY EdgeAssumption DEF Absent
    <3>5. /\ [g EXCEPT !.exp = 0] \in Token /\ [g EXCEPT !.exp = Absent] \in Token
          /\ [g EXCEPT !.nbf = EdgeMaxTime] \in Token
      BY <2>1, <3>4 DEF Token
    <3> QED  BY <3>1, <3>2, <3>3, <3>5 DEF Flawed
  <2> QED  BY <2>1, <2>2 DEF g
<1>3. \A m \in Tenants : GoodHost(m) \in Hosts
  BY DEF GoodHost, Hosts
<1>4. ASSUME NEW t \in Token, NEW h \in Hosts, NEW c \in {OneCookie} \cup OddCookies,
             q = Request(t, h, c)
      PROVE  q.tok \in Token /\ q.host \in Hosts /\ q.cookies \in {OneCookie} \cup OddCookies
  <2>1. q.tok = t /\ q.host = h /\ q.cookies = c
    BY <1>4 DEF Request
  <2> QED  BY <2>1
<1>5. PICK k \in SigningKeys :
         \/ q = Request(GoodToken(k, Home), GoodHost(Home), OneCookie)
         \/ q \in RequestsWith(GoodToken(k, Home))
  BY DEF Plain, Requests
<1>6. PICK g \in Token : g = GoodToken(k, Home) /\ Flawed(g) \subseteq Token
  BY <1>2
<1>7. PICK home \in Hosts : home = GoodHost(Home)
  BY <1>1, <1>3
<1>8. CASE q = Request(GoodToken(k, Home), GoodHost(Home), OneCookie)
  BY <1>4, <1>6, <1>7, <1>8
<1>9. CASE q \in RequestsWith(GoodToken(k, Home))
  <2> DEFINE A == {Request(t, home, OneCookie) : t \in {g} \cup Flawed(g)}
             B == {Request(g, home, c) : c \in OddCookies}
             C == {Request(g, h, OneCookie) : h \in OddHosts}
  <2>1. RequestsWith(g) = A \cup B \cup C
    BY <1>7 DEF RequestsWith
  <2>2. CASE q \in A
    <3>1. PICK t \in {g} \cup Flawed(g) : q = Request(t, home, OneCookie)
      BY <2>2 DEF A
    <3> QED  BY <1>4, <1>6, <3>1
  <2>3. CASE q \in B
    <3>1. PICK c \in OddCookies : q = Request(g, home, c)
      BY <2>3 DEF B
    <3> QED  BY <1>4, <3>1
  <2>4. CASE q \in C
    <3>1. PICK h \in OddHosts : q = Request(g, h, OneCookie)
      BY <2>4 DEF C
    <3>2. h \in Hosts
      BY DEF OddHosts
    <3> QED  BY <1>4, <3>1, <3>2
  <2> HIDE DEF A, B, C
  <2> QED  BY <1>6, <1>9, <2>1, <2>2, <2>3, <2>4
<1> QED  BY <1>5, <1>8, <1>9

\* The odd cookie headers that a request gets past the gate with have a token.
LEMMA CookiesRead ==
    ASSUME NEW c \in {OneCookie} \cup OddCookies, TokenCookie(c) \notin {NoCookie, Empty}
    PROVE  c \in GoodCookies
<1> USE DEF Empty, NoCookie
<1> DEFINE nameless == <<[name |-> Empty, value |-> "token"]>>
           blank    == <<[name |-> "id_token", value |-> Empty]>>
<1>1. CASE c = <<>>
  <2>1. DOMAIN c = {}
    BY <1>1
  <2>2. GetCookieValue(c) = NoCookie /\ ExtractTokenFromCookies(c) = NoCookie
    BY <2>1 DEF GetCookieValue, ExtractTokenFromCookies
  <2> QED  BY <2>2 DEF TokenCookie
<1>2. CASE c = <<nameless>>
  <2>1. DOMAIN c = {1} /\ c[1] = nameless /\ DOMAIN nameless = {1} /\ nameless[1].name = Empty
    BY <1>2
  <2> HIDE DEF nameless
  <2>2. Carrying(nameless) = {}
    BY <2>1 DEF Carrying
  <2>3. GetCookieValue(c) = NoCookie
    BY <2>1, <2>2 DEF GetCookieValue, ParseCookieSegment
  <2>4. ExtractTokenFromCookies(c) = NoCookie
    BY <2>1, <2>2 DEF ExtractTokenFromCookies
  <2> QED  BY <2>3, <2>4 DEF TokenCookie
<1>3. CASE c = <<blank>>
  <2>1. /\ DOMAIN c = {1} /\ c[1] = blank /\ DOMAIN blank = {1}
        /\ blank[1].name = "id_token" /\ blank[1].value = Empty
    BY <1>3
  <2> HIDE DEF blank
  <2>2. Carrying(blank) = {1}
    BY <2>1 DEF Carrying
  <2>3. First({1}) = 1
    BY DEF First
  <2>4. ParseCookieSegment(blank) = Empty
    BY <2>1, <2>2, <2>3 DEF ParseCookieSegment
  <2>5. GetCookieValue(c) = Empty
    <3>1. {h \in DOMAIN c : ParseCookieSegment(c[h]) # NoCookie} = {1}
      BY <2>1, <2>4
    <3> QED  BY <2>1, <2>3, <2>4, <3>1 DEF GetCookieValue
  <2>6. ExtractTokenFromCookies(c) = Empty
    <3>1. {h \in DOMAIN c : Carrying(c[h]) # {}} = {1}
      BY <2>1, <2>2
    <3> QED  BY <2>1, <2>2, <2>3, <3>1 DEF ExtractTokenFromCookies
  <2> QED  BY <2>5, <2>6 DEF TokenCookie
<1>4. CASE c \notin {<<>>, <<nameless>>, <<blank>>}
  <2>1. c = OneCookie \/ (c \in OddCookies /\ Len(c) = 2)
    BY <1>4 DEF OddCookies
  <2> QED  BY <2>1 DEF GoodCookies
<1> QED  BY <1>1, <1>2, <1>3, <1>4

-----------------------------------------------------------------------------
(* The steps. *)

\* An answer enters the cache it was asked for.
LEMMA FillRight ==
    ASSUME EdgeInv, NEW q, WaitingOK(q, jwks), NEW keys \in SUBSET SigningKeys,
           kind \in {"edge", "shared"} => Fresh(keys, q.t0) /\ Complete(keys, q.t0)
    PROVE  /\ CacheOK(Fill(q, keys)) /\ q.gen <= Fill(q, keys).gen
           /\ \A e \in Viewers : ViewerOK(viewer[e], Fill(q, keys))
<1>1. /\ jwks \in Caches /\ clock \in Nat /\ CacheOK(jwks) /\ q.t0 \in Nat /\ q.t0 <= clock
      /\ PoolOK /\ q.gen <= jwks.gen
  BY DEF EdgeInv, CacheOK, PoolOK, WaitingOK, Waiting
<1>2. CASE kind = "shared"
  <2> DEFINE d == [jwks EXCEPT !.full = TRUE, !.keys = keys, !.at = q.t0]
  <2>1. Fill(q, keys) = d
    BY <1>2 DEF Fill
  <2>2. d \in Caches /\ d.gen = jwks.gen /\ d.at = q.t0 /\ d.keys = keys
    BY <1>1 DEF Caches
  <2> HIDE DEF d
  <2>3. CacheOK(d)
    BY <1>1, <1>2, <2>2 DEF CacheOK
  <2>4. \A e \in Viewers : ViewerOK(viewer[e], d)
    BY <1>2, <2>2 DEF EdgeInv, ViewerOK, WaitingOK
  <2> QED  BY <1>1, <2>1, <2>2, <2>3, <2>4
<1>3. CASE kind # "shared" /\ jwks.gen = q.gen
  <2> DEFINE d == [jwks EXCEPT !.full = TRUE, !.keys = keys]
  <2>1. Fill(q, keys) = d
    BY <1>3 DEF Fill
  <2>2. d \in Caches /\ d.gen = jwks.gen /\ d.at = jwks.at /\ d.keys = keys
    BY <1>1 DEF Caches
  <2> HIDE DEF d
  <2>3. kind = "edge" => Fresh(keys, d.at)
    <3>1. kind = "edge" => jwks.at <= q.t0 /\ jwks.at \in Nat
      BY <1>1, <1>3 DEF WaitingOK, Caches
    <3>2. \A k \in keys : retired[k] \in Nat \union {Absent}
      BY <1>1 DEF PoolOK
    <3>3. \A t \in Nat : jwks.at <= q.t0 /\ jwks.at \in Nat /\ q.t0 <= t => jwks.at <= t
      BY <1>1
    <3> QED  BY <2>2, <3>1, <3>2, <3>3 DEF Fresh
  <2>4. CacheOK(d)
    BY <1>1, <1>3, <2>2, <2>3 DEF CacheOK
  <2>5. \A e \in Viewers : ViewerOK(viewer[e], d)
    BY <2>2 DEF EdgeInv, ViewerOK, WaitingOK
  <2> QED  BY <1>1, <2>1, <2>2, <2>4, <2>5
<1>4. CASE kind # "shared" /\ jwks.gen # q.gen
  BY <1>1, <1>4 DEF Fill, EdgeInv
<1> QED  BY <1>2, <1>3, <1>4

LEMMA AskKeeps ==
    ASSUME EdgeInv, NEW v \in Viewers, Ask(v)
    PROVE  EdgeInv'
<1>1. PICK q \in Requests \union Plain :
         LET p == [tok |-> q.tok, host |-> q.host, cookies |-> q.cookies, pc |-> "asked",
                   t0 |-> clock, gen |-> 0, keys |-> {}, retried |-> FALSE] IN
         IF EarlyAnswer(p) # "none"
         THEN /\ viewer' = [viewer EXCEPT ![v] =
                     Decided(EarlyAnswer(p), p.tok, Genuine(p), clock, FALSE)]
              /\ UNCHANGED jwks
         ELSE Lookup(v, p)
  BY DEF Ask
<1> DEFINE p == [tok |-> q.tok, host |-> q.host, cookies |-> q.cookies, pc |-> "asked",
                 t0 |-> clock, gen |-> 0, keys |-> {}, retried |-> FALSE]
<1>2. UNCHANGED <<kind, clock, born, retired, stored>>
  BY DEF Ask
<1>3. q.tok \in Token /\ q.host \in Hosts /\ q.cookies \in {OneCookie} \cup OddCookies
  BY RequestsTyped
<1>4. PoolOK /\ PoolOK' /\ clock \in Nat /\ viewer = [e \in Viewers |-> viewer[e]] /\ CacheOK(jwks)
  BY <1>2 DEF EdgeInv, PoolOK
<1>5. IF EarlyAnswer(p) # "none"
      THEN /\ viewer' = [viewer EXCEPT ![v] =
                 Decided(EarlyAnswer(p), p.tok, Genuine(p), clock, FALSE)]
           /\ UNCHANGED jwks
      ELSE Lookup(v, p)
  BY <1>1
<1>6. /\ p.tok = q.tok /\ p.host = q.host /\ p.cookies = q.cookies /\ p.pc = "asked"
      /\ p.t0 = clock /\ p.gen = 0 /\ p.keys = {}
  OBVIOUS
<1>7. CASE EarlyAnswer(p) # "none"
  <2> HIDE DEF p
  <2>1. PICK out : out = EarlyAnswer(p)
    OBVIOUS
  <2>2. out # "pass" /\ out # "bad-signature"
    BY <2>1 DEF EarlyAnswer
  <2>3. PICK sound \in BOOLEAN : sound = Genuine(p)
    BY DEF Genuine
  <2>4. PICK held \in BOOLEAN : held = FALSE
    OBVIOUS
  <2> DEFINE r == Decided(out, q.tok, sound, clock, held)
  <2>5. viewer' = [viewer EXCEPT ![v] = r] /\ jwks' = jwks
    BY <1>5, <1>6, <1>7, <2>1, <2>3, <2>4
  <2>6. DoneOK(r)
    BY <1>4, <2>2, <2>4, DecidedRight
  <2> HIDE DEF r
  <2>7. \A e \in Viewers : ViewerOK(viewer'[e], jwks)
    BY <1>4, <2>5, <2>6 DEF ViewerOK, EdgeInv
  <2>8. stored' \in [full : BOOLEAN, keys : SUBSET SigningKeys, at : Nat]
    BY <1>2 DEF EdgeInv
  <2> QED  BY <1>2, <1>4, <2>5, <2>7, <2>8, SameKeys
<1>8. CASE EarlyAnswer(p) = "none"
  <2>1. TokenCookie(q.cookies) \notin {NoCookie, Empty}
    BY <1>6, <1>8 DEF EarlyAnswer
  <2>2. q.cookies \in GoodCookies
    BY <1>3, <2>1, CookiesRead
  <2>3. p \in Waiting
    BY <1>3, <1>4, <2>2 DEF Waiting
  <2> HIDE DEF p
  <2>4. p.gen <= jwks.gen
    BY <1>4, <1>6 DEF CacheOK, Caches
  <2>5. Unserved(p)
    BY <1>6 DEF Unserved
  <2> QED  BY <1>2, <1>5, <1>8, <2>3, <2>4, <2>5, LookupKeeps
<1> QED  BY <1>7, <1>8

LEMMA AgainKeeps ==
    ASSUME EdgeInv, NEW v \in Viewers, Again(v)
    PROVE  EdgeInv'
<1>1. WaitingOK(viewer[v], jwks) /\ viewer[v].pc = "again"
  BY WaitingSorts DEF EdgeInv, Again
<1>2. PICK q \in Waiting : q = viewer[v] /\ q.gen <= jwks.gen /\ Unserved(q)
  BY <1>1 DEF WaitingOK
<1>3. Lookup(v, q) /\ UNCHANGED <<kind, clock, born, retired, stored>>
  BY <1>2 DEF Again
<1> QED  BY <1>2, <1>3, LookupKeeps

LEMMA ServeKeeps ==
    ASSUME EdgeInv, NEW v \in Viewers, Serve(v)
    PROVE  EdgeInv'
<1>1. WaitingOK(viewer[v], jwks) /\ viewer[v].pc = "fetching"
  BY WaitingSorts DEF EdgeInv, Serve
<1>2. PICK q \in Waiting : q = viewer[v]
  BY <1>1 DEF WaitingOK
<1>3. UNCHANGED <<kind, clock, born, retired, jwks, stored>>
  BY DEF Serve
<1>4. PoolOK /\ PoolOK' /\ viewer = [e \in Viewers |-> viewer[e]] /\ CacheOK(jwks)
      /\ stored' \in [full : BOOLEAN, keys : SUBSET SigningKeys, at : Nat]
  BY <1>3 DEF EdgeInv, PoolOK
<1>5. CASE viewer' = [viewer EXCEPT ![v] = [@ EXCEPT !.pc = "served", !.keys = Published]]
  <2> DEFINE r == [q EXCEPT !.pc = "served", !.keys = Published]
  <2>1. viewer' = [viewer EXCEPT ![v] = r]
    BY <1>2, <1>5
  <2>2. r \in Waiting /\ r.pc = "served" /\ r.keys = Published /\ r.t0 = q.t0 /\ r.gen = q.gen
    BY DEF Waiting, Published
  <2> HIDE DEF r
  <2>3. WaitingOK(r, jwks)
    BY <1>1, <1>2, <2>2 DEF WaitingOK, Fresh, Complete, Published
  <2>4. \A e \in Viewers : ViewerOK(viewer'[e], jwks)
    BY <1>4, <2>1, <2>3 DEF ViewerOK, EdgeInv
  <2> QED  BY <1>3, <1>4, <2>1, <2>4, SameKeys
<1>6. CASE \E f \in EdgeFaults \cap {"fetch", "body"} : viewer' = [viewer EXCEPT ![v].pc = f]
  <2>1. PICK f \in {"fetch", "body"} : viewer' = [viewer EXCEPT ![v].pc = f]
    BY <1>6
  <2> DEFINE r == [q EXCEPT !.pc = f]
  <2>2. viewer' = [viewer EXCEPT ![v] = r]
    BY <1>2, <2>1
  <2>3. r \in Waiting /\ r.pc = f /\ r.keys = q.keys /\ r.t0 = q.t0 /\ r.gen = q.gen /\ r.tok = q.tok
    BY DEF Waiting
  <2> HIDE DEF r
  <2>4. WaitingOK(r, jwks)
    BY <1>1, <1>2, <2>3 DEF WaitingOK, Unserved
  <2>5. \A e \in Viewers : ViewerOK(viewer'[e], jwks)
    BY <1>4, <2>2, <2>4 DEF ViewerOK, EdgeInv
  <2> QED  BY <1>3, <1>4, <2>2, <2>5, SameKeys
<1> QED  BY <1>5, <1>6 DEF Serve

LEMMA LandKeeps ==
    ASSUME EdgeInv, NEW v \in Viewers, Land(v)
    PROVE  EdgeInv'
<1>1. WaitingOK(viewer[v], jwks) /\ viewer[v].pc = "served"
  BY WaitingSorts DEF EdgeInv, Land
<1>2. PICK q \in Waiting : q = viewer[v] /\ q.pc = "served" /\ WaitingOK(q, jwks)
  BY <1>1 DEF WaitingOK
<1>3. /\ Conclude(v, q, Verdict(q, q.keys), Fill(q, q.keys)) /\ Persist(q.keys)
      /\ UNCHANGED <<kind, clock, born, retired>>
  BY <1>2 DEF Land
<1>4. /\ PoolOK /\ clock \in Nat /\ q.t0 \in Nat /\ q.t0 <= clock /\ q.keys \in SUBSET SigningKeys
      /\ q.tok \in Token /\ q.host \in Hosts /\ q.cookies \in GoodCookies
      /\ Fresh(q.keys, q.t0) /\ Complete(q.keys, q.t0)
  BY <1>2 DEF EdgeInv, PoolOK, WaitingOK, Waiting
<1>5. PICK c : c = Fill(q, q.keys)
  OBVIOUS
<1>6. CacheOK(c) /\ q.gen <= c.gen /\ \A e \in Viewers : ViewerOK(viewer[e], c)
  BY <1>2, <1>4, <1>5, FillRight
<1>7. PICK out : out = Verdict(q, q.keys)
  OBVIOUS
<1>8. /\ out = "pass" <=> Genuine(q) /\ q.tok.kid \in q.keys
      /\ kind = "issuer" /\ out = "invalid_signature" => q.tok.kid \notin q.keys \/ ~q.tok.genuine
  BY <1>4, <1>7, VerdictRight
<1>9. out = "pass" => retired[q.tok.kid] = Absent \/ q.t0 - retired[q.tok.kid] < JwksTtl
  <2>1. SUFFICES ASSUME out = "pass", retired[q.tok.kid] # Absent
                 PROVE  q.t0 - retired[q.tok.kid] < JwksTtl
    OBVIOUS
  <2>2. q.t0 <= retired[q.tok.kid] /\ retired[q.tok.kid] \in Nat
    BY <1>4, <1>8, <2>1 DEF Fresh, PoolOK
  <2> QED  BY <1>4, <2>2, EdgeAssumption
<1>10. q.tok.kid \in Published /\ born[q.tok.kid] + JwksTtl <= q.t0 /\ Genuine(q) =>
          out # "bad-signature"
  <2>1. SUFFICES ASSUME q.tok.kid \in Published, born[q.tok.kid] + JwksTtl <= q.t0, Genuine(q)
                 PROVE  out = "pass"
    OBVIOUS
  <2>2. born[q.tok.kid] \in Nat
    BY <1>4, <2>1 DEF Published, PoolOK
  <2>3. born[q.tok.kid] < q.t0
    BY <1>4, <2>1, <2>2, EdgeAssumption
  <2> QED  BY <1>4, <1>8, <2>1, <2>3 DEF Complete
<1>11. stored' \in [full : BOOLEAN, keys : SUBSET SigningKeys, at : Nat]
  <2>1. stored' = stored \/ stored' = [full |-> TRUE, keys |-> q.keys, at |-> clock]
    BY <1>3 DEF Persist
  <2>2. stored \in [full : BOOLEAN, keys : SUBSET SigningKeys, at : Nat]
    BY DEF EdgeInv
  <2>3. [full |-> TRUE, keys |-> q.keys, at |-> clock]
          \in [full : BOOLEAN, keys : SUBSET SigningKeys, at : Nat]
    BY <1>4
  <2> QED  BY <2>1, <2>2, <2>3
<1> QED  BY <1>3, <1>4, <1>5, <1>6, <1>7, <1>8, <1>9, <1>10, <1>11, ConcludeKeeps DEF Unserved

LEMMA FallBackKeeps ==
    ASSUME EdgeInv, NEW v \in Viewers, FallBack(v)
    PROVE  EdgeInv'
<1>1. /\ WaitingOK(viewer[v], jwks) /\ viewer[v].pc \in {"fetch", "body"} /\ kind = "issuer"
      /\ UNCHANGED <<kind, clock, born, retired, stored>>
  BY WaitingSorts DEF EdgeInv, FallBack
<1>2. PICK w \in Waiting : w = viewer[v] /\ WaitingOK(w, jwks)
  BY <1>1 DEF WaitingOK
<1> DEFINE q == [w EXCEPT !.keys = stored.keys]
<1>3. Conclude(v, q, Verdict(q, q.keys), Fill(q, q.keys))
  BY <1>2 DEF FallBack
<1>4. /\ stored \in [full : BOOLEAN, keys : SUBSET SigningKeys, at : Nat]
      /\ stored' \in [full : BOOLEAN, keys : SUBSET SigningKeys, at : Nat]
  BY <1>1 DEF EdgeInv
<1>5. /\ q \in Waiting /\ q.keys = stored.keys /\ q.gen = w.gen /\ q.t0 = w.t0 /\ q.tok = w.tok
      /\ q.host = w.host /\ q.cookies = w.cookies
  BY <1>4 DEF Waiting
<1> HIDE DEF q
<1>6. /\ PoolOK /\ q.t0 <= clock /\ q.keys \in SUBSET SigningKeys
      /\ q.tok \in Token /\ q.host \in Hosts /\ q.cookies \in GoodCookies
  BY <1>2, <1>5 DEF EdgeInv, WaitingOK, Waiting
<1>7. PICK c : c = Fill(w, q.keys)
  OBVIOUS
<1>8. CacheOK(c) /\ w.gen <= c.gen /\ \A e \in Viewers : ViewerOK(viewer[e], c)
  BY <1>1, <1>2, <1>6, <1>7, FillRight
<1>9. c = Fill(q, q.keys)
  BY <1>5, <1>7 DEF Fill
<1>10. PICK out : out = Verdict(q, q.keys)
  OBVIOUS
<1>11. /\ out = "pass" <=> Genuine(q) /\ q.tok.kid \in q.keys
       /\ kind = "issuer" /\ out = "invalid_signature" => q.tok.kid \notin q.keys \/ ~q.tok.genuine
  BY <1>6, <1>10, VerdictRight
<1> QED
  BY <1>1, <1>3, <1>4, <1>5, <1>6, <1>8, <1>9, <1>10, <1>11, ConcludeKeeps DEF Unserved

LEMMA FailClosedKeeps ==
    ASSUME EdgeInv, NEW v \in Viewers, FailClosed(v)
    PROVE  EdgeInv'
<1>1. /\ WaitingOK(viewer[v], jwks) /\ viewer[v].pc \in {"fetch", "body"}
      /\ UNCHANGED <<kind, clock, born, retired, stored>>
  BY WaitingSorts DEF EdgeInv, FailClosed
<1>2. PICK q \in Waiting : q = viewer[v] /\ WaitingOK(q, jwks) /\ Unserved(q)
  BY <1>1 DEF WaitingOK
<1> DEFINE o == CASE kind \in {"edge", "shared"} -> "login"
                  [] kind = "issuer" /\ q.pc = "fetch" -> ToIssuerError("fetch")
                  [] OTHER -> "malformed_token"
           d == IF kind = "shared" THEN [jwks EXCEPT !.full = FALSE, !.keys = {}, !.at = 0] ELSE jwks
<1>3. Conclude(v, q, o, d)
  BY <1>2 DEF FailClosed
<1>4. o # "pass" /\ o # "bad-signature"
  BY DEF ToIssuerError
<1>5. jwks \in Caches /\ CacheOK(jwks) /\ PoolOK /\ clock \in Nat
  BY DEF EdgeInv, CacheOK, PoolOK
<1>6. /\ d \in Caches /\ d.gen = jwks.gen
      /\ kind # "shared" => d = jwks
      /\ kind = "shared" => d.at = 0 /\ d.keys = {} /\ ~d.full
  BY <1>5 DEF Caches
<1> HIDE DEF o, d
<1>7. CacheOK(d)
  BY <1>5, <1>6 DEF CacheOK, Fresh
<1>8. \A e \in Viewers : ViewerOK(viewer[e], d)
  BY <1>6 DEF EdgeInv, ViewerOK, WaitingOK
<1>9. ~(Genuine(q) /\ q.tok.kid \in q.keys)
  BY <1>2 DEF Unserved, Genuine
<1>10. stored' \in [full : BOOLEAN, keys : SUBSET SigningKeys, at : Nat]
  BY <1>1 DEF EdgeInv
<1>11. q.t0 <= clock /\ q.gen <= d.gen
  BY <1>2, <1>6 DEF WaitingOK
<1> QED
  BY <1>1, <1>2, <1>3, <1>4, <1>7, <1>8, <1>9, <1>10, <1>11, ConcludeKeeps

\* What a process knew as of a time gone by, it still knows as of then.
LEMMA RotateKeeps ==
    ASSUME EdgeInv, Rotate
    PROVE  EdgeInv'
<1>1. PoolOK /\ clock \in Nat /\ UNCHANGED <<kind, clock, jwks, stored, viewer>>
  BY DEF EdgeInv, PoolOK, Rotate
<1>2. PICK k \in SigningKeys :
        \/ born[k] = Absent /\ born' = [born EXCEPT ![k] = clock] /\ UNCHANGED retired
        \/ /\ k \in Published
           /\ retired' = [retired EXCEPT ![k] = clock] /\ UNCHANGED born
  BY DEF Rotate
<1>3. PoolOK'
  BY <1>1, <1>2 DEF PoolOK, Absent
<1>4. ASSUME NEW keys \in SUBSET SigningKeys, NEW t \in Nat, t <= clock, Fresh(keys, t)
      PROVE  \A e \in keys : retired'[e] = Absent \/ t <= retired'[e]
  BY <1>1, <1>2, <1>4 DEF PoolOK, Fresh
<1>5. ASSUME NEW keys \in SUBSET SigningKeys, NEW t \in Nat, t <= clock, Complete(keys, t)
      PROVE  \A e \in Published' : born'[e] < t => e \in keys
  <2>1. SUFFICES ASSUME NEW e \in Published', born'[e] < t PROVE e \in keys
    OBVIOUS
  <2>2. e \in Published /\ born[e] < t
    <3>1. CASE born[k] = Absent /\ born' = [born EXCEPT ![k] = clock] /\ UNCHANGED retired
      <4>1. e # k
        BY <1>1, <1>5, <2>1, <3>1 DEF PoolOK
      <4> QED  BY <1>1, <2>1, <3>1, <4>1 DEF PoolOK, Published
    <3>2. CASE retired' = [retired EXCEPT ![k] = clock] /\ UNCHANGED born
      BY <1>1, <2>1, <3>2 DEF PoolOK, Published, Absent
    <3> QED  BY <1>2, <3>1, <3>2
  <2> QED  BY <1>5, <2>2 DEF Complete
<1>6. CacheOK(jwks)'
  <2>1. jwks.keys \in SUBSET SigningKeys /\ jwks.at \in Nat /\ jwks.at <= clock
    BY DEF EdgeInv, CacheOK, Caches
  <2>2. kind \in {"edge", "shared"} => Fresh(jwks.keys, jwks.at)'
    BY <1>1, <1>4, <2>1 DEF EdgeInv, CacheOK, Fresh
  <2>3. kind = "shared" /\ jwks.full => Complete(jwks.keys, jwks.at)'
    BY <1>1, <1>5, <2>1 DEF EdgeInv, CacheOK, Complete
  <2> QED  BY <1>1, <2>1, <2>2, <2>3 DEF EdgeInv, CacheOK
<1>7. ASSUME NEW e \in Viewers PROVE ViewerOK(viewer[e], jwks)'
  <2>1. CASE WaitingOK(viewer[e], jwks)
    <3>1. PICK q \in Waiting : q = viewer[e] /\ q.t0 \in Nat /\ q.t0 <= clock /\ q.keys \in SUBSET SigningKeys
      BY <2>1 DEF WaitingOK, Waiting
    <3>2. q.pc = "served" => Fresh(q.keys, q.t0)' /\ Complete(q.keys, q.t0)'
      BY <1>4, <1>5, <2>1, <3>1 DEF WaitingOK, Fresh, Complete
    <3>3. WaitingOK(q, jwks)'
      BY <1>1, <2>1, <3>1, <3>2 DEF WaitingOK, Unserved
    <3> QED  BY <1>1, <3>1, <3>3 DEF ViewerOK
  <2> QED  BY <1>1, <2>1 DEF EdgeInv, ViewerOK, DoneOK
<1> QED  BY <1>1, <1>3, <1>6, <1>7 DEF EdgeInv

LEMMA EdgeTickKeeps ==
    ASSUME EdgeInv, EdgeTick
    PROVE  EdgeInv'
<1>1. clock \in Nat /\ clock' = clock + 1 /\ UNCHANGED <<kind, born, retired, jwks, stored, viewer>>
  BY DEF EdgeInv, PoolOK, EdgeTick
<1>2. PoolOK'
  BY <1>1 DEF EdgeInv, PoolOK, Absent
<1>3. CacheOK(jwks)'
  BY <1>1 DEF EdgeInv, CacheOK, Caches, Fresh, Complete, Published
<1>4. ASSUME NEW e \in Viewers PROVE ViewerOK(viewer[e], jwks)'
  <2>1. CASE WaitingOK(viewer[e], jwks)
    <3>1. viewer[e].t0 \in Nat
      BY <2>1 DEF WaitingOK, Waiting
    <3> QED  BY <1>1, <2>1, <3>1 DEF ViewerOK, WaitingOK, Fresh, Complete, Published, Unserved
  <2> QED  BY <1>1, <2>1 DEF EdgeInv, ViewerOK, DoneOK
<1> QED  BY <1>1, <1>2, <1>3, <1>4 DEF EdgeInv

LEMMA EdgeInvInit ==
    ASSUME EdgeInit
    PROVE  EdgeInv
<1>1. PoolOK
  BY EdgeAssumption DEF EdgeInit, PoolOK, Absent
<1>2. CacheOK(jwks) /\ stored \in [full : BOOLEAN, keys : SUBSET SigningKeys, at : Nat]
  BY <1>1 DEF EdgeInit, CacheOK, Caches, Fresh, NoSet
<1>3. viewer = [v \in Viewers |-> viewer[v]] /\ \A v \in Viewers : viewer[v] \in {Unasked, Away}
  BY DEF EdgeInit
<1> QED  BY <1>1, <1>2, <1>3 DEF EdgeInv, ViewerOK

LEMMA EdgeInvStep ==
    ASSUME EdgeInv, [EdgeNext]_edgeVars
    PROVE  EdgeInv'
<1>1. ASSUME NEW v \in Viewers,
             Ask(v) \/ Again(v) \/ Serve(v) \/ Land(v) \/ FallBack(v) \/ FailClosed(v)
      PROVE  EdgeInv'
  BY <1>1, AskKeeps, AgainKeeps, ServeKeeps, LandKeeps, FallBackKeeps, FailClosedKeeps
<1>2. CASE UNCHANGED edgeVars
  BY <1>2 DEF edgeVars, EdgeInv, PoolOK, CacheOK, ViewerOK, WaitingOK, DoneOK, Fresh, Complete,
              Published, Unserved
<1> QED  BY <1>1, <1>2, RotateKeeps, EdgeTickKeeps DEF EdgeNext

LEMMA DoneIsRight ==
    ASSUME EdgeInv
    PROVE  AdmitsExactlyGenuine /\ KeysKeepUp
<1>1. ASSUME NEW v \in Judged PROVE DoneOK(viewer[v])
  BY DEF Judged, EdgeInv, ViewerOK, WaitingOK, Waiting, Unasked, Away
<1> QED
  BY <1>1 DEF AdmitsExactlyGenuine, KeysKeepUp, NoLongRetiredKey, RotationHeals, DoneOK

\* Every verifier (check-auth of either edge, the issuer and the multi-pool verifier)
\* admits a request exactly when its token is genuine and it held the token's key.
THEOREM AdmitsGenuine == EdgeSpec => []AdmitsExactlyGenuine
<1>1. EdgeSpec => []EdgeInv
  BY EdgeInvInit, EdgeInvStep, PTL DEF EdgeSpec
<1> QED  BY <1>1, DoneIsRight, PTL

\* The key caches of both edges keep up with the pool's rotation to within a TTL,
\* however fetches overlap and however long the answers take.
THEOREM KeysFollowPool == EdgeSpec => []KeysKeepUp
<1>1. EdgeSpec => []EdgeInv
  BY EdgeInvInit, EdgeInvStep, PTL DEF EdgeSpec
<1> QED  BY <1>1, DoneIsRight, PTL

==============================================================================
