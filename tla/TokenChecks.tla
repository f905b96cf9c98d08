----------------------------- MODULE TokenChecks -----------------------------
(***************************************************************************)
(* What the four token verifiers of vestibulum decide about one request,   *)
(* given the signing keys they hold: the single-site check-auth, the       *)
(* shared-distribution check-auth, the generic issuer verifier and the     *)
(* multi-pool verifier.  A token is its checked fields; a signature is     *)
(* genuine or not.  Hosts and cookie headers are their parsed parts.       *)
(***************************************************************************)
EXTENDS Integers, Sequences

CONSTANTS
    SigningKeys, \* signing keys of the pool, by kid
    Tenants,     \* tenant labels
    Grace,       \* graceSeconds / clockSkewSec
    NoTenantId   \* a host or a token without a tenant

ASSUME TokenAssumption ==
    /\ SigningKeys # {} /\ "none" \notin SigningKeys
    /\ Tenants # {} /\ NoTenantId \notin Tenants
    /\ Grace \in Nat

Absent == -1
NoCookie == "no-cookie"

(* The name or the value of a cookie that has none.                        *)
Empty == "empty"

(* The decorations a Host header may carry; normalisation removes them.    *)
Hosts == [label : Tenants, labels : 0 .. 2, parent : {"own", "other"},
          form : {"plain", "port", "dot", "dotport", "upper"}, shaped : BOOLEAN]

GoodHost(t) == [label |-> t, labels |-> 1, parent |-> "own", form |-> "plain", shaped |-> TRUE]

(* lowercase, strip the port, strip the trailing dot: every form names the *)
(* same labels.                                                            *)
NormalizeHost(h) == [h EXCEPT !.form = "plain"]

(* The label in front of the parent, if there is exactly one and it fits   *)
(* the tenant pattern.                                                     *)
SharedSubdomain(h) ==
    IF h.form = "plain" /\ h.parent = "own" /\ h.labels = 1 /\ h.shaped
    THEN h.label ELSE NoTenantId

ExtractTenantSubdomain(h) == SharedSubdomain(NormalizeHost(h))

(* A Cookie header is a sequence of segments; the first one that carries   *)
(* the name wins, and one without a name is skipped.                       *)
Carrying(segments) == {i \in DOMAIN segments : segments[i].name = "id_token"}

First(S) == CHOOSE i \in S : \A j \in S : i <= j

ParseCookieSegment(segments) ==
    IF Carrying(segments) = {} THEN NoCookie
    ELSE segments[First(Carrying(segments))].value

(* The edge handler over all Cookie headers, the first with a value wins.  *)
GetCookieValue(headers) ==
    LET found == {h \in DOMAIN headers : ParseCookieSegment(headers[h]) # NoCookie} IN
    IF found = {} THEN NoCookie ELSE ParseCookieSegment(headers[First(found)])

(* The shared edge walks all segments of all headers in one loop.          *)
ExtractTokenFromCookies(headers) ==
    LET found == {h \in DOMAIN headers : Carrying(headers[h]) # {}}
        header == headers[First(found)]
    IN  IF found = {} THEN NoCookie ELSE header[First(Carrying(header))].value

----------------------------------------------------------------------------
(* A token: who signed it and when it expires, and the claims each         *)
(* verifier looks at.  Garbage is a string that is not three parts.        *)
Token == [form : {"jwt", "garbage"}, kid : SigningKeys \cup {"none"}, genuine : BOOLEAN,
          alg : {"RS256", "ES256", "EdDSA"}, iss : {"own", "other"},
          aud : {"own", "other", "none"}, use : {"id", "access"},
          tenant : Tenants \cup {NoTenantId}, exp : Int, nbf : Int]

Expired(tok, t) == tok.exp # Absent /\ t > tok.exp + Grace

NotYet(tok, t) == t + Grace < tok.nbf

(* aws-jwt-verify, as the code relies on it: signature, then issuer,       *)
(* audience (when pinned) and dates.  A token without exp never expires.   *)
LibraryVerify(tok, keys, checkAud, t) ==
    CASE tok.form = "garbage" -> "malformed"
      [] tok.kid = "none" -> "kid"
      [] tok.kid \notin keys -> "kid"
      [] ~tok.genuine -> "signature"
      [] tok.iss # "own" -> "issuer"
      [] checkAud /\ tok.aud # "own" -> "audience"
      [] Expired(tok, t) -> "expired"
      [] NotYet(tok, t) -> "not-before"
      [] OTHER -> "ok"

(* check-auth of the single site: ID tokens of the website client, RS256   *)
(* only; anything else redirects to the login page.                        *)
EdgeVerify(tok, keys, t) ==
    IF /\ LibraryVerify(tok, keys, TRUE, t) = "ok"
       /\ tok.alg = "RS256"
       /\ tok.use = "id"
    THEN "pass" ELSE "login"

(* verifyJwt of the shared distribution: alg and kid are read before the   *)
(* signature, and exp must be there.                                       *)
VerifyJwt(tok, keys, t) ==
    CASE tok.form = "garbage" -> "malformed"
      [] tok.alg # "RS256" -> "alg"
      [] tok.kid = "none" -> "kid-missing"
      [] tok.kid \notin keys -> "kid"
      [] LibraryVerify(tok, keys, FALSE, t) # "ok" -> LibraryVerify(tok, keys, FALSE, t)
      [] tok.exp = Absent -> "exp-missing"
      [] OTHER -> "ok"

(* The response is chosen by searching the error's message: the word       *)
(* "missing" contains "iss", so the two errors about a missing field are   *)
(* reported as a wrong issuer; the library's message about a token that is *)
(* not three parts names the signature.                                    *)
MapVerifyErrorToResponse(err) ==
    CASE err \in {"issuer", "kid-missing", "exp-missing"} -> "wrong-iss"
      [] err = "expired" -> "expired"
      [] err \in {"alg", "kid", "signature", "malformed"} -> "bad-signature"
      [] OTHER -> "login"

(* Mutant: the structural binding of token and host is not checked.        *)
SharedVerifyUnbound(tok, keys, host, t) ==
    LET err == VerifyJwt(tok, keys, t) IN
    CASE err # "ok" -> MapVerifyErrorToResponse(err)
      [] tok.use # "id" -> "wrong-token-use"
      [] tok.tenant = NoTenantId -> "no-tenant-claim"
      [] tok.aud = "none" -> "no-aud"
      [] OTHER -> "pass"

(* The shared check-auth after the keys arrived: the token, its use, the   *)
(* structural binding of token and host, the presence of an audience.      *)
SharedVerify(tok, keys, host, t) ==
    LET err == VerifyJwt(tok, keys, t) IN
    CASE err # "ok" -> MapVerifyErrorToResponse(err)
      [] tok.use # "id" -> "wrong-token-use"
      [] tok.tenant = NoTenantId -> "no-tenant-claim"
      [] tok.tenant # ExtractTenantSubdomain(host) -> "tenant-mismatch"
      [] tok.aud = "none" -> "no-aud"
      [] OTHER -> "pass"

(* The gates of the generic issuer verifier, after the library's checks.   *)
CustomJwtCheck(tok) ==
    CASE tok.exp = Absent -> "missing_exp"
      [] tok.alg \notin {"RS256", "ES256"} -> "disallowed_alg"
      [] tok.use # "id" -> "wrong_token_use"
      [] OTHER -> "pass"

ToIssuerError(err) ==
    CASE err = "expired" -> "expired"
      [] err = "not-before" -> "not_yet_valid"
      [] err = "issuer" -> "unknown_issuer"
      [] err = "audience" -> "wrong_audience"
      [] err \in {"kid", "signature", "fetch"} -> "invalid_signature"
      [] OTHER -> "malformed_token"

IssuerVerify(tok, keys, t) ==
    LET err == LibraryVerify(tok, keys, TRUE, t) IN
    IF err = "ok" THEN CustomJwtCheck(tok) ELSE ToIssuerError(err)

(* The multi-pool verifier, configured with one pool: the unverified       *)
(* issuer selects the pool whose verifier then decides; a kid that is not  *)
(* in the JWKS is no signature error for mapError.                         *)
MapPoolError(err) ==
    CASE err = "expired" -> "expired"
      [] err = "signature" -> "invalid_signature"
      [] OTHER -> "malformed_token"

PoolsVerify(tok, keys, t) ==
    CASE tok.form = "garbage" -> "malformed_token"
      [] tok.iss # "own" -> "unknown_issuer"
      [] LibraryVerify(tok, keys, FALSE, t) # "ok" -> MapPoolError(LibraryVerify(tok, keys, FALSE, t))
      [] tok.use # "id" -> "wrong_token_use"
      [] tok.aud # "own" -> "wrong_client_id"
      [] OTHER -> "pass"

=============================================================================
