----------------------------- MODULE Discovery -----------------------------
(***************************************************************************)
(* The discovery probes: probeOidcIssuer and parseSamlMetadata.  A probe   *)
(* checks the URL, resolves its host, refuses it if any answer is private, *)
(* dials the first answer, and reads a capped body under a timer; then it  *)
(* judges the document.  The name server may answer every lookup anew, and *)
(* the server may stall, break off, redirect or send without end.          *)
(***************************************************************************)
EXTENDS Addresses, Integers

CONSTANTS Probes,      \* the probes that may run: a subset of {"oidc", "samlUrl", "samlXml"}
          Urls,        \* URL shapes tried: a subset of UrlShapes
          Answers,     \* what a lookup may return: sequences of Texts
          MaxBody,     \* MAX_BODY_BYTES / DEFAULT_MAX_BYTES, in chunks
          Sizes,       \* body sizes offered, in chunks
          OidcDocs,    \* configurations an issuer may serve
          SamlDocs     \* metadata documents, served or pasted

UrlShapes == {"good", "tooLong", "malformed", "http", "credentials"}

(***************************************************************************)
(* The documents.  An OIDC configuration is judged field by field.         *)
(***************************************************************************)
PERMITTED_ALGS == {"RS256", "RS384", "RS512", "ES256", "ES384", "ES512"}

OidcVerdict(d) ==
    CASE ~d.json -> "invalid_json"
      [] d.json /\ ~d.complete -> "invalid_json"
      [] d.json /\ d.complete /\ ~d.sameIssuer -> "issuer_mismatch"
      [] OTHER ->
           CASE "code" \notin d.responseTypes -> "unsupported_alg"
             [] "code" \in d.responseTypes
                  /\ (d.algs = {} \/ ~(d.algs \subseteq PERMITTED_ALGS)) -> "unsupported_alg"
             [] OTHER -> IF "client_secret_post" \in d.authMethods
                         THEN "metadata" ELSE "unsupported_auth_method"

(***************************************************************************)
(* A SAML document: whether it has a DOCTYPE and parses, the entities it   *)
(* holds in document order (the root itself, or the members of an          *)
(* aggregate), the other elements that carry an identifier, and the        *)
(* signatures, each with the entity it sits in (0 for elsewhere).  An      *)
(* element has an identifier, which another may repeat, and a content; a   *)
(* reference has the identifier it names and the content its digest was    *)
(* taken of when its signer made the signature (intact, if nobody has      *)
(* touched it since).                                                      *)
(***************************************************************************)
NoDoc == [none |-> TRUE]
NoId == "no id"

Entities ==
    [id : STRING, content : STRING, named : BOOLEAN, idpSso : BOOLEAN, bindings : SUBSET STRING,
     certs : SUBSET [parses : BOOLEAN, use : STRING, notAfter : Int],
     validUntil : STRING,
     cacheDuration : SUBSET [days : Nat, hours : Nat, minutes : Nat, seconds : Nat]]

Signatures ==
    [parent : Nat, refs : Seq([uri : STRING, digest : STRING]), wellFormed : BOOLEAN, intact : BOOLEAN]

SamlDocuments ==
    [doctype : BOOLEAN, parses : BOOLEAN, entities : Seq(Entities),
     others : Seq([id : STRING, content : STRING]), signatures : Seq(Signatures)]

ASSUME DiscoveryAssumption ==
    /\ Probes \subseteq {"oidc", "samlUrl", "samlXml"} /\ Urls \subseteq UrlShapes
    /\ Answers \subseteq Seq(Texts)
    /\ MaxBody \in Nat /\ Sizes \subseteq Nat
    /\ SamlDocs \subseteq SamlDocuments

\* The platform's resolver spells an address as an address; another one may
\* return anything else.
ASSUME LookupAssumption ==
    \A answer \in Answers : \A i \in DOMAIN answer : IsIP(answer[i]) \/ answer[i] = NotAnAddress

FirstEntity(d) == IF d.entities = <<>> THEN 0 ELSE 1

\* The elements a reference may mean; where several carry one identifier,
\* xml-crypto refuses to choose.
NamedEntities(d, uri) == {i \in DOMAIN d.entities : d.entities[i].id = uri}
NamedOthers(d, uri) == {i \in DOMAIN d.others : d.others[i].id = uri}
Ambiguous(d, uri) ==
    \/ \E i, j \in NamedEntities(d, uri) : i # j
    \/ \E i, j \in NamedOthers(d, uri) : i # j
    \/ NamedEntities(d, uri) # {} /\ NamedOthers(d, uri) # {}

\* The digest of a reference is that of the element it means; one that names
\* nothing is over the whole document.
DigestMatches(d, r) ==
    \/ r.uri = NoId
    \/ \E i \in NamedEntities(d, r.uri) : d.entities[i].content = r.digest
    \/ \E i \in NamedOthers(d, r.uri) : d.others[i].content = r.digest

\* loadSignature and checkSignature, over the whole document.
CheckSignature(d, s) ==
    CASE ~s.wellFormed \/ (\E k \in DOMAIN s.refs : Ambiguous(d, s.refs[k].uri)) -> "throws"
      [] OTHER -> IF s.intact /\ \A k \in DOMAIN s.refs : DigestMatches(d, s.refs[k])
                  THEN "valid" ELSE "invalid"

\* The signature looked at: the first that sits directly in the entity.
DirectSignatures(d) == {i \in DOMAIN d.signatures : d.signatures[i].parent = FirstEntity(d)}
DirectSignature(d) ==
    d.signatures[CHOOSE i \in DirectSignatures(d) : \A j \in DirectSignatures(d) : i <= j]

\* The second layer of the defence is missing.
SignatureStatusUnmatched(d) ==
    CASE d.signatures = <<>> -> "missing_signature"
      [] d.signatures # <<>> /\ DirectSignatures(d) = {} -> "wrapping_attack_blocked"
      [] OTHER -> IF CheckSignature(d, DirectSignature(d)) = "valid"
                  THEN "signed" ELSE "invalid_signature"

SignatureStatus(d) ==
    CASE d.signatures = <<>> -> "missing_signature"
      [] d.signatures # <<>> /\ DirectSignatures(d) = {} -> "wrapping_attack_blocked"
      [] OTHER ->
           LET s  == DirectSignature(d)
               id == d.entities[1].id
           IN  CASE CheckSignature(d, s) = "throws" -> "malformed_signature"
                 [] CheckSignature(d, s) = "invalid" -> "invalid_signature"
                 [] CheckSignature(d, s) = "valid" ->
                      CASE Len(s.refs) # 1 -> "malformed_signature"
                        [] Len(s.refs) = 1 /\ s.refs[1].uri = NoId -> "malformed_signature"
                        [] OTHER -> IF id # NoId /\ s.refs[1].uri = id
                                    THEN "signed" ELSE "wrapping_attack_blocked"

\* A certificate without use counts as a signing one too; one that does not
\* parse is passed over.
Signing(certs) == {c \in certs : c.parses /\ c.use # "encryption"}

\* Redirect before POST.
PickSsoEndpoint(bindings) ==
    CASE "HTTP-Redirect" \in bindings -> "HTTP-Redirect"
      [] "HTTP-Redirect" \notin bindings /\ "HTTP-POST" \in bindings -> "HTTP-POST"
      [] OTHER -> "unsupported_binding"

\* Milliseconds of an xs:duration written with days, hours, minutes and
\* seconds; one with no component, or only zeros, is refused (0 here).
ParseXsDuration(x) ==
    x.days * 86400000 + x.hours * 3600000 + x.minutes * 60000 + x.seconds * 1000

\* validUntil must be a date, which may have passed; cacheDuration, when there
\* is one, a duration of more than nothing.
DatesOK(e) == e.validUntil # "bad" /\ \A x \in e.cacheDuration : ParseXsDuration(x) > 0

SamlVerdict(d, now) ==
    IF d.doctype \/ ~d.parses \/ FirstEntity(d) = 0 THEN "invalid_xml"
    ELSE LET e == d.entities[1]
         IN  CASE ~e.named \/ ~e.idpSso -> "invalid_xml"
               [] e.named /\ e.idpSso /\ PickSsoEndpoint(e.bindings) = "unsupported_binding" ->
                    "unsupported_binding"
               [] OTHER ->
                    CASE Signing(e.certs) = {} -> "no_signing_cert"
                      [] Signing(e.certs) # {} /\ (\A c \in Signing(e.certs) : c.notAfter < now) ->
                           "expired"
                      [] OTHER -> IF DatesOK(e) THEN "metadata" ELSE "invalid_xml"

VARIABLES probe,       \* which probe runs
          url,         \* the shape of the URL it was given
          stage,       \* where it is
          addresses,   \* what its lookup returned
          dialled,     \* the address the connection went to
          timer,       \* "off", "set" or "fired"
          sent, held,  \* chunks the server has to send, chunks the probe holds
          dispatcher,  \* "none", "busy" with an exchange, "idle" or "closed"
          outcome,     \* "none", or how the probe ended
          doc          \* the document it judged

dVars == <<probe, url, stage, addresses, dialled, timer, sent, held, dispatcher, outcome, doc>>

\* The URL checks, in order.  The SAML fetch reports each of them as a
\* blocked destination.
UrlRefusal(p, u) ==
    CASE u = "good" -> "ok"
      [] u # "good" /\ p = "samlUrl" -> "ssrf_blocked_destination"
      [] u = "tooLong" /\ p = "oidc" -> "url_too_long"
      [] u = "malformed" /\ p = "oidc" -> "unreachable"
      [] u = "http" /\ p = "oidc" -> "not_https"
      [] u = "credentials" /\ p = "oidc" -> "url_has_credentials"

Unreachable(p) == IF p = "oidc" THEN "unreachable" ELSE "ssrf_blocked_destination"

DInit ==
    /\ probe \in Probes
    /\ url \in Urls
    /\ stage = "start"
    /\ addresses = <<>>
    /\ dialled = Missing
    /\ timer = "off"
    /\ sent \in Sizes
    /\ held = 0
    /\ dispatcher = "none"
    /\ outcome = "none"
    /\ doc = NoDoc

\* The probe's result is settled and its finally block begins: the timer is off
\* by then, and a dispatcher that was made is to be closed.
Settle(result) ==
    /\ outcome' = result
    /\ timer' = "off"
    /\ stage' = IF dispatcher = "none" THEN "done" ELSE "closing"

\* The exchange is over: answered in full, broken off, aborted or cancelled.
ExchangeOver == dispatcher' = IF dispatcher = "busy" THEN "idle" ELSE dispatcher

CheckUrl ==
    /\ stage = "start"
    /\ probe # "samlXml"
    /\ IF UrlRefusal(probe, url) = "ok"
       THEN stage' = "resolve" /\ UNCHANGED <<timer, outcome>>
       ELSE Settle(UrlRefusal(probe, url))
    /\ UNCHANGED <<probe, url, addresses, dialled, sent, held, dispatcher, doc>>

\* Pasted XML skips the network and is measured at once.
Pasted ==
    /\ stage = "start"
    /\ probe = "samlXml"
    /\ IF sent > MaxBody
       THEN Settle("too_large") /\ UNCHANGED held
       ELSE held' = sent /\ stage' = "judge" /\ UNCHANGED <<timer, outcome>>
    /\ UNCHANGED <<probe, url, addresses, dialled, sent, dispatcher, doc>>

\* The lookup fails or answers; the checks run on the whole answer.
Resolve ==
    /\ stage = "resolve"
    /\ \/ Settle(Unreachable(probe)) /\ UNCHANGED addresses
       \/ \E answer \in Answers :
            /\ addresses' = answer
            /\ CASE answer = <<>> -> Settle(Unreachable(probe))
                 [] answer # <<>> /\ (\E i \in DOMAIN answer : IsPrivateAddress(answer[i])) ->
                      Settle("ssrf_blocked_destination")
                 [] OTHER -> stage' = "connect" /\ UNCHANGED <<timer, outcome>>
    /\ UNCHANGED <<probe, url, dialled, sent, held, dispatcher, doc>>

\* Without the pin fetch asks the name server again.
UnpinnedLookup == {answer[1] : answer \in Answers \ {<<>>}}

\* buildPinnedLookup / makePinnedLookup: whatever the name server would say
\* now, the agent's lookup returns the address that was checked.
PinnedLookup == {addresses[1]}

\* The timer starts and the request goes out on the pinned dispatcher.  Of a
\* text that is no address the OIDC probe makes nothing; the metadata fetch goes
\* out without a dispatcher.
Connect ==
    /\ stage = "connect"
    /\ CASE IsIP(addresses[1]) ->
              /\ dialled' \in PinnedLookup
              /\ timer' = "set" /\ dispatcher' = "busy" /\ stage' = "headers"
              /\ UNCHANGED outcome
         [] ~IsIP(addresses[1]) /\ probe = "oidc" ->
              Settle("unreachable") /\ UNCHANGED <<dialled, dispatcher>>
         [] ~IsIP(addresses[1]) /\ probe # "oidc" ->
              /\ dialled' \in UnpinnedLookup
              /\ timer' = "set" /\ stage' = "headers"
              /\ UNCHANGED <<dispatcher, outcome>>
    /\ UNCHANGED <<probe, url, addresses, sent, held, doc>>

\* The timer aborts the request.  The SAML fetch reads the body under the
\* same timer; an abort there leaves readBodyWithCap as the platform's error.
TimerFires ==
    /\ timer = "set"
    /\ stage \in {"headers", "body"}
    /\ Settle(CASE stage = "body" -> "AbortError"
                [] stage = "headers" /\ probe = "oidc" -> "timeout"
                [] stage = "headers" /\ probe # "oidc" -> "ssrf_blocked_destination")
    /\ ExchangeOver
    /\ UNCHANGED <<probe, url, addresses, dialled, sent, held, doc>>

TimerClearedEarly == "off"

\* The response line arrives, or the connection fails.  runProbe clears the
\* timer here, before the body; fetchMetadataXml keeps it.
TimerAfterHeaders == IF probe = "oidc" THEN "off" ELSE timer

\* A status that is not a success, or no body.
BadStatus(p) == IF p = "oidc" THEN "unreachable" ELSE "invalid_xml"

\* An answer that is refused is not read: its exchange goes on unless it had
\* no body.
Headers ==
    /\ stage = "headers"
    /\ \/ Settle(Unreachable(probe)) /\ ExchangeOver        \* fetch rejects
       \/ /\ Settle("redirect_blocked")                     \* 3xx
          /\ ExchangeOver \/ UNCHANGED dispatcher
       \/ /\ Settle(BadStatus(probe))                       \* other status, no body
          /\ ExchangeOver \/ UNCHANGED dispatcher
       \/ stage' = "body" /\ timer' = TimerAfterHeaders /\ UNCHANGED <<dispatcher, outcome>>
    /\ UNCHANGED <<probe, url, addresses, dialled, sent, held, doc>>

\* A chunk arrives; one chunk too many ends the probe without being kept, and
\* cancels the rest.
Chunk ==
    /\ stage = "body"
    /\ sent > 0
    /\ sent' = sent - 1
    /\ IF held + 1 > MaxBody
       THEN Settle("too_large") /\ ExchangeOver /\ UNCHANGED held
       ELSE held' = held + 1 /\ UNCHANGED <<stage, timer, dispatcher, outcome>>
    /\ UNCHANGED <<probe, url, addresses, dialled, doc>>

\* The stream ends, or breaks off.
BodyEnds ==
    /\ stage = "body"
    /\ sent = 0
    /\ ExchangeOver
    /\ timer' = "off"
    /\ stage' = IF probe = "oidc" \/ dispatcher = "none" THEN "judge" ELSE "closing"
    /\ UNCHANGED <<probe, url, addresses, dialled, sent, held, outcome, doc>>

BodyBreaks ==
    /\ stage = "body"
    /\ Settle(IF probe = "oidc" THEN "unreachable" ELSE "ReadError")
    /\ ExchangeOver
    /\ UNCHANGED <<probe, url, addresses, dialled, sent, held, doc>>

\* The answer nobody reads ends, if its server ever ends it.
UnreadEnds ==
    /\ stage = "closing"
    /\ dispatcher = "busy"
    /\ ExchangeOver
    /\ UNCHANGED <<probe, url, stage, addresses, dialled, timer, sent, held, outcome, doc>>

\* Agent.close waits for the exchange; no timer is left to end that.  With a
\* body in hand the metadata is judged only now.
Close ==
    /\ stage = "closing"
    /\ dispatcher = "idle"
    /\ dispatcher' = "closed"
    /\ stage' = IF outcome = "none" THEN "judge" ELSE "done"
    /\ UNCHANGED <<probe, url, addresses, dialled, timer, sent, held, outcome, doc>>

\* The document that arrived is judged, the issuer's inside the try block whose
\* end closes the dispatcher.
Judge ==
    /\ stage = "judge"
    /\ doc' \in IF probe = "oidc" THEN OidcDocs ELSE SamlDocs
    /\ outcome' = IF probe = "oidc" THEN OidcVerdict(doc') ELSE SamlVerdict(doc', 0)
    /\ stage' = IF dispatcher = "idle" THEN "closing" ELSE "done"
    /\ UNCHANGED <<probe, url, addresses, dialled, timer, sent, held, dispatcher>>

DNext == \/ CheckUrl \/ Pasted \/ Resolve \/ Connect \/ TimerFires \/ Headers
         \/ Chunk \/ BodyEnds \/ BodyBreaks \/ UnreadEnds \/ Close \/ Judge

DSpec == DInit /\ [][DNext]_dVars

\* What the process itself does, and that a timer it has set fires; the
\* server owes it nothing.
DProgress == CheckUrl \/ Pasted \/ Resolve \/ Connect \/ TimerFires \/ Close \/ Judge

(***************************************************************************)
(* Properties.                                                             *)
(***************************************************************************)

\* However often the name server changes its mind, no connection goes to an
\* address the probe had not checked, nor to a private one, and the
\* dispatcher opened for it is closed when the probe has ended.
DialsOnlyChecked ==
    /\ dialled # Missing => /\ ~IsPrivateAddress(dialled)
                            /\ \E i \in DOMAIN addresses : addresses[i] = dialled
    /\ stage = "done" => dispatcher \in {"none", "closed"} /\ timer # "set"

\* An administrator is told that metadata is signed only if what the parser
\* reads is, content and all, what the maker of a signature signed: whatever was
\* moved, repeated or put beside it in the document since.
SignedCoversParsed ==
    (outcome = "metadata" /\ probe # "oidc" /\ SignatureStatus(doc) = "signed") =>
        \E i \in DOMAIN doc.signatures :
            LET s == doc.signatures[i]
            IN  s.intact /\ \E k \in DOMAIN s.refs : s.refs[k].digest = doc.entities[1].content

\* A probe that has dialled out comes to an end though its server stalls after
\* any byte, with two exceptions: the issuer's body, for which runProbe has
\* cleared its timer, and an answer refused by its status, whose unread body
\* Agent.close waits for when the timer is off.
ProbeEnds ==
    (stage = "headers") ~>
        \/ stage = "done"
        \/ stage = "body" /\ probe = "oidc"
        \/ stage = "closing" /\ outcome \in {"redirect_blocked", BadStatus(probe)}
=============================================================================
