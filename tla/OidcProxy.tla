----------------------------- MODULE OidcProxy -----------------------------
(***************************************************************************)
(* The server's OAuth helpers (cmd/server/main.go): the discovery document *)
(* of the issuer, with its endpoints rewritten, cached for five minutes in *)
(* each of two handlers, and the registration and authorization proxies,   *)
(* which look up their upstream endpoint once.                             *)
(*                                                                         *)
(* Each handler holds its mutex while it asks the issuer, so a lookup is   *)
(* one step.  The issuer answers with a document, or not at all, or with   *)
(* something that is no JSON; the status of an answer is not looked at, so *)
(* a JSON error page is a document without endpoints.                      *)
(***************************************************************************)
EXTENDS Naturals

CONSTANTS
  Handlers,   \* the discovery handlers: one per well-known path
  Docs,       \* documents of the issuer: [reg, auth, rest] records
  NoDoc,      \* no answer, or no JSON
  Missing,    \* an endpoint the document does not have
  Proxied,    \* this server's own endpoints
  TTL,        \* five minutes
  MaxTime,    \* bound on the clock
  MaxChanges  \* bound on the changes of the issuer

ASSUME OidcConstants ==
  /\ NoDoc \notin Docs
  /\ "register" \notin Handlers /\ "auth" \notin Handlers
  /\ TTL \in Nat \ {0} /\ MaxTime \in Nat /\ MaxChanges \in Nat

VARIABLES
  issuer,   \* what the issuer answers now
  now,      \* the clock
  changes,  \* number of changes of the issuer so far
  cache,    \* [Handlers -> cached, cachedAt]
  regUp,    \* upstream and fetched of the registration proxy
  authUp,   \* upstream and fetched of the authorization proxy
  answer,   \* the last answer of each proxy, and the one of each discovery
            \* handler if it has answered at this time
  lastSeen  \* history: when the issuer last answered with each document

vars == <<issuer, now, changes, cache, regUp, authUp, answer, lastSeen>>

Never == [fetched |-> FALSE, at |-> Missing]

\* oidcDiscoveryProxyHandler puts its own endpoints into the document.
Rewrite(doc) == [doc EXCEPT !.reg = Proxied, !.auth = Proxied]

-----------------------------------------------------------------------------
\* Mutant: a failed refresh answers with the expired document.
DiscoverStale(h) ==
  /\ \/ /\ cache[h].doc # NoDoc
        /\ now - cache[h].at < TTL \/ issuer = NoDoc
        /\ answer' = [answer EXCEPT ![h] = cache[h].doc]
        /\ UNCHANGED cache
     \/ /\ cache[h].doc = NoDoc \/ now - cache[h].at >= TTL
        /\ issuer # NoDoc
        /\ cache' = [cache EXCEPT ![h] = [doc |-> Rewrite(issuer), at |-> now]]
        /\ answer' = [answer EXCEPT ![h] = Rewrite(issuer)]
     \/ /\ cache[h].doc = NoDoc
        /\ issuer = NoDoc
        /\ answer' = [answer EXCEPT ![h] = NoDoc]
        /\ UNCHANGED cache
  /\ UNCHANGED <<issuer, now, changes, regUp, authUp, lastSeen>>

\* A request for a well-known document.
Discover(h) ==
  /\ \/ /\ cache[h].doc # NoDoc /\ now - cache[h].at < TTL
        /\ answer' = [answer EXCEPT ![h] = cache[h].doc]
        /\ UNCHANGED cache
     \/ /\ cache[h].doc = NoDoc \/ now - cache[h].at >= TTL
        /\ issuer # NoDoc
        /\ cache' = [cache EXCEPT ![h] = [doc |-> Rewrite(issuer), at |-> now]]
        /\ answer' = [answer EXCEPT ![h] = Rewrite(issuer)]
     \/ /\ cache[h].doc = NoDoc \/ now - cache[h].at >= TTL
        /\ issuer = NoDoc
        /\ answer' = [answer EXCEPT ![h] = NoDoc]
        /\ UNCHANGED cache
  /\ UNCHANGED <<issuer, now, changes, regUp, authUp, lastSeen>>

\* POST /oauth2/register.  An upstream that is missing is remembered like any
\* other, and the request to it fails.
Register ==
  /\ \/ /\ regUp.fetched
        /\ answer' = [answer EXCEPT !["register"] = regUp.at]
        /\ UNCHANGED regUp
     \/ /\ ~regUp.fetched /\ issuer # NoDoc
        /\ regUp' = [fetched |-> TRUE, at |-> issuer.reg]
        /\ answer' = [answer EXCEPT !["register"] = issuer.reg]
     \/ /\ ~regUp.fetched /\ issuer = NoDoc
        /\ answer' = [answer EXCEPT !["register"] = Missing]
        /\ UNCHANGED regUp
  /\ UNCHANGED <<issuer, now, changes, cache, authUp, lastSeen>>

\* Mutant: a missing upstream is remembered here too.
AuthorizeOnce ==
  /\ \/ /\ authUp.fetched
        /\ answer' = [answer EXCEPT !["auth"] = authUp.at]
        /\ UNCHANGED authUp
     \/ /\ ~authUp.fetched /\ issuer # NoDoc
        /\ authUp' = [fetched |-> TRUE, at |-> issuer.auth]
        /\ answer' = [answer EXCEPT !["auth"] = issuer.auth]
     \/ /\ ~authUp.fetched /\ issuer = NoDoc
        /\ answer' = [answer EXCEPT !["auth"] = Missing]
        /\ UNCHANGED authUp
  /\ UNCHANGED <<issuer, now, changes, cache, regUp, lastSeen>>

\* doc.AuthorizationEndpoint of the issuer's answer.
AuthorizationEndpoint == IF issuer = NoDoc THEN Missing ELSE issuer.auth

\* GET /oauth2/auth: a missing upstream is an error and not remembered.
Authorize ==
  /\ \/ /\ authUp.fetched
        /\ answer' = [answer EXCEPT !["auth"] = authUp.at]
        /\ UNCHANGED authUp
     \/ /\ ~authUp.fetched /\ AuthorizationEndpoint # Missing
        /\ authUp' = [fetched |-> TRUE, at |-> AuthorizationEndpoint]
        /\ answer' = [answer EXCEPT !["auth"] = AuthorizationEndpoint]
     \/ /\ ~authUp.fetched /\ AuthorizationEndpoint = Missing
        /\ answer' = [answer EXCEPT !["auth"] = Missing]
        /\ UNCHANGED authUp
  /\ UNCHANGED <<issuer, now, changes, cache, regUp, lastSeen>>

-----------------------------------------------------------------------------
Init ==
  /\ issuer \in Docs \cup {NoDoc}
  /\ now = 0
  /\ changes = 0
  /\ cache = [h \in Handlers |-> [doc |-> NoDoc, at |-> 0]]
  /\ regUp = Never
  /\ authUp = Never
  /\ answer = [e \in Handlers \cup {"register", "auth"} |-> IF e \in Handlers THEN NoDoc ELSE Missing]
  /\ lastSeen = [d \in Docs |-> IF d = issuer THEN 1 ELSE 0]

\* The issuer fails, recovers or changes its document; lastSeen is one more
\* than the last time it had the document, 0 for never.
Change ==
  /\ changes < MaxChanges
  /\ changes' = changes + 1
  /\ \E d \in (Docs \cup {NoDoc}) \ {issuer} :
       /\ issuer' = d
       /\ lastSeen' = [x \in Docs |-> IF x = d THEN now + 1 ELSE lastSeen[x]]
  /\ UNCHANGED <<now, cache, regUp, authUp, answer>>

Tick ==
  /\ now < MaxTime
  /\ now' = now + 1
  /\ lastSeen' = [x \in Docs |-> IF x = issuer THEN now + 2 ELSE lastSeen[x]]
  /\ answer' = [e \in DOMAIN answer |-> IF e \in Handlers THEN NoDoc ELSE answer[e]]
  /\ UNCHANGED <<issuer, changes, cache, regUp, authUp>>

Next ==
  \/ \E h \in Handlers : Discover(h)
  \/ Register \/ Authorize \/ Change \/ Tick

Spec == Init /\ [][Next]_vars

\* Clients keep asking; the issuer need not do anything.
FairSpec == Spec /\ WF_vars(Register) /\ WF_vars(Authorize)

-----------------------------------------------------------------------------
(* Properties *)

\* A document is never answered TTL or more after the issuer last had it: the
\* cache of oidcDiscoveryProxyHandler.
DiscoveryIsFresh ==
  \A h \in Handlers : answer[h] # NoDoc =>
     \E d \in Docs : /\ Rewrite(d) = answer[h]
                     /\ lastSeen[d] # 0
                     /\ now < lastSeen[d] - 1 + TTL

\* If the issuer ends up with a complete document, requests to the
\* authorization proxy end up at its authorization endpoint.
AuthRecovers ==
  (\E d \in Docs : d.auth # Missing /\ <>[](issuer = d)) => <>[](answer["auth"] # Missing)

\* The same for the registration proxy and the "upstream
\* registration_endpoint discovered from the issuer's OIDC discovery
\* document" that its comment promises.
RegistrationRecovers ==
  (\E d \in Docs : d.reg # Missing /\ <>[](issuer = d)) => <>[](answer["register"] # Missing)
=============================================================================
