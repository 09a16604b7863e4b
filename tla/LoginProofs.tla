---------------------------- MODULE LoginProofs ----------------------------
(***************************************************************************)
(* Theorems about the OAuth helpers and the sign-in of the web page, for   *)
(* every set of documents, lifetime of the cache and of tokens, and number *)
(* of changes, flows and page loads.                                       *)
(***************************************************************************)
EXTENDS Login, TLAPS

allVars == <<vars, loginVars>>
Step == (Next /\ UNCHANGED loginVars) \/ (LoginNext /\ UNCHANGED vars)

LEMMA SpecSteps == LoginSpec => LoginInit /\ [][Step]_allVars
  BY PTL DEF LoginSpec, Step, allVars

-----------------------------------------------------------------------------
(* The cached discovery document *)

Rewritten == {Rewrite(d) : d \in Docs} \cup {NoDoc}

\* The issuer had, at time t or later, the document that rewrites to doc.
SeenSince(doc, t) == \E d \in Docs : Rewrite(d) = doc /\ lastSeen[d] >= t + 1

ProxyTypes ==
  /\ issuer \in Docs \cup {NoDoc}
  /\ now \in Nat
  /\ lastSeen \in [Docs -> Nat]
  /\ cache \in [Handlers -> [doc : Rewritten, at : Nat]]
  /\ DOMAIN answer = Handlers \cup {"register", "auth"}

\* lastSeen is never ahead of the clock and is current for the document the
\* issuer has; what is cached was the issuer's when it was cached.
ProxyInv ==
  /\ ProxyTypes
  /\ \A d \in Docs : lastSeen[d] <= now + 1
  /\ issuer # NoDoc => lastSeen[issuer] = now + 1
  /\ \A h \in Handlers : cache[h].doc # NoDoc => SeenSince(cache[h].doc, cache[h].at)
  /\ DiscoveryIsFresh

LEMMA ProxyInit == Init => ProxyInv
  <1> SUFFICES ASSUME Init PROVE ProxyInv
    OBVIOUS
  <1>1. ProxyTypes
    BY DEF Init, ProxyTypes, Rewritten
  <1>2. \A h \in Handlers : cache[h].doc = NoDoc /\ answer[h] = NoDoc
    BY DEF Init
  <1>3. \A d \in Docs : lastSeen[d] <= now + 1
    BY DEF Init
  <1>4. issuer # NoDoc => lastSeen[issuer] = now + 1
    BY DEF Init
  <1> QED
    BY <1>1, <1>2, <1>3, <1>4 DEF ProxyInv, DiscoveryIsFresh

\* Whatever was seen stays seen while lastSeen grows.
LEMMA SeenKept ==
  ASSUME ProxyTypes, ProxyTypes', \A d \in Docs : lastSeen[d] <= lastSeen'[d]
  PROVE  \A t \in Nat, doc \in Rewritten : SeenSince(doc, t) => SeenSince(doc, t)'
  <1> SUFFICES ASSUME NEW t \in Nat, NEW doc \in Rewritten, SeenSince(doc, t)
      PROVE  SeenSince(doc, t)'
    OBVIOUS
  <1>1. PICK d \in Docs : Rewrite(d) = doc /\ lastSeen[d] >= t + 1
    BY DEF SeenSince
  <1>2. lastSeen[d] \in Nat /\ lastSeen'[d] \in Nat /\ lastSeen'[d] >= t + 1
    BY <1>1 DEF ProxyTypes
  <1> QED
    BY <1>1, <1>2 DEF SeenSince

LEMMA ProxyStep ==
  ASSUME ProxyInv, Next
  PROVE  ProxyInv'
  <1>1. ASSUME NEW h \in Handlers, Discover(h) PROVE ProxyInv'
    <2>1. UNCHANGED <<issuer, now, lastSeen>>
      BY <1>1 DEF Discover
    <2>2. /\ cache[h] \in [doc : Rewritten, at : Nat] /\ now \in Nat /\ TTL \in Nat \ {0}
          /\ lastSeen \in [Docs -> Nat]
      BY OidcConstants DEF ProxyInv, ProxyTypes
    <2>3. CASE /\ cache[h].doc # NoDoc /\ now - cache[h].at < TTL
               /\ answer' = [answer EXCEPT ![h] = cache[h].doc]
               /\ UNCHANGED cache
      <3>1. PICK d \in Docs : Rewrite(d) = cache[h].doc /\ lastSeen[d] >= cache[h].at + 1
        BY <2>3 DEF ProxyInv, SeenSince
      <3>2. lastSeen[d] # 0 /\ now < lastSeen[d] - 1 + TTL
        BY <2>2, <2>3, <3>1
      <3>3. DiscoveryIsFresh'
        BY <2>1, <2>3, <3>1, <3>2 DEF ProxyInv, ProxyTypes, DiscoveryIsFresh
      <3> QED
        BY <2>1, <2>3, <3>3 DEF ProxyInv, ProxyTypes, SeenSince
    <2>4. CASE /\ issuer # NoDoc
               /\ cache' = [cache EXCEPT ![h] = [doc |-> Rewrite(issuer), at |-> now]]
               /\ answer' = [answer EXCEPT ![h] = Rewrite(issuer)]
      <3>1. issuer \in Docs /\ lastSeen[issuer] = now + 1
        BY <2>4 DEF ProxyInv, ProxyTypes
      <3>2. lastSeen[issuer] # 0 /\ now < lastSeen[issuer] - 1 + TTL
        BY <2>2, <3>1
      <3>3. DiscoveryIsFresh'
        BY <2>1, <2>4, <3>1, <3>2 DEF ProxyInv, ProxyTypes, DiscoveryIsFresh
      <3>4. Rewrite(issuer) \in Rewritten
        BY <3>1 DEF Rewritten
      <3>5. /\ cache' \in [Handlers -> [doc : Rewritten, at : Nat]]
            /\ cache'[h].doc = Rewrite(issuer) /\ cache'[h].at = now
            /\ \A g \in Handlers \ {h} : cache'[g] = cache[g]
        BY <2>2, <2>4, <3>4 DEF ProxyInv, ProxyTypes
      <3>6. ASSUME NEW g \in Handlers, cache'[g].doc # NoDoc
            PROVE  SeenSince(cache[g].doc, cache[g].at)'
        <4>1. CASE g = h
          BY <2>1, <2>2, <3>1, <3>5, <4>1 DEF SeenSince
        <4>2. CASE g # h
          BY <2>1, <3>5, <3>6, <4>2 DEF SeenSince, ProxyInv
        <4> QED
          BY <4>1, <4>2
      <3> QED
        BY <2>1, <2>4, <3>3, <3>5, <3>6 DEF ProxyInv, ProxyTypes
    <2>5. CASE /\ answer' = [answer EXCEPT ![h] = NoDoc]
               /\ UNCHANGED cache
      <3>1. DiscoveryIsFresh'
        BY <2>1, <2>5 DEF ProxyInv, ProxyTypes, DiscoveryIsFresh
      <3> QED
        BY <2>1, <2>5, <3>1 DEF ProxyInv, ProxyTypes, SeenSince
    <2> QED
      BY <1>1, <2>3, <2>4, <2>5 DEF Discover
  <1>2. CASE Register \/ Authorize
    <2>1. UNCHANGED <<issuer, now, lastSeen, cache>>
      BY <1>2 DEF Register, Authorize
    <2>2. /\ DOMAIN answer' = Handlers \cup {"register", "auth"}
          /\ \A h \in Handlers : answer'[h] = answer[h]
      BY <1>2, OidcConstants DEF Register, Authorize, ProxyInv, ProxyTypes
    <2> QED
      BY <2>1, <2>2 DEF ProxyInv, ProxyTypes, SeenSince, DiscoveryIsFresh
  <1>3. CASE Change
    <2>1. PICK d \in Docs \cup {NoDoc} :
            /\ issuer' = d
            /\ lastSeen' = [x \in Docs |-> IF x = d THEN now + 1 ELSE lastSeen[x]]
      BY <1>3 DEF Change
    <2>2. UNCHANGED <<now, cache, answer>>
      BY <1>3 DEF Change
    <2>3. ProxyTypes' /\ now \in Nat
      BY <2>1, <2>2 DEF ProxyInv, ProxyTypes
    <2>4. /\ \A x \in Docs : lastSeen[x] <= lastSeen'[x] /\ lastSeen'[x] <= now + 1
          /\ d # NoDoc => lastSeen'[d] = now + 1
      BY <2>1, <2>3 DEF ProxyInv, ProxyTypes
    <2>5. DiscoveryIsFresh'
      <3> SUFFICES ASSUME NEW h \in Handlers, answer[h] # NoDoc
          PROVE  \E x \in Docs : /\ Rewrite(x) = answer[h] /\ lastSeen'[x] # 0
                                 /\ now < lastSeen'[x] - 1 + TTL
        BY <2>2 DEF DiscoveryIsFresh
      <3>1. PICK x \in Docs : /\ Rewrite(x) = answer[h] /\ lastSeen[x] # 0
                              /\ now < lastSeen[x] - 1 + TTL
        BY DEF ProxyInv, DiscoveryIsFresh
      <3>2. lastSeen[x] \in Nat /\ lastSeen'[x] \in Nat /\ TTL \in Nat
        BY <2>3, OidcConstants DEF ProxyInv, ProxyTypes
      <3>3. lastSeen'[x] # 0 /\ now < lastSeen'[x] - 1 + TTL
        BY <2>3, <2>4, <3>1, <3>2
      <3> QED
        BY <3>1, <3>3
    <2>6. ASSUME NEW h \in Handlers, cache'[h].doc # NoDoc
          PROVE  SeenSince(cache[h].doc, cache[h].at)'
      <3>1. PICK doc \in Rewritten, t \in Nat : cache[h].doc = doc /\ cache[h].at = t
        BY DEF ProxyInv, ProxyTypes
      <3>2. SeenSince(doc, t)
        BY <2>2, <2>6, <3>1 DEF ProxyInv
      <3>3. SeenSince(doc, t)'
        BY <2>3, <2>4, <3>2, SeenKept DEF ProxyInv
      <3> QED
        BY <2>2, <3>1, <3>3 DEF SeenSince
    <2> QED
      BY <2>1, <2>2, <2>3, <2>4, <2>5, <2>6 DEF ProxyInv
  <1>4. CASE Tick
    <2>1. /\ now' = now + 1 /\ UNCHANGED <<issuer, cache>>
          /\ lastSeen' = [x \in Docs |-> IF x = issuer THEN now + 2 ELSE lastSeen[x]]
          /\ answer' = [e \in DOMAIN answer |-> IF e \in Handlers THEN NoDoc ELSE answer[e]]
      BY <1>4 DEF Tick
    <2>2. ProxyTypes' /\ now \in Nat
      BY <2>1 DEF ProxyInv, ProxyTypes
    <2>3. /\ \A x \in Docs : lastSeen[x] <= lastSeen'[x] /\ lastSeen'[x] <= now' + 1
          /\ issuer # NoDoc => lastSeen'[issuer] = now' + 1
      BY <2>1, <2>2 DEF ProxyInv, ProxyTypes
    <2>4. DiscoveryIsFresh'
      BY <2>1 DEF ProxyInv, ProxyTypes, DiscoveryIsFresh
    <2>5. ASSUME NEW h \in Handlers, cache'[h].doc # NoDoc
          PROVE  SeenSince(cache[h].doc, cache[h].at)'
      <3>1. PICK doc \in Rewritten, t \in Nat : cache[h].doc = doc /\ cache[h].at = t
        BY DEF ProxyInv, ProxyTypes
      <3>2. SeenSince(doc, t)
        BY <2>1, <2>5, <3>1 DEF ProxyInv
      <3>3. SeenSince(doc, t)'
        BY <2>2, <2>3, <3>2, SeenKept DEF ProxyInv
      <3> QED
        BY <2>1, <3>1, <3>3 DEF SeenSince
    <2> QED
      BY <2>1, <2>2, <2>3, <2>4, <2>5 DEF ProxyInv
  <1> QED
    BY <1>1, <1>2, <1>3, <1>4 DEF Next

-----------------------------------------------------------------------------
(* The tab *)

Tokens == {NoToken} \cup [expiry : Nat, exp : Nat]

\* A token that is stored or on its way says when it expires; an exchange that
\* is under way has the verifier of its code.
LoginInv ==
  /\ stored \in [token : Tokens, verifier : {Nobody} \cup Nat]
  /\ issued \in {Nobody} \cup Nat
  /\ flows \in Nat
  /\ VerifierFitsCode

LEMMA GetStoredFacts ==
  ASSUME now \in Nat, NEW token \in Tokens
  PROVE  /\ GetStored(token) \in Tokens
         /\ GetStored(token) # NoToken => now <= GetStored(token).expiry
  BY DEF GetStored, Tokens

\* What the end of initAuth leaves: the page with a token that has not
\* expired, or the issuer's login page with a new verifier.
LEMMA FinishFacts ==
  ASSUME LoginInv, now \in Nat, NEW token \in Tokens, NEW verifier \in {Nobody} \cup Nat,
         Finish(token, verifier)
  PROVE  /\ stored' \in [token : Tokens, verifier : {Nobody} \cup Nat]
         /\ flows' \in Nat
         /\ tab' \in {"app", "issuer"}
         /\ tab' = "app" => stored'.token # NoToken /\ now <= stored'.token.expiry
         /\ GetStored(token) # NoToken => tab' = "app"
  <1>1. /\ GetStored(token) \in Tokens /\ NoToken \in Tokens /\ flows \in Nat
        /\ GetStored(token) # NoToken => now <= GetStored(token).expiry
    BY GetStoredFacts DEF LoginInv, Tokens
  <1>2. CASE /\ GetStored(token) # NoToken /\ tab' = "app" /\ UNCHANGED flows
             /\ stored' = [token |-> GetStored(token), verifier |-> verifier]
    BY <1>1, <1>2
  <1>3. CASE /\ GetStored(token) = NoToken /\ tab' = "issuer" /\ flows' = flows + 1
             /\ stored' = [token |-> NoToken, verifier |-> flows + 1]
    BY <1>1, <1>3
  <1> QED
    BY <1>2, <1>3 DEF Finish

\* The token of an exchange that has just returned is one to show the page with.
LEMMA NewToken ==
  ASSUME now \in Nat, issued \in Nat
  PROVE  LET token == [expiry |-> now + Lifetime, exp |-> issued + Lifetime]
         IN  token \in Tokens /\ GetStored(token) # NoToken
  <1> DEFINE token == [expiry |-> now + Lifetime, exp |-> issued + Lifetime]
  <1>1. now + Lifetime \in Nat /\ issued + Lifetime \in Nat /\ now + Lifetime >= now
    BY LoginConstants
  <1>2. token \in Tokens
    BY <1>1 DEF Tokens
  <1>3. token # NoToken
    BY <1>1, LoginConstants DEF NoToken
  <1>4. ~(now > token.expiry)
    BY <1>1
  <1> QED
    BY <1>2, <1>3, <1>4 DEF GetStored

LEMMA LoginInitInv == LoginInit => LoginInv
  BY DEF LoginInit, LoginInv, Tokens, VerifierFitsCode

\* Boot and Exchanged end in Finish; no other step shows the page.
Shows ==
  /\ tab = "exchange" /\ address' # address => tab' \in {"app", "boot"}
  /\ tab' = "app" /\ tab # "app" => stored'.token # NoToken /\ now <= stored'.token.expiry

LEMMA LoginStep ==
  ASSUME LoginInv, now \in Nat, LoginNext
  PROVE  LoginInv' /\ Shows
  <1>1. /\ stored \in [token : Tokens, verifier : {Nobody} \cup Nat]
        /\ stored.token \in Tokens /\ stored.verifier \in {Nobody} \cup Nat
        /\ issued \in {Nobody} \cup Nat /\ flows \in Nat
    BY DEF LoginInv
  <1>2. ASSUME NEW a, Load(a) PROVE LoginInv' /\ Shows
    BY <1>1, <1>2 DEF Load, LoginInv, VerifierFitsCode, Shows
  <1>3. CASE Boot
    <2>1. CASE tab' = "blank" /\ UNCHANGED <<stored, sent, flows>>
      BY <1>1, <1>3, <2>1 DEF Boot, LoginInv, VerifierFitsCode, Shows
    <2>2. CASE /\ CodeIsOurs /\ tab' = "exchange" /\ UNCHANGED <<stored, flows>>
               /\ sent' = [code |-> address, verifier |-> stored.verifier]
      BY <1>1, <1>3, <2>2 DEF Boot, CodeIsOurs, LoginInv, VerifierFitsCode, Shows
    <2>3. CASE Finish(stored.token, stored.verifier) /\ UNCHANGED sent
      <3>1. /\ stored' \in [token : Tokens, verifier : {Nobody} \cup Nat] /\ flows' \in Nat
            /\ tab' = "app" => stored'.token # NoToken /\ now <= stored'.token.expiry
        BY <1>1, <2>3, FinishFacts
      <3> QED
        BY <1>1, <1>3, <2>3, <3>1 DEF Boot, LoginInv, VerifierFitsCode, Shows
    <2> QED
      BY <1>3, <2>1, <2>2, <2>3 DEF Boot
  <1>4. CASE Redeem
    BY <1>1, <1>4 DEF Redeem, LoginInv, VerifierFitsCode, Shows
  <1>5. CASE Exchanged
    <2> DEFINE token == [expiry |-> now + Lifetime, exp |-> issued + Lifetime]
    <2>1. issued \in Nat
      BY <1>1, <1>5 DEF Exchanged
    <2>2. token \in Tokens /\ GetStored(token) # NoToken
      BY <2>1, NewToken
    <2>3. Finish(token, Nobody)
      BY <1>5 DEF Exchanged
    <2> HIDE DEF token
    <2>4. /\ stored' \in [token : Tokens, verifier : {Nobody} \cup Nat] /\ flows' \in Nat
          /\ tab' = "app" /\ stored'.token # NoToken /\ now <= stored'.token.expiry
      BY <2>2, <2>3, FinishFacts
    <2> QED
      BY <1>5, <2>4 DEF Exchanged, LoginInv, VerifierFitsCode, Shows
  <1>6. CASE ExchangeFails
    BY <1>1, <1>6 DEF ExchangeFails, LoginInv, VerifierFitsCode, Shows
  <1>7. CASE SignIn
    BY <1>1, <1>7 DEF SignIn, LoginInv, VerifierFitsCode, Shows
  <1>8. CASE Request
    <2>1. GetStored(stored.token) \in Tokens
      BY <1>1, GetStoredFacts
    <2>2. stored' \in [token : Tokens, verifier : {Nobody} \cup Nat]
      BY <1>1, <1>8, <2>1 DEF Request
    <2> QED
      BY <1>1, <1>8, <2>2 DEF Request, LoginInv, VerifierFitsCode, Shows
  <1> QED
    BY <1>2, <1>3, <1>4, <1>5, <1>6, <1>7, <1>8 DEF LoginNext

-----------------------------------------------------------------------------
(* The theorems *)

LEMMA Preserved ==
  ProxyInv /\ LoginInv /\ [Step]_allVars => (ProxyInv /\ LoginInv)' /\ [Shows]_loginVars
  <1> SUFFICES ASSUME ProxyInv, LoginInv, [Step]_allVars
      PROVE  (ProxyInv /\ LoginInv)' /\ [Shows]_loginVars
    OBVIOUS
  <1>1. ASSUME UNCHANGED vars PROVE ProxyInv'
    BY <1>1 DEF vars, ProxyInv, ProxyTypes, SeenSince, DiscoveryIsFresh
  <1>2. ASSUME UNCHANGED loginVars PROVE LoginInv'
    BY <1>2 DEF loginVars, LoginInv, VerifierFitsCode
  <1>3. CASE Next /\ UNCHANGED loginVars
    BY <1>2, <1>3, ProxyStep
  <1>4. CASE LoginNext /\ UNCHANGED vars
    <2>1. now \in Nat
      BY DEF ProxyInv, ProxyTypes
    <2> QED
      BY <1>1, <1>4, <2>1, LoginStep
  <1>5. CASE UNCHANGED allVars
    BY <1>1, <1>2, <1>5 DEF allVars
  <1> QED
    BY <1>3, <1>4, <1>5 DEF Step

LEMMA Invariance == LoginSpec => [](ProxyInv /\ LoginInv)
  <1>1. LoginInit => ProxyInv /\ LoginInv
    BY ProxyInit, LoginInitInv DEF LoginInit
  <1> QED
    BY <1>1, Preserved, SpecSteps, PTL

\* A discovery document is never answered TTL or more after the issuer last
\* had it, in each of the handlers of oidcDiscoveryProxyHandler: however often
\* the issuer changes, fails and recovers between the requests.
THEOREM DiscoveryFresh == LoginSpec => []DiscoveryIsFresh
  <1>1. ProxyInv => DiscoveryIsFresh
    BY DEF ProxyInv
  <1> QED
    BY <1>1, Invariance, PTL

\* auth.ts sends a code only with the verifier of the flow it was issued for,
\* for any number of flows and any callback address the user returns to.
THEOREM VerifierFits == LoginSpec => []VerifierFitsCode
  <1>1. LoginInv => VerifierFitsCode
    BY DEF LoginInv
  <1> QED
    BY <1>1, Invariance, PTL

\* initAuth shows the page only with a token that has not expired, and after a
\* successful exchange it always shows it: the tab that has redeemed its code
\* is not sent to the issuer again.
THEOREM SignedInShown == LoginSpec => SignedInIsShown
  BY Invariance, Preserved, SpecSteps, PTL DEF SignedInIsShown, Shows
=============================================================================
