------------------------------- MODULE Login --------------------------------
(***************************************************************************)
(* Signing in to the web page (frontend/src/auth.ts, main.tsx and api.ts)  *)
(* and the token check of the server (internal/oidc/middleware.go), beside *)
(* the same issuer as OidcProxy: the authorization code flow with PKCE in  *)
(* one tab of a browser, whose user may reload or go back to an address he *)
(* has seen at any time.                                                   *)
(*                                                                         *)
(* The n-th flow has verifier n and state n, which the browser draws at    *)
(* random.  Storage and the server's clock are read in one step; between   *)
(* the steps below the page waits for an answer.                           *)
(***************************************************************************)
EXTENDS OidcProxy, Sequences

CONSTANTS
  Nobody,      \* null: no token, no verifier, no code
  Lifetime,    \* expires_in of a token
  MaxFlows,    \* bound on the flows started
  MaxLoads     \* bound on the pages loaded by the user

ASSUME LoginConstants ==
  /\ Nobody \notin Nat
  /\ {Lifetime, MaxFlows, MaxLoads} \subseteq Nat \ {0}

VARIABLES
  tab,      \* what the tab is doing: "boot", "exchange", "app", "issuer"
            \* (at the issuer's login page), "blank" (initAuth has thrown)
  address,  \* the flow of the code and state in the address, or Nobody
  stored,   \* sessionStorage: [token, verifier]; the state is the verifier's
  sent,     \* the code and verifier of the exchange under way
  codes,    \* codes of the issuer that were not redeemed, by their flow
  issued,   \* the token on its way to the page: when the issuer signed it
  flows,    \* flows started so far
  loads,    \* pages loaded so far
  served    \* the last answer of the API: "none", "ok" or "unauthorized"

loginVars == <<tab, address, stored, sent, codes, issued, flows, loads, served>>

NoToken == [expiry |-> Nobody, exp |-> Nobody]
NoCall == [code |-> Nobody, verifier |-> Nobody]

\* Mutant: a token that has expired is still used.
StoredForEver(token) == IF token = NoToken THEN NoToken ELSE token

\* getStoredToken: what it returns and what it leaves in the storage.
GetStored(token) ==
  IF token = NoToken \/ now > token.expiry THEN NoToken ELSE token

-----------------------------------------------------------------------------
\* The user opens the page, reloads it, or returns to an address of an earlier
\* callback: whatever ran in the tab ends.
Load(a) ==
  /\ loads < MaxLoads
  /\ a \in {Nobody} \cup 1 .. flows
  /\ tab' = "boot" /\ address' = a
  /\ loads' = loads + 1
  /\ sent' = NoCall /\ issued' = Nobody /\ served' = "none"
  /\ UNCHANGED <<stored, codes, flows>>

\* The end of initAuth with this token in the storage: render, or startPKCEFlow
\* and leave for the issuer.
Finish(token, verifier) ==
  \/ /\ GetStored(token) # NoToken
     /\ tab' = "app"
     /\ stored' = [token |-> GetStored(token), verifier |-> verifier]
     /\ UNCHANGED flows
  \/ /\ GetStored(token) = NoToken /\ flows < MaxFlows
     /\ tab' = "issuer"
     /\ flows' = flows + 1
     /\ stored' = [token |-> NoToken, verifier |-> flows + 1]

\* Mutant: the state is not compared.
CodeIsOursUnchecked == address # Nobody /\ stored.verifier # Nobody

\* code && state, state === savedState && verifier.
CodeIsOurs == address # Nobody /\ stored.verifier = address

\* discoverEndpoints throws without a document or without its endpoints.
Discovered == issuer # NoDoc /\ AuthorizationEndpoint # Missing

\* initAuth up to the exchange of the code, or to its end.
Boot ==
  /\ tab = "boot"
  /\ \/ /\ ~ Discovered
        /\ tab' = "blank"
        /\ UNCHANGED <<stored, sent, flows>>
     \/ /\ Discovered /\ CodeIsOurs
        /\ tab' = "exchange"
        /\ sent' = [code |-> address, verifier |-> stored.verifier]
        /\ UNCHANGED <<stored, flows>>
     \/ /\ Discovered /\ ~ CodeIsOurs
        /\ Finish(stored.token, stored.verifier)
        /\ UNCHANGED sent
  /\ UNCHANGED <<address, codes, issued, loads, served>>

\* The issuer redeems a code once, with the verifier of its flow.
Redeem ==
  /\ tab = "exchange" /\ issued = Nobody
  /\ sent.code \in codes /\ sent.verifier = sent.code
  /\ codes' = codes \ {sent.code}
  /\ issued' = now
  /\ UNCHANGED <<tab, address, stored, sent, flows, loads, served>>

\* exchangeCode returns: the code and state leave the address.
Exchanged ==
  /\ tab = "exchange" /\ issued # Nobody
  /\ Finish([expiry |-> now + Lifetime, exp |-> issued + Lifetime], Nobody)
  /\ address' = Nobody
  /\ sent' = NoCall /\ issued' = Nobody
  /\ UNCHANGED <<codes, loads, served>>

\* exchangeCode throws: the issuer refuses the code, fails, or its answer is
\* lost.  State, verifier and address stay.
ExchangeFails ==
  /\ tab = "exchange"
  /\ tab' = "blank"
  /\ sent' = NoCall /\ issued' = Nobody
  /\ UNCHANGED <<address, stored, codes, flows, loads, served>>

\* The user signs in and the issuer sends the tab back with a new code.
SignIn ==
  /\ tab = "issuer"
  /\ codes' = codes \cup {flows}
  /\ tab' = "boot" /\ address' = flows
  /\ UNCHANGED <<stored, sent, issued, flows, loads, served>>

\* A request of the rendered page: fetch adds the token if getStoredToken has
\* one, and Middleware.Handler verifies it.
Request ==
  LET token == GetStored(stored.token)
  IN  /\ tab = "app"
      /\ stored' = [stored EXCEPT !.token = token]
      /\ served' = IF token # NoToken /\ now <= token.exp THEN "ok" ELSE "unauthorized"
      /\ UNCHANGED <<tab, address, sent, codes, issued, flows, loads>>

-----------------------------------------------------------------------------
LoginInit ==
  /\ Init
  /\ tab = "boot" /\ address = Nobody
  /\ stored = [token |-> NoToken, verifier |-> Nobody]
  /\ sent = NoCall /\ codes = {} /\ issued = Nobody
  /\ flows = 0 /\ loads = 1 /\ served = "none"

LoginNext ==
  \/ \E a \in {Nobody} \cup 1 .. flows : Load(a)
  \/ Boot \/ Redeem \/ Exchanged \/ ExchangeFails \/ SignIn \/ Request

LoginSpec ==
  /\ LoginInit
  /\ [][\/ Next /\ UNCHANGED loginVars
        \/ LoginNext /\ UNCHANGED vars]_<<vars, loginVars>>
  /\ WF_vars(Register) /\ WF_vars(Authorize)

-----------------------------------------------------------------------------
(* Properties *)

\* A code is only ever sent to the issuer with the verifier of the flow it was
\* issued for, whichever callback addresses the user returns to (auth.ts: the
\* comparison of state and savedState).
VerifierFitsCode == sent # NoCall => sent.verifier = sent.code

\* A page that has come from the issuer with a code it could redeem is shown:
\* it does not send the user to the issuer again (no redirect loop), and a page
\* is never shown before somebody has signed in (auth.ts: getStoredToken).
SignedInIsShown ==
  [][/\ tab = "exchange" /\ address' # address => tab' \in {"app", "boot"}
     /\ tab' = "app" /\ tab # "app" => stored'.token # NoToken /\ now <= stored'.token.expiry]_loginVars
=============================================================================
