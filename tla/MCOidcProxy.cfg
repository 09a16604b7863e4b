\* The issuer changes once; three pages are loaded.
SPECIFICATION LoginSpec
CONSTANTS
  Handlers = {h1}
  Docs <- MCDocs
  NoDoc = NoDoc
  Missing = Missing
  Proxied = Proxied
  TTL = 2
  MaxTime = 3
  MaxChanges = 1
  Nobody = Nobody
  Lifetime = 1
  MaxFlows = 3
  MaxLoads = 3
  
PROPERTIES AuthRecovers SignedInIsShown
