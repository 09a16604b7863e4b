----------------------------- MODULE ApiSchema -----------------------------
(***************************************************************************)
(* What a request to the korpus server asks for: the generated REST layer  *)
(* (internal/api) decodes the query string of an operation by its table of *)
(* parameters and hands the result to apiHandler; the MCP tools            *)
(* (buildMCPServer) take their arguments from a JSON object.  Both end in  *)
(* a call of the query server, described by a Call, or in a Reply.         *)
(*                                                                         *)
(* A raw query is a function from the names of the parameters that are     *)
(* given to their values; Bad is a text that is no number, time, commit or *)
(* CEL expression.  Thresholds are percentages.                            *)
(***************************************************************************)
EXTENDS Integers, Sequences

CONSTANTS
  Bad,     \* a malformed value
  NoTime,  \* no datetime, since or until
  NoCel    \* the empty expression

\* The arguments of the query server's methods, with their zero values.
NoArgs ==
  [cluster |-> "", group |-> "", kind |-> "", namespace |-> "", name |-> "",
   cel |-> NoCel, datetime |-> NoTime, since |-> NoTime, until |-> NoTime,
   changeType |-> "", commits |-> 50, threshold |-> 0, limit |-> 50, offset |-> 0,
   from |-> Bad, to |-> Bad]

\* The fields of f, and those of g that f does not have.
Over(f, g) == [x \in DOMAIN f \cup DOMAIN g |-> IF x \in DOMAIN f THEN f[x] ELSE g[x]]

Reply(code)    == [do |-> "reply", code |-> code, args |-> NoArgs]
Call(op, args) == [do |-> op, code |-> "none", args |-> Over(args, NoArgs)]

-----------------------------------------------------------------------------
(* Parameters of the REST operations *)

Param(type, need, default) == [type |-> type, need |-> need, default |-> default]
Required   == Param("string", TRUE, "")
Optional   == Param("string", FALSE, "")
Time       == Param("time", FALSE, NoTime)
Number(d)  == Param("number", FALSE, d)
ChangeType == Param("changeType", FALSE, "")

GetDiffWhere == [cluster |-> Required, group |-> Required, kind |-> Required,
                 namespace |-> Optional, name |-> Required]
GetDiffCommits == [from |-> Required, to |-> Required]

GetHistoryWhen  == [since |-> Time, until |-> Time]
GetHistoryWhere == [cluster |-> Optional, group |-> Optional, kind |-> Optional,
                    namespace |-> Optional, name |-> Optional]
GetHistoryType  == [changeType |-> ChangeType]
GetHistoryPage  == [limit |-> Number(50), offset |-> Number(0)]

GetResourceWhere == [cluster |-> Required, group |-> Required, kind |-> Required,
                     namespace |-> Optional, name |-> Required]

GetSnapshotWhen  == [datetime |-> Time]
GetSnapshotWhere == [cluster |-> Optional, group |-> Optional, kind |-> Optional,
                     namespace |-> Optional, name |-> Optional]
GetSnapshotCel   == [cel |-> Param("string", FALSE, NoCel)]
GetSnapshotPage  == [limit |-> Number(50), offset |-> Number(0)]

GetVolatilityWhere == [cluster |-> Optional, group |-> Optional, kind |-> Optional,
                       namespace |-> Optional, name |-> Optional]
GetVolatilityOver  == [commits |-> Number(50), threshold |-> Number(0)]
GetVolatilityPage  == [limit |-> Number(50), offset |-> Number(0)]

GetVolatilityFieldsWhere == [cluster |-> Optional, group |-> Required, kind |-> Required,
                             namespace |-> Optional, name |-> Optional]
GetVolatilityFieldsOver  == [commits |-> Number(50)]

ListGVKsWhere       == [cluster |-> Optional, namespace |-> Optional]
ListNamespacesWhere == [cluster |-> Optional]

\* The values a parameter refuses.
Refuses(p, v) ==
  CASE p.type = "string"     -> FALSE
    [] p.type = "changeType" -> v \notin {"added", "modified", "deleted"}
    [] OTHER                 -> v = Bad

\* The decode functions: the first parameter that is missing or refused is
\* an error; a parameter that is not given has its default.
Malformed(params, q) ==
  \E x \in DOMAIN params : IF x \in DOMAIN q THEN Refuses(params[x], q[x])
                                             ELSE params[x].need
Decode(params, q) ==
  [x \in DOMAIN params |-> IF x \in DOMAIN q THEN q[x] ELSE params[x].default]

-----------------------------------------------------------------------------
(* apiHandler: from the decoded parameters to a call *)

\* `if limit <= 0 { limit = 50 }'.
Limited(p) == [p EXCEPT !.limit = IF @ <= 0 THEN 50 ELSE @]

GetSnapshot(p) ==
  IF p.datetime = NoTime THEN Call("GetCurrentSnapshot", Limited(p))
  ELSE IF p.cel # NoCel THEN Reply("bad request")
  ELSE Call("GetHistoricalSnapshot", Limited(p))

GetHistory(p)          == Call("GetHistory", Limited(p))
GetVolatility(p)       == Call("GetVolatility", Limited(p))
GetVolatilityFields(p) == Call("GetVolatilityFields", Over([limit |-> 0], p))

\* The generated request handlers: decode, call, encode.
handleGetDiffRequest(q) ==
  LET params == Over(GetDiffWhere, GetDiffCommits)
  IN IF Malformed(params, q) THEN Reply("bad request") ELSE Call("GetDiff", Decode(params, q))

handleGetHistoryRequest(q) ==
  LET params == Over(GetHistoryWhere, Over(GetHistoryWhen, Over(GetHistoryType, GetHistoryPage)))
  IN IF Malformed(params, q) THEN Reply("bad request") ELSE GetHistory(Decode(params, q))

handleGetResourceRequest(q) ==
  IF Malformed(GetResourceWhere, q) THEN Reply("bad request")
  ELSE Call("GetResource", Decode(GetResourceWhere, q))

handleGetSnapshotRequest(q) ==
  LET params == Over(GetSnapshotWhen, Over(GetSnapshotWhere, Over(GetSnapshotCel, GetSnapshotPage)))
  IN IF Malformed(params, q) THEN Reply("bad request") ELSE GetSnapshot(Decode(params, q))

handleGetStatusRequest(q) == Call("GetStatus", <<>>)

handleGetVolatilityRequest(q) ==
  LET params == Over(GetVolatilityWhere, Over(GetVolatilityOver, GetVolatilityPage))
  IN IF Malformed(params, q) THEN Reply("bad request") ELSE GetVolatility(Decode(params, q))

handleGetVolatilityFieldsRequest(q) ==
  LET params == Over(GetVolatilityFieldsWhere, GetVolatilityFieldsOver)
  IN IF Malformed(params, q) THEN Reply("bad request")
     ELSE GetVolatilityFields(Decode(params, q))

handleHealthzRequest(q) == Call("Healthz", <<>>)

handleListClustersRequest(q) == Call("ListClusters", <<>>)

handleListGVKsRequest(q) ==
  IF Malformed(ListGVKsWhere, q) THEN Reply("bad request")
  ELSE Call("ListGVKs", Decode(ListGVKsWhere, q))

handleListNamespacesRequest(q) ==
  IF Malformed(ListNamespacesWhere, q) THEN Reply("bad request")
  ELSE Call("ListNamespaces", Decode(ListNamespacesWhere, q))

-----------------------------------------------------------------------------
(* Arguments of the MCP tools: what is missing, of another type or out of  *)
(* range is left at its default, required or not.                          *)

Strings(q, names)   == [x \in names |-> IF x \in DOMAIN q THEN q[x] ELSE NoArgs[x]]
Positive(q, x, d)   == IF x \in DOMAIN q /\ q[x] # Bad THEN IF q[x] > 0 THEN q[x] ELSE d ELSE d
NotNegative(q, x)   == IF x \in DOMAIN q /\ q[x] # Bad THEN IF q[x] >= 0 THEN q[x] ELSE 0 ELSE 0
Instant(q, x)       == IF x \in DOMAIN q /\ q[x] # Bad THEN q[x] ELSE NoTime

Scope    == {"cluster", "group", "kind", "namespace", "name"}
McpPage(q) == [limit |-> Positive(q, "limit", 50), offset |-> NotNegative(q, "offset")]

list_clusters(q)   == Call("ListClusters", <<>>)
list_gvks(q)       == Call("ListGVKs", Strings(q, {"cluster", "namespace"}))
list_namespaces(q) == Call("ListNamespaces", Strings(q, {"cluster"}))
get_resource(q)    == Call("GetResource", Strings(q, Scope))

get_snapshot(q) ==
  LET args == Over(Strings(q, Scope \cup {"cel", "datetime"}), McpPage(q))
  IN IF args.datetime = NoTime THEN Call("GetCurrentSnapshot", args)
     ELSE IF args.cel # NoCel \/ args.datetime = Bad THEN Reply("text")
     ELSE Call("GetHistoricalSnapshot", args)

\* Mutant: the end of the period is not passed on.
get_history_open(q) ==
  Call("GetHistory", Over([since |-> Instant(q, "since")],
                          Over(Strings(q, Scope \cup {"changeType"}), McpPage(q))))

get_history(q) ==
  Call("GetHistory", Over([since |-> Instant(q, "since"), until |-> Instant(q, "until")],
                          Over(Strings(q, Scope \cup {"changeType"}), McpPage(q))))

get_diff(q) == Call("GetDiff", Strings(q, Scope \cup {"from", "to"}))

get_volatility(q) ==
  Call("GetVolatility",
       Over([commits |-> Positive(q, "commits", 50),
             threshold |-> IF "threshold" \in DOMAIN q /\ q["threshold"] # Bad THEN q["threshold"] ELSE 0],
            Over(Strings(q, Scope), McpPage(q))))

get_volatility_fields(q) ==
  Call("GetVolatilityFields", Over([commits |-> Positive(q, "commits", 50),
                                    limit   |-> Positive(q, "limit", 0)], Strings(q, Scope)))

-----------------------------------------------------------------------------
(* Dispatch *)

\* The paths of the generated router; any other is not found, and any method
\* but GET not allowed.
Paths == {<<"healthz">>, <<"api", "clusters">>, <<"api", "diff">>, <<"api", "gvks">>,
          <<"api", "history">>, <<"api", "namespaces">>, <<"api", "resource">>,
          <<"api", "snapshot">>, <<"api", "status">>, <<"api", "volatility">>,
          <<"api", "volatility", "fields">>}
Routes == [path \in Paths |->
  CASE path = <<"healthz">>                     -> "Healthz"
    [] path = <<"api", "clusters">>             -> "ListClusters"
    [] path = <<"api", "diff">>                 -> "GetDiff"
    [] path = <<"api", "gvks">>                 -> "ListGVKs"
    [] path = <<"api", "history">>              -> "GetHistory"
    [] path = <<"api", "namespaces">>           -> "ListNamespaces"
    [] path = <<"api", "resource">>             -> "GetResource"
    [] path = <<"api", "snapshot">>             -> "GetSnapshot"
    [] path = <<"api", "status">>               -> "GetStatus"
    [] path = <<"api", "volatility">>           -> "GetVolatility"
    [] path = <<"api", "volatility", "fields">> -> "GetVolatilityFields"]

Operation(op, q) ==
  CASE op = "Healthz"             -> handleHealthzRequest(q)
    [] op = "ListClusters"        -> handleListClustersRequest(q)
    [] op = "GetDiff"             -> handleGetDiffRequest(q)
    [] op = "ListGVKs"            -> handleListGVKsRequest(q)
    [] op = "GetHistory"          -> handleGetHistoryRequest(q)
    [] op = "ListNamespaces"      -> handleListNamespacesRequest(q)
    [] op = "GetResource"         -> handleGetResourceRequest(q)
    [] op = "GetSnapshot"         -> handleGetSnapshotRequest(q)
    [] op = "GetStatus"           -> handleGetStatusRequest(q)
    [] op = "GetVolatility"       -> handleGetVolatilityRequest(q)
    [] OTHER                      -> handleGetVolatilityFieldsRequest(q)

ServeHTTP(path, method, q) ==
  IF path \notin Paths THEN Reply("not found")
  ELSE IF method # "GET" THEN Reply("not allowed")
  ELSE Operation(Routes[path], q)

Tool(name, q) ==
  CASE name = "list_clusters"         -> list_clusters(q)
    [] name = "list_gvks"             -> list_gvks(q)
    [] name = "list_namespaces"       -> list_namespaces(q)
    [] name = "get_resource"          -> get_resource(q)
    [] name = "get_snapshot"          -> get_snapshot(q)
    [] name = "get_history"           -> get_history(q)
    [] name = "get_diff"              -> get_diff(q)
    [] name = "get_volatility"        -> get_volatility(q)
    [] name = "get_volatility_fields" -> get_volatility_fields(q)
    [] OTHER                          -> Reply("no such tool")
=============================================================================
