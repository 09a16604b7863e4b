------------------------------- MODULE MCApi -------------------------------
(***************************************************************************)
(* Two clusters, four resources: a Deployment and a StatefulSet with one   *)
(* name, the Deployment again in another namespace, and a cluster-scoped   *)
(* one.  The label app is indexed; tier is not, and some files lack it.    *)
(* One commit deletes two of one namespace and name: their events show the *)
(* same, since an event of a deletion has no kind.                         *)
(***************************************************************************)
EXTENDS Api, TLC

MCMeta ==
  LET m(g, k, ns, n) == [group |-> g, version |-> "v1", kind |-> k, namespace |-> ns, name |-> n]
  IN "d" :> m("apps", "Deployment", "a", "web") @@ "s" :> m("apps", "StatefulSet", "a", "web")
     @@ "e" :> m("apps", "Deployment", "b", "api") @@ "n" :> m("core", "Namespace", "", "a")
MCWalkOrder    == <<"d", "s", "e", "n">>
MCClusterNames == <<"c1", "c2">>

MCNames == {"", "apps", "core", "Deployment", "deployment", "StatefulSet", "Namespace"}
MCFold  == [x \in MCNames |-> IF x = "Deployment" THEN "deployment" ELSE x]
MCRank  == "a" :> 1 @@ "api" :> 2 @@ "web" :> 3 @@ "app" :> 4 @@ "tier" :> 5

X1 == [app |-> "x", tier |-> 1]
X2 == [app |-> "x", tier |-> 2]
Y  == [app |-> "y"]
MCDocs == {X1, X2, Y}

T(d, s, e, n) == "d" :> d @@ "s" :> s @@ "e" :> e @@ "n" :> n
MCTrees == {T(X1, X2, X1, None)}
MCInitialLog ==
  "c1" :> <<[time |-> 1, tree |-> T(X1, X2, X1, X2)], [time |-> 3, tree |-> T(None, None, X2, X1)]>> @@
  "c2" :> <<[time |-> 2, tree |-> T(None, X1, Y, None)], [time |-> 3, tree |-> T(None, X2, None, X1)],
            [time |-> 4, tree |-> T(None, X2, X1, X1)]>>

Is(f, v) == [test |-> "is", field |-> f, value |-> v]
Has(f)   == [test |-> "has", field |-> f, value |-> 0]

Snapshots ==
  {<<>>, [limit |-> 1], [limit |-> 1, offset |-> 1], [limit |-> 63, offset |-> 1],
   [limit |-> 0, offset |-> -1], [limit |-> Bad], [namespace |-> "b"],
   [kind |-> "deployment", name |-> "web"], [group |-> "apps", kind |-> "StatefulSet", namespace |-> "b"],
   [cluster |-> "c1", cel |-> Is("app", "x")], [cel |-> Is("tier", 2)], [cel |-> Has("tier")],
   [cel |-> Bad], [datetime |-> 2, limit |-> 2],
   [datetime |-> 2, limit |-> 2, offset |-> 2], [datetime |-> 2, cel |-> Has("app")]}
Histories ==
  {<<>>, [limit |-> 5], [limit |-> 5, offset |-> 5], [since |-> 2, until |-> 2], [since |-> Bad],
   [changeType |-> "deleted", cluster |-> "c1"], [changeType |-> "renamed"]}
Volatilities ==
  {<<>>, [kind |-> "Deployment", commits |-> 1], [name |-> "api", commits |-> 0], [kind |-> "StatefulSet", threshold |-> 60],
   [limit |-> 1, offset |-> 1]}
OfFields ==
  {[kind |-> "Deployment"], [group |-> "apps", kind |-> "Deployment"],
   [group |-> "apps", kind |-> "StatefulSet", namespace |-> "a", commits |-> 1],
   [group |-> "apps", kind |-> "StatefulSet", limit |-> 1]}
Keys == {[cluster |-> c, group |-> MCMeta[o].group, kind |-> MCMeta[o].kind,
          namespace |-> MCMeta[o].namespace, name |-> MCMeta[o].name] :
           c \in {"c1"}, o \in {"d", "s", "n"}}
Resources == Keys \cup {[cluster |-> "c3", group |-> "core", kind |-> "Namespace", name |-> "a"],
                        [group |-> "core", kind |-> "Namespace", name |-> "a"]}
Diffs == {k @@ [from |-> x[1], to |-> x[2]] :
            k \in {y \in Keys : y.kind = "Namespace"} \cup
                  {[cluster |-> "c2", group |-> "apps", kind |-> "Deployment",
                    namespace |-> "b", name |-> "api"]},
            x \in {<<1, 2>>, <<1, 3>>, <<3, Bad>>}}

MCQueries ==
     "GetSnapshot" :> Snapshots @@ "GetHistory" :> Histories @@ "GetVolatility" :> Volatilities
  @@ "GetVolatilityFields" :> OfFields @@ "GetResource" :> Resources @@ "GetDiff" :> Diffs
  @@ "ListGVKs" :> {<<>>, [namespace |-> "b"], [cluster |-> "c1", namespace |-> "b"]}
  @@ "ListNamespaces" :> {<<>>, [cluster |-> "c3"]} @@ "ListClusters" :> {<<>>}
  @@ "GetStatus" :> {<<>>} @@ "Healthz" :> {<<>>}

MCTools == "get_snapshot" :> "GetSnapshot" @@ "get_history" :> "GetHistory"
  @@ "get_volatility" :> "GetVolatility" @@ "get_volatility_fields" :> "GetVolatilityFields"
  @@ "get_resource" :> "GetResource" @@ "get_diff" :> "GetDiff" @@ "list_gvks" :> "ListGVKs"
  @@ "list_namespaces" :> "ListNamespaces" @@ "list_clusters" :> "ListClusters"

Rest(path, method, token, q) == [path |-> path, method |-> method, tool |-> "", token |-> token, q |-> q]
AsTool(tool, token, q) == [path |-> <<"mcp">>, method |-> "POST", tool |-> tool, token |-> token, q |-> q]

MCRequests ==
  UNION {{Rest(p, "GET", "valid", q) : q \in MCQueries[Routes[p]]} : p \in DOMAIN Routes}
  \cup UNION {{AsTool(t, "valid", q) : q \in MCQueries[MCTools[t]]} : t \in DOMAIN MCTools}
  \cup {Rest(p, "GET", "none", <<>>) : p \in {<<"healthz">>, <<"api", "clusters">>, <<"api">>}}
  \cup {Rest(<<"api", "groups">>, "GET", "valid", <<>>), Rest(<<"api", "status">>, "POST", "valid", <<>>),
        Rest(<<"mcp", "">>, "POST", "expired", <<>>), AsTool("list_clusters", "expired", <<>>),
        AsTool("list_pods", "valid", <<>>)}
=============================================================================
