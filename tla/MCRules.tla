------------------------------ MODULE MCRules ------------------------------
(***************************************************************************)
(* Events of two groups and jobs, with and without a cron job as owner;    *)
(* rules for a type, for every type and for the objects of a namespace.    *)
(***************************************************************************)
EXTENDS Rules

MCEvents  == [res |-> "events", group |-> ""]
MCEvents2 == [res |-> "events", group |-> "custom.io"]
MCJobs    == [res |-> "jobs", group |-> "batch"]
MCTypes   == {MCEvents, MCEvents2, MCJobs}
MCCore    == ""

MCObjects == {[type |-> t, ns |-> "ns", name |-> w, owner |-> w] :
                t \in MCTypes, w \in {"CronJob", "none"}}

\* status, metadata.annotations["k.io"], metadata.annotations["a\"b"] and
\* spec.list[*].time.
Status == <<"status">>
Dotted == <<"metadata", ".", "annotations", "[", "\"", "k", ".", "io", "\"", "]">>
Quoted == <<"metadata", ".", "annotations", "[", "\"", "a", "\\", "\"", "b", "\"", "]">>
Times  == <<"spec", ".", "list", "[", "*", "]", ".", "time">>
MCFields  == {Status, Dotted, Quoted, Times}
MCMeaning ==
  Status :> <<<<"status">>>>
  @@ Dotted :> <<<<"metadata">>, <<"annotations">>, <<"k", ".", "io">>>>
  @@ Quoted :> <<<<"metadata">>, <<"annotations">>, <<"a", "\"", "b">>>>
  @@ Times :> <<<<"spec">>, <<"list">>, Each, <<"time">>>>

Node(places, kind) == [p \in places |-> kind]
Full ==
  LET meta == <<"metadata">>  ann == <<"annotations">>  spec == <<"spec">>  list == <<"list">>
  IN Node({<<>>, <<meta>>, <<meta, ann>>, <<spec>>, <<spec, list, <<"#1">>>>,
           <<spec, list, <<"#3">>>>, <<<<"status">>>>}, "map")
     @@ Node({<<spec, list>>}, "list")
     @@ Node({<<meta, ann, <<"k", ".", "io">>>>, <<meta, ann, <<"k">>>>, <<meta, ann, <<"a", "\"", "b">>>>,
              <<spec, list, <<"#1">>, <<"time">>>>, <<spec, list, <<"#1">>, <<"kept">>>>,
              <<spec, list, <<"#2">>>>, <<spec, list, <<"#3">>, <<"kept">>>>,
              <<<<"status">>, <<"time">>>>}, "value")

\* The whole; no status and a list that is a map; values where maps are meant.
MCDocuments ==
  {Full,
   [p \in DOMAIN Without(Full, {<<<<"status">>>>}) |-> IF p = <<<<"spec">>, <<"list">>>> THEN "map" ELSE Full[p]],
   Node({<<>>}, "map") @@ Node({<<<<"metadata">>>>, <<<<"spec">>>>, <<<<"status">>>>}, "value")}

MCBuiltinTypes  == {<<"events">>}
MCBuiltinOwners == {[key |-> <<"jobs">>, owner |-> "CronJob"]}
MCBuiltinFields == [k \in {<<"events">>} |-> {Status, Dotted}]

MCRuleSet ==
  {[resource |-> k, ns |-> n, name |-> Star, exclude |-> x, excludeFields |-> w[1], excludeIf |-> w[2]] :
     k \in {Star, <<"events">>, <<"events", "custom.io">>, <<"jobs", "batch">>},
     n \in {Star, "ns"}, x \in BOOLEAN,
     w \in {<<{}, "">>, <<{Times}, "">>, <<{Quoted, Status}, "">>, <<{Times}, "true">>, <<{}, "error">>}}
=============================================================================
