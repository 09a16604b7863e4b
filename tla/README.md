# korpus: a TLA+ development

korpus keeps a Kubernetes cluster's objects as YAML files in a git repository
(the *Information Base*) and serves that repository to people and agents. This
directory holds TLA+ models of the two programs and of the web page, the TLC runs that check them
on small instances, and TLAPS proofs for every size.

## The system

| part | source | state | operations |
|---|---|---|---|
| backup daemon | `cmd/korpus/main.go` | `runner{gc, workDir}`, cron runs in progress, metrics | `init`, `reset`, `runOnce`, `run`, start, SIGTERM |
| git client | `internal/gitclient` | the clone: history, HEAD, working tree, index | `Clone`, `Pull`, `IsClean`, `CommitAndPush`, `FileAtCommit` |
| store | `internal/store` | files under `subDir` | `Write`, `CleanObsolete` |
| discovery, fetcher | `internal/discovery`, `internal/fetcher` | none | list the types, list the objects of a type |
| rules | `internal/config` (`config.go`, `cel.go`) | compiled `excludeIf` programs and the object they read (`celItemContext`) | `IsExcluded`, `IsObjectExcluded`, `IsBuiltinObjectExcluded`, `IsCELObjectExcluded`, `ResolveExcludeFieldsForObject` |
| sanitizer | `internal/sanitizer` | none | `DeleteFields` |
| server pull loops | `cmd/server/main.go` | `ClusterState` per cluster: git client, directory, indexes, status | first clone, pull, re-clone, `rebuildIndexes`, `recordPull` |
| resource index | `internal/index` | list of resources, cache of CEL programs | `Build`, `Get`, `List`, `Query` |
| git indexes | `internal/gitindex` | commits by time, change events | `BuildCommitIndex`, `FindBefore`, `BuildChangeIndex`, `Query`, `Volatility`, `FieldVolatilityFromRepo` |
| queries | `internal/query` | none | one method per REST or MCP operation |
| HTTP | `cmd/server/handler.go`, `main.go`, `internal/api` (generated) | none | router, parameter decoding, handlers, MCP tools, answers |
| OIDC | `internal/oidc`, `cmd/server/main.go` | cached upstream metadata | token check, well-known documents, discovery, authorization and registration proxies |
| frontend | `cmd/server/frontend` | React state, the address and session history, requests under way | filters, list, detail, history, diff, volatility, Back, Forward, reload |
| frontend login | `frontend/src/auth.ts`, `main.tsx`, `api.ts` | `sessionStorage`: token and expiry, state, verifier | `initAuth`, PKCE redirect, `exchangeCode` |

The daemon and the server never talk to each other: they share the git
repository. A cron tick starts a goroutine that pulls the clone (re-clones it
when that fails), lists every type and every object, skips excluded ones,
writes one sanitized file per object, removes the files of objects it did not
see, and, if the working tree has changed, commits and pushes (re-clones when
that fails). The server has one goroutine per cluster that clones, indexes,
and then pulls and re-indexes at every tick; handlers read the shared indexes,
the clone's history and its files while that happens.

What is hard here: runs of one process may overlap and share the clone; a
signal removes the clone under a run; every remote operation can fail, or
succeed and lose its answer, and the next run starts from whatever is left;
other writers share the repository; a failed list looks like a deletion; the
server's readers combine pieces of state that are swapped one by one; a nil
client or an empty clone left by one failure is used by the next step; answers
reach the page in any order, or not at all, after the user has moved on; two
interfaces (REST and MCP) turn the same question into calls in two ways; a login
is interrupted by reloads and by tokens that expire.

## Modules

| module | models | kind |
|---|---|---|
| `InfoBase` | what the daemon promises: `want` (what files should hold), `hist` (the published commits); `Change`, `Backup`, `Share`, and the smaller `HistorySpec` | abstract |
| `Backup` | `cmd/korpus/main.go`, `internal/gitclient`, `internal/store`, and the part of `internal/config` a run calls | detailed; implements `InfoBase` |
| `BackupProofs` | theorems about `Backup`: types and the shared history; what a backup holds | proofs |
| `Mirror` | what the server promises about its lists: `history` (what each backup holds) and `shown` (the backup shown and its listing); `Publish`, `Show`, `Restart` | abstract |
| `Server` | the pull loop of `cmd/server/main.go`, `rebuildIndexes`, `ClusterState`, `Healthz`, and the reads of `internal/query` step by step | detailed; implements `Mirror` |
| `History` | `internal/gitindex` and the history queries of `internal/query` | algorithms over a growing log |
| `ApiSchema` | `internal/api` (router, parameters), the parameter handling of `handler.go` and of the MCP tools | functions from a request to a call |
| `Api` | `internal/query` over several clusters, `internal/index` (lists, CEL queries), the mux and its token check, answers | detailed; extends `ApiSchema` |
| `Sanitizer` | `internal/sanitizer` | algorithm |
| `Rules` | `internal/config/config.go`, `internal/defaults` and the files that result | algorithms over a growing rule list; extends `Sanitizer` |
| `OidcProxy` | the OAuth handlers of `cmd/server/main.go` | detailed |
| `Login` | `auth.ts`, `main.tsx`, `api.ts`, `internal/oidc`, `/auth-config` | composed with `OidcProxy`, which it extends |
| `Frontend` | `App.tsx`, `ResourceDetail.tsx`, `VolatilityView.tsx` and the smaller components | detailed |
| `Positions`, `PositionProofs` | the elements of a sequence at given positions (loops that filter), several sequences one after the other (loops that append) and a sequence in a given order (`sort.Slice`), with lemmas about them | helper |
| `LineDiff` | `computeLineDiff` of `ResourceDetail.tsx` | algorithm |
| `ServerProofs`, `HistoryProofs`, `ApiProofs`, `RulesProofs`, `LoginProofs` (with `OidcProxy`), `FrontendProofs` | theorems about these modules | proofs |
| `MC*` | values of the constants | instances |

The daemon and the server meet in the repository only. `Backup` proves that the
published history grows by one commit at a time and is never rewritten; `Server`
and `History` take this as the behaviour of their environment (`Publish`,
`Commit`). `Api` takes the pull loop's effect from `Server` without its faults, and
`Frontend` takes the answers from the server as functions of the request.

### Backup

| variable | code |
|---|---|
| `cluster` | the API server's objects; `spec` is what `sanitizer.DeleteFields` leaves, `noise` what it removes |
| `remote` | the configured branch of the repository |
| `work` | `runner.workDir`, and `runner.gc`, which is nil exactly when `workDir` is empty |
| `disk` | directories made by `os.MkdirTemp`: the clone's history, its working tree, whether `subDir` exists |
| `run[r]` | the local variables of one call of `runOnce` (`currPaths`, the remaining types, the listed objects) and where it is |
| `phase`, `doomed` | `main`: running, or in its deferred `c.Stop()` and `os.RemoveAll(workDir)` |
| `celItem` | `celItemContext.item` |
| `seen`, `faults`, `edits`, `others`, `panicked` | history variables and bounds |

`runOnce` is cut at the places where another goroutine, the API server or the
repository can act: `Tick` (cron), `Pull`, `Reset` / `Erase` / `Removed` /
`InitRunner` (the re-clone: `RemoveAll` entry by entry, then a clone),
`Discover`, `ListAll` / `ListDone` (one type each), `Item` (the exclusion
checks, up to the store of the object for the `excludeIf` programs) and
`WriteItem` (their evaluation, `DeleteFields`, `Write`), `Clean`
(`CleanObsolete`), `IsClean`, `CommitAll` (`git add`, `git commit`) and `Push`.
Each action has the fault branches of its calls. `Terminate`, `EraseDoomed`
and `Exit` are the signal, the deferred removal and the end of the process,
`Crash` is a kill. `Edit` and `Other` are the cluster and other writers.

A commit's history is the sequence of its commits. That a shallow clone (depth
1) tells the same histories apart is a property of git: a commit names its
parent. A push is accepted only as a fast-forward.

Code whose order cannot be seen is one action: a list of a type and the
`Gvk` lookup before it, the reading of a file before it is written, metrics.

### Server

`remote`, `disk` as above, with histories as numbers of commits. `pc[c]`,
`gcl[c]`, `wd[c]` are the program counter and the locals `gc`, `workDir` of the
goroutine of cluster `c`; `gc`, `idx`, `hist`, `pulled`, `count` are the fields
of `ClusterState`, set where the code sets them and, as in the code, not
together. `Setup`, `BuildIndex`, `BuildHistory`, `Record`, `Pull`, `Checkout`
(file by file: a reader may meet a truncated file), `Remove`, `Reclone` are the
steps of the loop; `NilPull` is the call on a nil client. `Serve` is the
`initWg.Wait()` before `ListenAndServe`, `ProbeRestart` the liveness probe on
`/healthz` of the manifests, `Ask` to `ReadTo` are the steps of a request.
`MirrorsRepository` maps `remote` to the sets of objects of its commits
(`Holdings`) and `idx` to the commit and the listing it shows (`Shown`).

### History

`log` is the git log of a cluster (time and tree of each commit; several
commits may have the same second and author dates may lie behind the clock),
`commitIdx` and `changeIdx` are the fields `refs` and `events`, `cutoff` the
`--since` of the last build. `Rebuild` is `rebuildIndexes`. `BuildCommitIndex`,
`FindBefore`, `ChangeIndexes`, `Query`, `VolatilityCount`, `VolatilityTotal`,
`FieldEvents`, `FindResourcePathInCommit`, `DiffFile` follow the functions of
these names. `sort.Slice` is not stable: `ChangeIndexes` is the set of all
results it may give.

### Rules

`rules` is the compiled rule list, `builtins` the `useDefaults` switch; an
operator edits the list (`Insert`) and restarts the daemon. `IsExcluded`,
`IsObjectExcluded`, `IsBuiltinObjectExcluded`, `IsCELObjectExcluded` and
`ResolveExcludeFields` are the functions of `config.go`; `Kept` is their order
in `runOnce`. `File` is what `runOnce` then writes: `Sanitizer!DeleteFields` of the
document. A document is a function from paths to `"map"`, `"list"` or a value; a
path of the configuration is a sequence of tokens (names, dots, quotes,
brackets), and `ParsePath` is the loop of `parsePath` over them.

### ApiSchema and Api

`ApiSchema` has one definition per generated decoder and request handler and
one per MCP tool, under their names; a request is mapped to the method of the
query server and its arguments, or to an error. `Api` has the clone of each
cluster (`log`), the commits its two kinds of index were built from (`idx`,
`hist`), the request under way and the one before it. `Receive` is the mux with
the token check; one `Visit...` action is one iteration of the loop over the
clusters of a method, `EvalNext` one evaluation of a CEL program (on the indexed
fields, then on the file), `Lookup`, `ReadFile` and `ReadVersion` are the reads
of `GetResource` and `GetDiff`, `Finish` sorts, cuts the page and encodes. `Pull`,
`BuildIndex` and `BuildHistory` happen between any two of them. As in the code, the
event of a deletion has no kind, since the file is gone from the commit: a filter on
the kind passes it over, two deletions in one commit of resources that share
group, namespace and name look the same, and `Volatility` counts by what events
show (`Key`). Integers are added modulo a small `MaxInt` (`Plus`).

### Frontend and LineDiff

One action per handler; React renders and runs the effects before the next
event, so the requests of the effects belong to the handler's step (`Render`).
What is on the screen is recorded as the request it answers. `calls` are the
requests without an answer: `Answer` takes any of them, `ErrorStatus` is an
answer without data, `NetworkError` a rejected promise. `Url` is the address in
terms of what is read back from it, `urls` and `at` the session history. `clean`
and `restoring` are history variables. `ComputeLineDiff` is the table and the
walk of `computeLineDiff`.

### OidcProxy

`cache[h]` is the cached document of each discovery handler, `regUp` and
`authUp` the endpoints that the proxies have looked up (`upstream`, `fetched`); `issuer` is what the
identity provider answers now. `Discover`, `Register`, `Authorize` are one
request each, since the handlers hold their mutex while they ask the issuer.

### Login

The page's side of the login, over the discovery handler of `OidcProxy`: `Load`,
`Boot` (`initAuth` up to the exchange), `Exchanged` / `ExchangeFails`, `Finish`
(`getStoredToken`, or a new state and verifier and the redirect), `SignIn` and
`Redeem` for the issuer, `Request` for a call with the stored token and the check
of `internal/oidc`. A reload, Back to an old address with a code and a second flow
in the same tab may come at any time.

## Runs

| run | instance | shows |
|---|---|---|
| `daemon` | one run at a time, two objects of two types, one foreign file, two directories, two faults, two edits, one foreign commit | the types and the clone invariant; the daemon implements `InfoBase`; a push publishes exactly what the run wrote; a success is published; deletions are real |
| `daemon_api` | three objects, one excluded by name, one by a program, every kind of fault including discovery and lists, fairness | history only grows and foreign files stay whatever the API server answers; after the last fault the repository converges |
| `daemon_overlap` | two overlapping runs, three directories, `subDir` the root, one fault, a signal during a run | no push drops a commit |
| `server` | one cluster, two objects, two commits, two faults of any kind, restarts by the probe, one request at a time | a ready cluster is consistent; listed history is readable; answers were published; the server implements `Mirror`; it catches up |
| `history` | two files, two contents, three commits, two per second, author dates one second late, retention of one second | the indexes and every query on them agree with the log |
| `api` | two clusters (one may have failed to clone), resources of the same name in several kinds, groups and namespaces, up to three commits, every operation of both interfaces, two requests between two changes | pages tile over clusters; what is offered is found; REST and MCP agree; CEL answers and diffs are of published files |
| `rules` | every list of up to two rules built by insertion, over core and group types and owners, and nested documents with lists | additive stripping, down to the files; the fields named are gone and nothing else; first rule wins; `excludeIf` separate |
| `oidc` | one handler and the page, a clock of four, a TTL of two, one change of the issuer, three login flows, three loads | no stale discovery document; the authorization proxy recovers; a code is exchanged with its own verifier; a page with a token is shown |
| `web` | three resources of one kind, two of them namesakes in different groups, pages of two, two changes of the view, four clicks within it, one failure, one unanswered request when the user acts | the list follows the filter; a quiet page is true; the address holds the view; the selection comes back; no notice of loading stays |

`MCFrontend` also has TLC evaluate `LineDiffs`: for all pairs of texts of one to
three lines, `ComputeLineDiff` shows both texts completely, in order, and marks a
longest common subsequence as unchanged.

Three more runs each find a behaviour that contradicts a statement of the
repository (see *Disagreements*): `daemon_spurious`, `server_panic`,
`history_fields`.

Why the bounds are enough for what the runs ask. Two faults are needed for a
failure of the repair of a failure (a failed pull, then a failed re-clone), and
the code keeps no counter of failures, so a third one finds the process in a
state the first two can reach. One foreign commit is enough for a conflict
between pull and push. Two edits let an object appear and vanish again. Two
directories are the one in use and the one of the re-clone (a third when two
runs re-clone or when a handler holds an entry of an old one). Three commits
with two in one second are the smallest log in which the binary search goes
both ways, retention cuts in the middle and times repeat. Rules interact
pairwise: the first match decides, or the union of all. A page that shows
something stale needs one answer that is overtaken by another, so one request
under way when the user acts again is enough; two changes of the view lead to
every page and back. Two requests are what agreement of interfaces, pages and
opening a listed row are about. Three flows are one that is left, one that is
answered late and the present one.
`MaxHistory`, `MaxEdits`, `MaxOther`, `MaxCommits`, `MaxTime`, `MaxChanges`,
`MaxRules`, `PerSecond`, `MaxBrowse`, `MaxInspect`, `MaxFailures`, `MaxInFlight`,
`MaxFlows` and `MaxLoads` bound counters that the code does not bound.
`daemon_overlap`, `rules`, `web` and `api` do not check deadlock: overlapping runs
stop when the branch has `MaxHistory` commits, the rule list is full at
`MaxRules`, the user stops after `MaxBrowse` and `MaxInspect` steps, and clients
after two requests when the last commit is indexed.

### Fairness

`Backup!FairSpec`: cron keeps ticking, a run in progress goes on (each of its
calls returns, with an error or without), `os.RemoveAll` ends, and Kubernetes
restarts the pod. No fairness for the cluster, other writers, faults, signals
and crashes, which are bounded by `MaxFaults`; so `Converges` says what happens
after the last of them. `Server!FairSpec`: every goroutine goes on, its ticker
fires, the container is started and the probe restarts it. The daemon need not
publish. `Login!LoginSpec`: clients keep asking the two proxies; the issuer, the
user and the page need not do anything. `Frontend` and `Api` state safety only.

`CatchesUp` needs the liveness probe (`Probe = TRUE`, as in the manifests'
deployment): a cluster whose first clone had no commits is never fetched again,
because `Pull` returns early without a HEAD and reports success to a loop that
then fails to build, and a first clone that fails ends the goroutine; only a
restart helps. Without the probe the property is violated.

## Proofs

TLAPS checks the following for all values of the constants that satisfy the
named `ASSUME` of each module. Every proof of an invariant has the same form:
an inductive invariant, one lemma or step per action that preserves it, and
the property from it. Those invariants that TLC can evaluate were checked on the
instance of the run before they were proved.

### Backup

`OneAtATime` (`Runs` has one element, so a run ends before the next tick, and
no signal arrives during a run) is an assumption about the schedule that the
code does not enforce; *Disagreements* says what happens without it.

- `TypeCorrect`: `TypeOK`, for any number of overlapping runs, any rules and
  faults. The strengthening `ItemAtHand` (an item is written from the list it
  was taken from) keeps `currPaths` typed.
- `NothingIsLost`: no push drops a commit of the branch, also for overlapping
  runs: a push is a fast-forward whatever the clone is.
- `CloneInvHolds`, under `OneAtATime`: the clone's files outside `subDir` are
  those of its HEAD, and its HEAD is one the remote extends, except that it is
  one commit of this run ahead between commit and push and from a failed push to
  the end of the re-clone.
- `HistoryImplemented`: `SharedHistory`, the history part of `InfoBase`,
  whatever the API server answers. `CloneInv` is needed because a push copies
  the clone.
- `SnapshotPublished`, `SuccessPublished`, `CelSees`, under `OneAtATime`, from
  `SnapInv`: at each step of a run the clone's `subDir` holds, for what the run
  has been through, what `currPaths` says (with the leftovers of failed runs
  until `CleanObsolete`), `celItem` is the item in hand, and unless a push is
  due or has failed, clone and remote agree on the files of the daemon and differ
  by foreign commits only. The last clause is what a success without a commit needs.
- `OnlyRealDeletions`, `InformationBaseImplemented`, under `OneAtATime` and
  `ApiAnswers` (discovery and lists do not fail), from `SeenInv`: every content
  a run has taken is one its object had since the previous backup. With a failed
  list both are false (`daemon_spurious`).

### Server

`TypesHold`, `ReadyConsistent`, `HistoryReadable`, `AnswersPublished` and the
refinement `MirrorImplemented`, for any clusters, objects, commits, faults and
restarts. `ServerInv` says of every cluster that the files of its clone are of
published commits, no older than its index and, outside a checkout, all of the last commit;
that the locals of its goroutine are the client in use or nil; that index,
history and count agree at the places of the loop where no build is under way;
and, so that one cluster's steps leave the others alone, that no directory is used by two. `Asked` says of a request that the list
entry and the commits it has read were published, so that what it reads later
is no older.

### History

- `HistoryTypes`; `LatestFound`: `FindBeforeIsLatest`; `PastFixed`:
  `PastIsFixed`, for every log, also with author dates that repeat and go back.
  `IndexInv`: the commit index is a permutation of the first commits, sorted by
  time and then by position. That such a sort exists (`SortExists`) and what the
  binary search returns (`SearchFinds`) are arguments by a least counterexample.
- `HistoryExplains`: `HistoryExplainsSnapshots`, under `IdsDiffer`. `ChangeInv`:
  behind the change index lies an arrangement of exactly the changes since the
  cutoff, each once and ascending in time, in whatever order `sort.Slice` leaves
  those of a second. `Clocked` (no commit is later than the clock) is needed for
  the newest ones to be in it. `IdsDiffer` (group, namespace and name tell the
  files apart) is not given by the code: a Service and a ConfigMap of one name
  share their events, and then a deletion of one reads like one of the other.
- `HistoryPages`: `PagesTileNewestFirst`, from the same invariant and, for the
  order, that positions of a filtered sequence ascend (`SubSeqAtPlaces`).
- `VolatilityCounts`: `CountsAreOfCommits`, under `IdsDiffer` and `FewCommits` (no more
  than the `1<<30` events that are asked for). In a list by descending commit, the
  longest beginning with at most `max` commits has exactly the events with fewer
  than `max` commits after theirs (`LongestIsRecent`); the count of a field is a
  bijection between the file's events and the commits that changed it.

### Api

`DiffOfCommits`: `DiffIsOfTheCommits`, for all clusters, histories and requests.
`DiffInv` follows a `GetDiff` through its three reads: the file it has looked up is
one its searches may find for the arguments, hence the one asked for when no
other fits, and the first text is that of the commit `from`. `DataTypes` and `Grown`
(a clone keeps the commits it has) carry this over pulls and builds between the
reads.

The other four speak of answers and follow from `SteadyInv`: as long as nothing is
pulled or built, a request is at every step where a function of the data says
(`Progress`): the clusters it has visited have contributed their `Part`, the others
are still to be visited, and once it is done it is `Answered` as the data say
(refused, or one of the `Results` of what was `Gathered`). The request before it was
answered from the same data, because every pull and build forgets it.

- `CelAnswers`: `CelAnswersAreTrue`, under `NamesDiffer` (the clusters of the
  configuration have different names). Its first half holds across pulls too and
  needs `CelInv`: a candidate carries the commit of its index entry, and what has
  been kept met the expression in a version from there on. Its second half counts
  what was kept (`QueryCounts`).
- `OffersFound`: `OffersAreFound`, under `NamesDiffer` and `KeysApart` (every
  resource has a group, and no two keys differ only in the case of group or kind).
  Without `KeysApart` the code does not give it: `Get` compares group and kind with
  `strings.EqualFold` and returns the first match.
- `PagesFollowOn`: `PagesFollow`, under `NamesDiffer`. What is paged lists the
  entries or events of `Whole` each once (`ListsAll`), for the history in the
  order of the sort; a page is a stretch of it (`PageIs`), two that follow one
  another join (`PagesJoin`), and a stretch shows no row more often than it is held
  (`StretchCounts`).
- `RestAndMcpAlike`: `RestAndMcpAgree`, without a hypothesis. From a query in range
  both interfaces take the same parameters with the same defaults (`Takes`,
  `SameArgs`), so the two calls are one, and the answers to one call are equal
  (`AnswersAlike`). The entries of `GetVolatility` come from a map and are sorted by
  ratio and name; any two such sorts have, place by place, equal ratios and names
  (`RankingsAlike`): an entry's place is decided by how many rank above it, two
  arrangements by that number agree on it at each place (`TwoArranged`, by
  counting), and entries that share it do not rank above each other (`PlacesTie`).

### Rules and Sanitizer

`FirstRuleDecides`, `ProgramsAreSeparate`, `CutsAreAdditive`, `FilesLack`, for
every list of rules and every document. The core is a lemma about `DeleteFields`:
cutting a set of paths one after the other in any order gives the document
without the union of what each cuts from the whole one (`CutBy`), because a cut
removes whole subtrees. `FilesLack` assumes `PathsAreUnderstood`: `ParsePath` of a
configured path means what the path says and cuts it from every document. Paths
that end in `[*]` do not satisfy it (see *Disagreements*).

### OidcProxy and Login

`DiscoveryFresh` from `ProxyInv` (a cached document was the issuer's at a time no
earlier than its time stamp), `VerifierFits` and `SignedInShown` from `LoginInv` (an
exchange under way has the verifier of its code, a token says when it expires).
Both invariants hold of the composed system, whose steps are those of either part.

### Frontend

- `ListFollows`, `AddressInStep`, `SelectionRestored`, `NoticeEnds` from
  `PageInv`: list requests in flight are for the filter shown (the others are
  cancelled), every address of the session history opens a well-formed view, the
  present one opens the present view, and a restored selection is pending, or
  selected, until its list has arrived.
- `SettledPage`: `SettledPageIsTrue`, from `Settles`: as long as answers come in
  the order of each kind and without errors (`clean`), for the detail, the
  history, the diff and both volatility tables either no request is in flight
  and the right thing is shown, or the last one in flight asks for it. That the last
  one in flight is right, rather than some one, makes it inductive.

### How the definitions are written for it

The provers know neither `SelectSeq`, `SortSeq` nor the folds. Where a theorem
needs what the code's loops compute, the model says it by positions: `SubSeqAt` for
filtered sequences, `Chained` for those collected cluster by cluster or commit by
commit, `InOrder` for the sorted history of all clusters, `Over` for records put
together from parameters, the least matching index for the first rule,
a `CHOOSE` of the sorted permutation for `BuildCommitIndex`, the last own event in
`Replay`. Recursive functions (`FindBefore`'s search, `upTo`, the cuts of
`DeleteFields`) are proved to be what their equations say by giving a closed
form that satisfies them, and the closed form by the least counterexample
(`LeastNat`), since induction theorems cannot be instantiated.

### Only model-checked

- Liveness: `Converges`, `CatchesUp`, `AuthRecovers`. Fairness is out of the
  prover's reach.
- `LineDiffs`, a table over all pairs of texts.

## Disagreements

Shown by a run:

1. `daemon_spurious`: one failed list publishes deletions of objects that
   exist, and the next backup adds them again.
2. `server_panic`: a failed re-clone leaves a nil client that the next tick
   calls.
3. `history_fields`: `GetVolatilityFields` analyses the oldest `maxCommits`
   changes, its documentation says the most recent ones.

Stated in a module, false, and in no run:

- `Backup!SharedHistory` with a signal during a run (the instance of
  `daemon_overlap`): `main`'s deferred `RemoveAll` removes the working tree under
  the run, which then commits and pushes the removal, foreign files included;
  `docs/adr/0001-daemon-process.md:46` speaks of a graceful shutdown.
- `Backup!CelSeesItsItem` with two overlapping runs and an object in `CelRuled`:
  cron starts a run while another is in progress and an `excludeIf` program reads
  the other run's object; the comment at `internal/config/cel.go:14` says runs are
  sequential.
- `Backup!NoPanic`: a failed re-clone leaves `runner.gc` nil and the next cron
  run panics, as in 2.
- `Server!CatchesUp` with `Probe = FALSE`, above.
- `History!TotalIsExamined`: the total counts a commit that is not examined,
  and is 0 without a limit.
- `History!KindIsKnown`: the kind of a document whose `kind:` line lies behind
  the first 512 bytes is lost.
- `History!DiffIsOfResource`: the path search in a commit looks at group,
  namespace and name only and may give a resource of another kind.
- `Rules!FieldRulesKeepExclusions`: a rule that only strips fields is also an
  `include` verdict for what it matches.
- `Rules!BareNameIsCore`: a bare resource name matches the type in every group.
- `OidcProxy!RegistrationRecovers`: `sync.Once` keeps a failed lookup for ever.

`NewestFirst` speaks of orderly histories (author dates increase): within one
second `sort.Slice` may give any order.

What the properties of `Api` except, because the code does not give it:

- A negative `offset` in REST, or `offset + limit` beyond the largest integer, is
  a panic in a slice expression (`net/http` recovers it and drops the connection);
  REST's `commits <= 0` means no limit and a total of 0. MCP clamps numbers,
  ignores times it cannot parse, accepts any `changeType` and does not insist on
  required arguments.
- Pages asked for across a rebuild need not tile, nor do pages of volatility
  entries that tie, which come in the order of a Go map.
- An expression with `has()` on a field outside the index is false without a look
  at the file; one candidate that lacks a field, or whose file a pull has just
  removed, fails the whole query; a file read by the fallback may be newer than
  the list.
- A diff needs the resource in both commits. Two versions of one resource are
  listed twice and open the first. An empty group in `Get` matches every group.
- One commit's deletions of two resources that share group, namespace and name are
  equal rows of the history; `PagesFollow` counts rows.
- `/api/groups` and `/api/kinds` of the repository's README have no route.

What the properties of `Frontend` and `Login` except:

- Answers for the detail, the history, the diff, the volatility tables and the
  side bars are not cancelled: one that is overtaken stays on the screen
  (`SettledPageIsTrue` asks for answers in order). While a diff is loading its
  header is new and its text old. When another resource is selected, requests
  with its key and the old commits are sent once more.
- After a rejected list request the old rows stay under the new filter; after an
  error status (an expired token, say) the list is empty.
- Back from the volatility page loses the selection; `pendingSelect` compares no
  group, may match much later and then overrides what the user has selected. On
  the volatility page a new kind keeps offset and selection; its arrow button
  keeps the search expression. A search without a kind is not sent.
- A code whose exchange got no answer leaves a blank page on every reload of its
  address; the redirect goes to `/` and loses the filters; the page counts a
  token's life from its receipt and not from its issue.

`Sanitizer`: a path that ends in `[*]`, or that goes through a list of lists,
removes nothing; a quoted `"*"` is taken for the wildcard; a map whose only entry
is removed stays as an empty map.

## Assumptions and what is not modelled

- Histories are linear: the daemon, and other writers who push fast-forwards,
  make no merges, and git's author time is its committer time up to `Skew`.
- Nothing can be read from a repository whose directory has been removed.
  go-git may still answer from an object cache; the model gives the error.
- A cluster's goroutine in `Server` is stopped only with the process; the
  graceful shutdown of the HTTP server ends requests, not state.
- `Api` has no failing pulls; what they do to readers is in `Server`. Contents
  are flat records, so `diffFields` does not descend. Labels are in no answer:
  no caller sets a selector.
- `Frontend` is the desktop layout. The contents of the side bars (any choice may
  be offered), ages, highlighting and styles are left out, and so is a change of
  the server's data between two requests.
- CEL expressions are comparisons and `has()` on one field; the library is
  external, as are go-git, go-oidc, the issuer and the Kubernetes API server.
- The generated client, the decoders of answers and `FindPath`
  (`internal/api`) are not called by the program. The protected-resource
  document and `mergeAudience` rewrite text without state. Loading of the
  configuration, flags, metrics, manifests, CI and scripts are not modelled.

## Plan

Done, in this order: `InfoBase`, `Backup`, its proofs, `Server`, `History`,
`Rules`, `OidcProxy`; then `Frontend`, `LineDiff`, `Login`, `ApiSchema`, `Api`,
`Sanitizer`, `Mirror`; then the proofs of `Server`, `History`, `Rules`, `Login`,
`Frontend`, the snapshot part of `Backup`, and `Api`. Next:

1. Nested fields in `History` and `Api` (`diffFields` over paths).
2. `Server` composed with `InfoBase!HistorySpec` instead of `Publish`.
3. The registration proxy and `mergeAudience` composed with a client's
   registration.
