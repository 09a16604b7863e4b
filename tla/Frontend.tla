------------------------------ MODULE Frontend ------------------------------
(***************************************************************************)
(* The web page (cmd/server/frontend): the state of App, ResourceDetail    *)
(* and VolatilityView, their event handlers, the effects that ask the      *)
(* server when what they depend on has changed, and the answers, which may *)
(* arrive in any order or not at all.                                      *)
(*                                                                         *)
(* JavaScript runs a handler, the render it causes and the effects of that *)
(* render without interruption, so each handler is one step, the requests  *)
(* of its effects included; an answer is a step of its own.  What is on    *)
(* the screen is recorded as the request it answers.  Only the list of     *)
(* resources ignores the answers to requests it has replaced.              *)
(***************************************************************************)
EXTENDS Naturals, Sequences, FiniteSets, Positions

CONSTANTS
  Rows,        \* the resources in the order of the server's list:
               \* a sequence of [cluster, group, kind, namespace, name]
  Found,       \* the resources the search expression holds of
  HistoryOf,   \* [resources -> their commits, newest first]
  Query,       \* the search expression that is typed
  Default,     \* commits and threshold the page starts with: [commits, threshold]
  Other,       \* the other values typed: [commits, threshold]
  Limit,       \* DEFAULT_LIMIT, the size of a page
  None,        \* null
  MaxBrowse,   \* bound on the changes of filter, selection, page or address
  MaxInspect,  \* bound on the steps of the user within a page
  MaxInFlight, \* bound on the unanswered requests when the user acts
  MaxFailures  \* bound on the requests that fail

Resources == {Rows[i] : i \in DOMAIN Rows}

ASSUME FrontendConstants ==
  /\ Rows \in Seq(Resources)
  /\ Resources \subseteq [cluster : STRING, group : STRING, kind : STRING,
                          namespace : STRING, name : STRING]
  /\ Found \subseteq Resources
  /\ \A r \in Resources : HistoryOf[r] # <<>>
  /\ Query # "" /\ None \notin Resources
  /\ Limit \in Nat \ {0}
  /\ {MaxBrowse, MaxInspect, MaxInFlight, MaxFailures} \subseteq Nat

VARIABLES
  page,      \* isVolatility: "resources" or "volatility"
  filter,    \* selectedCluster, Group, Kind, Namespace, searchQuery, offset
  window,    \* commits and threshold
  selected,  \* the resource shown in the detail, or None
  pending,   \* pendingSelect: the resource to select once it is listed
  list,      \* resources and total: the request they answer
  detail,    \* the resource whose YAML is shown, or None
  panel,     \* the state of ResourceDetail
  vol,       \* the state of VolatilityView
  calls,     \* requests without an answer, oldest first
  urls,      \* the session history of the browser
  at,        \* the entry of it that is current
  browsed,   \* history: changes of filter, selection, page or address
  inspected, \* history: other steps of the user
  failures,  \* history: requests that failed
  clean,     \* history: since the page was loaded no request failed and no
             \* answer was overtaken by the one to a later request
  restoring  \* history: the selection at a reload, until the user acts or
             \* a request fails

vars == <<page, filter, window, selected, pending, list, detail, panel, vol,
          calls, urls, at, browsed, inspected, failures, clean, restoring>>

-----------------------------------------------------------------------------
(***************************************************************************)
(* The server, as the page sees it.                                        *)
(***************************************************************************)
Clusters == {""} \cup {r.cluster : r \in Resources}
Namespaces == {""} \cup {r.namespace : r \in Resources}
GVKs == {<<"", "">>} \cup {<<r.group, r.kind>> : r \in Resources}

Filters == [cluster : Clusters, group : {g[1] : g \in GVKs},
            kind : {g[2] : g \in GVKs}, namespace : Namespaces,
            q : {"", Query}, offset : {n * Limit : n \in 0 .. Len(Rows)}]

NoFilter == [cluster |-> "", group |-> "", kind |-> "", namespace |-> "",
             q |-> "", offset |-> 0]

\* An empty parameter is not sent, and does not restrict the answer.
Admits(wanted, value) == wanted \in {"", value}

Matches(f, r) ==
  /\ Admits(f.cluster, r.cluster)
  /\ Admits(f.group, r.group) /\ Admits(f.kind, r.kind)
  /\ Admits(f.namespace, r.namespace)
  /\ f.q = "" \/ r \in Found

Matching(f) == SubSeqAt(Rows, {i \in DOMAIN Rows : Matches(f, Rows[i])})

PageOf(f) ==
  LET m == Matching(f)
      end == f.offset + Limit
  IN  SubSeq(m, f.offset + 1, IF end < Len(m) THEN end ELSE Len(m))

SeqToSet(s) == {s[i] : i \in DOMAIN s}

(***************************************************************************)
(* The requests.                                                           *)
(***************************************************************************)
Call(to, arg) == [to |-> to, arg |-> arg]

\* fetchPage sends the expression only with a kind.
ListRequest(f) == IF f.kind = "" THEN [f EXCEPT !.q = ""] ELSE f

VolRequest(f, w) ==
  [cluster |-> f.cluster, group |-> f.group, kind |-> f.kind,
   namespace |-> f.namespace, commits |-> w.commits, threshold |-> w.threshold]

FieldsRequest(e, w) == [of |-> e, commits |-> w.commits]

NoList == [of |-> None, ok |-> FALSE, lost |-> FALSE]
Panel0 == [tab |-> "yaml", history |-> None, shas |-> <<>>, diff |-> None]
Vol0 == [shown |-> None, loading |-> FALSE, entry |-> None,
         fields |-> None, fieldLoading |-> FALSE]

\* What is listed, and the total below the list.
Items == IF list.ok THEN PageOf(list.of) ELSE <<>>
Total == IF list.ok THEN Len(Matching(list.of)) ELSE 0

\* The rows of the volatility table.
Entries == {r \in Resources : vol.shown # None /\
              Matches([NoFilter EXCEPT !.cluster = vol.shown.cluster,
                                       !.group = vol.shown.group,
                                       !.kind = vol.shown.kind,
                                       !.namespace = vol.shown.namespace], r)}

-----------------------------------------------------------------------------
(***************************************************************************)
(* The address of the page.                                                *)
(***************************************************************************)
\* Mutant: the offset is not part of the address.
UrlWithoutOffset(pg, f, s, w) ==
  IF pg = "volatility"
  THEN [page |-> pg, filter |-> [f EXCEPT !.q = "", !.offset = 0],
        sel |-> None, window |-> w]
  ELSE [page |-> pg, filter |-> [f EXCEPT !.offset = 0], sel |-> s,
        window |-> Default]

\* syncResourcesUrl and syncVolatilityUrl, in terms of what is read back: a
\* parameter that is not written is read as its default.
Url(pg, f, s, w) ==
  IF pg = "volatility"
  THEN [page |-> pg, filter |-> [f EXCEPT !.q = "", !.offset = 0],
        sel |-> None, window |-> w]
  ELSE [page |-> pg, filter |-> f, sel |-> s, window |-> Default]

\* The effect that replaces the current entry: i, in the session history h.
SyncUrl(h, i) ==
  /\ at' = i
  /\ urls' = [h EXCEPT ![i] = Url(page', filter', selected', window')]

\* history.pushState drops the entries after the current one.
Pushed == Append(SubSeq(urls, 1, at), urls[at])

-----------------------------------------------------------------------------
(***************************************************************************)
(* Rendering: which effects run when filter, selection, page or window     *)
(* change, and what they ask for.                                          *)
(***************************************************************************)

\* getFromTo: the history is newest first, so the commit with the higher index
\* is the older one.
FromTo(shas, of) ==
  LET h == IF of = None THEN <<>> ELSE HistoryOf[of]
      Index(c) == CHOOSE i \in DOMAIN h : h[i] = c
  IN  IF Len(shas) # 2 \/ ~ (SeqToSet(shas) \subseteq SeqToSet(h)) THEN None
      ELSE IF Index(shas[1]) > Index(shas[2])
           THEN [from |-> shas[1], to |-> shas[2]]
           ELSE [from |-> shas[2], to |-> shas[1]]

DiffRequest(r, ft) == [of |-> r, from |-> ft.from, to |-> ft.to]

\* Mutant: the answer to a replaced list request is not ignored.
KeptUncancelled(cs, f, pg) ==
  SubSeqAt(cs, {i \in DOMAIN cs :
    /\ cs[i].to \in {"history", "diff"} => pg = "resources"
    /\ cs[i].to \in {"volatility", "fields"} => pg = "volatility"})

\* The requests whose answers will still be looked at: a replaced list request
\* is cancelled, and a component that is not mounted any more sets no state.
Kept(cs, f, pg) ==
  SubSeqAt(cs, {i \in DOMAIN cs :
    /\ cs[i].to = "list" => f = filter
    /\ cs[i].to \in {"history", "diff"} => pg = "resources"
    /\ cs[i].to \in {"volatility", "fields"} => pg = "volatility"})

\* ResourceDetail starts anew when it is mounted or shows another resource.
PanelAfter(s, pg) ==
  IF page # "resources" \/ pg # "resources" \/ s # selected THEN Panel0 ELSE panel

\* In the render in which the resource changes, the effects for the history and
\* the diff still see the tab, the history and the commits of the resource
\* before; what they set is reset, what they ask for is not.
StrayCalls(s, pg) ==
  LET ft == FromTo(panel.shas, panel.history)
  IN  IF page # "resources" \/ pg # "resources" \/ s \in {selected, None} THEN <<>>
      ELSE (IF panel.tab = "history" THEN <<Call("history", s)>> ELSE <<>>)
             \o (IF ft = None THEN <<>> ELSE <<Call("diff", DiffRequest(s, ft))>>)

ListCall(f) == IF f = filter THEN <<>> ELSE <<Call("list", ListRequest(f))>>

DetailCall(s) == IF s \in {selected, None} THEN <<>> ELSE <<Call("detail", s)>>

\* VolatilityView asks when it is mounted or one of its parameters changes, and
\* for the fields of its entry when the number of commits does.
Asks(f, pg, w) ==
  pg = "volatility" /\ (page # pg \/ VolRequest(f, w) # VolRequest(filter, window))

AsksFields(pg, w) ==
  pg = page /\ vol.entry # None /\ w.commits # window.commits

VolAfter(f, pg, w) ==
  IF pg # "volatility" THEN Vol0
  ELSE [vol EXCEPT !.loading = @ \/ Asks(f, pg, w),
                   !.fieldLoading = @ \/ AsksFields(pg, w)]

VolCalls(f, pg, w) ==
  (IF Asks(f, pg, w) THEN <<Call("volatility", VolRequest(f, w))>> ELSE <<>>)
    \o (IF AsksFields(pg, w) THEN <<Call("fields", FieldsRequest(vol.entry, w))>>
                             ELSE <<>>)

Render(cs, f, s, pg, w) ==
  /\ filter' = f /\ selected' = s /\ page' = pg /\ window' = w
  /\ detail' = IF s = None /\ s # selected THEN None ELSE detail
  /\ panel' = PanelAfter(s, pg)
  /\ vol' = VolAfter(f, pg, w)
  /\ calls' = Kept(cs, f, pg) \o StrayCalls(s, pg) \o VolCalls(f, pg, w)
                \o ListCall(f) \o DetailCall(s)

-----------------------------------------------------------------------------
(***************************************************************************)
(* What the user does.                                                     *)
(***************************************************************************)
Browses ==
  /\ browsed < MaxBrowse /\ Len(calls) <= MaxInFlight
  /\ browsed' = browsed + 1
  /\ UNCHANGED <<inspected, failures>>

Inspects ==
  /\ inspected < MaxInspect /\ Len(calls) <= MaxInFlight
  /\ inspected' = inspected + 1
  /\ restoring' = None
  /\ UNCHANGED <<browsed, failures, clean>>

\* A handler of App that ends in this filter, selection, page and window.
Handle(f, s, pg, w) ==
  /\ Render(calls, f, s, pg, w)
  /\ list' = IF f = filter THEN list ELSE [list EXCEPT !.lost = FALSE]

Goes(f, s, pg, w) ==
  /\ Browses
  /\ Handle(f, s, pg, w)
  /\ restoring' = None
  /\ UNCHANGED clean

\* handleClusterSelect
SelectCluster(c) ==
  /\ Goes([NoFilter EXCEPT !.cluster = c], None, page, window)
  /\ SyncUrl(urls, at)
  /\ UNCHANGED pending

\* handleNamespaceSelect keeps the kind.
SelectNamespace(ns) ==
  /\ Goes([filter EXCEPT !.namespace = ns, !.q = "", !.offset = 0], None, page, window)
  /\ SyncUrl(urls, at)
  /\ UNCHANGED pending

\* The kind on the page of resources, chosen or cleared.
SelectKind(g) ==
  /\ page = "resources"
  /\ Goes([filter EXCEPT !.group = g[1], !.kind = g[2], !.offset = 0],
            None, page, window)
  /\ SyncUrl(urls, at)
  /\ UNCHANGED pending

\* The kind on the page of volatility: offset and selection stay.
SelectVolatileKind(g) ==
  /\ page = "volatility"
  /\ Goes([filter EXCEPT !.group = g[1], !.kind = g[2]], selected, page, window)
  /\ SyncUrl(urls, at)
  /\ UNCHANGED pending

Search(q) ==
  /\ page = "resources"
  /\ Goes([filter EXCEPT !.q = q, !.offset = 0], None, page, window)
  /\ SyncUrl(urls, at)
  /\ UNCHANGED pending

\* onOffsetChange, from the two buttons of ResourceList.
Turn ==
  /\ page = "resources"
  /\ \E o \in {n \in {filter.offset + Limit} : n < Total}
             \cup {n - Limit : n \in {filter.offset} \ {0}} :
       Goes([filter EXCEPT !.offset = o], None, page, window)
  /\ SyncUrl(urls, at)
  /\ UNCHANGED pending

\* A click on a row; on the row that is selected it changes nothing.
Select ==
  /\ page = "resources"
  /\ \E r \in SeqToSet(Items) \ {selected} : Goes(filter, r, page, window)
  /\ SyncUrl(urls, at)
  /\ UNCHANGED pending

\* Mutant: the history is not asked for when there already is one.
SetTabCached(t) ==
  /\ page = "resources" /\ selected # None /\ panel.tab # t
  /\ Inspects
  /\ panel' = [panel EXCEPT !.tab = t]
  /\ calls' = IF t = "history" /\ panel.history = None
              THEN Append(calls, Call("history", selected)) ELSE calls
  /\ UNCHANGED <<page, filter, window, selected, pending, list, detail, vol, urls, at>>

\* setTab: the effect for the history asks again each time it is opened.
SetTab(t) ==
  /\ page = "resources" /\ selected # None /\ panel.tab # t
  /\ Inspects
  /\ panel' = [panel EXCEPT !.tab = t]
  /\ calls' = IF t = "history" THEN Append(calls, Call("history", selected))
                               ELSE calls
  /\ UNCHANGED <<page, filter, window, selected, pending, list, detail, vol, urls, at>>

\* The effect for the diff, after the commits or the history have changed.
DiffEffect(cs, shas, of) ==
  LET ft == FromTo(shas, of)
  IN  /\ panel' = [panel EXCEPT !.shas = shas, !.history = of,
                                !.diff = IF ft = None \/ selected = None THEN None ELSE @]
      /\ calls' = IF ft = None \/ selected = None THEN cs
                  ELSE Append(cs, Call("diff", DiffRequest(selected, ft)))

\* The state update of handleCommitClick: a third commit replaces the one
\* clicked first.
Clicked(shas, sha) ==
  IF sha \in SeqToSet(shas) THEN SelectSeq(shas, LAMBDA x : x # sha)
  ELSE IF Len(shas) < 2 THEN Append(shas, sha)
  ELSE <<shas[2], sha>>

ClickCommit ==
  /\ page = "resources" /\ selected # None
  /\ panel.tab = "history" /\ panel.history # None
  /\ \E sha \in SeqToSet(HistoryOf[panel.history]) :
       DiffEffect(calls, Clicked(panel.shas, sha), panel.history)
  /\ Inspects
  /\ UNCHANGED <<page, filter, window, selected, pending, list, detail, vol, urls, at>>

\* navigateToVolatility and navigateToResources
Navigate(pg) ==
  /\ page # pg
  /\ Goes(filter, selected, pg, window)
  /\ SyncUrl(Pushed, at + 1)
  /\ UNCHANGED pending

\* onSelectResource: the search expression stays.
OpenResource ==
  /\ page = "volatility"
  /\ \E e \in Entries :
       /\ Goes([filter EXCEPT !.cluster = e.cluster, !.group = e.group, !.kind = e.kind,
                                !.namespace = e.namespace, !.offset = 0],
                 None, "resources", window)
       /\ pending' = e
  /\ SyncUrl(Pushed, at + 1)

\* The number inputs of the page of volatility.
SetWindow(w) ==
  /\ page = "volatility" /\ w # window
  /\ Inspects
  /\ Handle(filter, selected, page, w)
  /\ SyncUrl(urls, at)
  /\ UNCHANGED pending

Refresh ==
  /\ page = "volatility"
  /\ Inspects
  /\ vol' = [vol EXCEPT !.loading = TRUE]
  /\ calls' = Append(calls, Call("volatility", VolRequest(filter, window)))
  /\ UNCHANGED <<page, filter, window, selected, pending, list, detail, panel, urls, at>>

SelectEntry ==
  /\ page = "volatility"
  /\ Inspects
  /\ \E e \in Entries \ {vol.entry} :
       /\ vol' = [vol EXCEPT !.entry = e, !.fieldLoading = TRUE]
       /\ calls' = Append(calls, Call("fields", FieldsRequest(e, window)))
  /\ UNCHANGED <<page, filter, window, selected, pending, list, detail, panel, urls, at>>

\* onPopState, after Back or Forward of the browser.
PopState(i) ==
  /\ i \in DOMAIN urls /\ i # at
  /\ Goes(urls[i].filter, None, urls[i].page, urls[i].window)
  /\ pending' = IF urls[i].sel = None THEN pending ELSE urls[i].sel
  /\ SyncUrl(urls, i)

\* The page is loaded from the address u: the initial state and first render.
Loaded(u) ==
  [page |-> u.page, filter |-> u.filter, window |-> u.window, pending |-> u.sel,
   vol |-> [Vol0 EXCEPT !.loading = u.page = "volatility"],
   calls |-> (IF u.page = "volatility"
              THEN <<Call("volatility", VolRequest(u.filter, u.window))>> ELSE <<>>)
             \o <<Call("list", ListRequest(u.filter))>>]

Reload ==
  LET u == Loaded(urls[at])
  IN  /\ Browses
      /\ page' = u.page /\ filter' = u.filter /\ window' = u.window
      /\ selected' = None /\ pending' = u.pending
      /\ list' = NoList /\ detail' = None
      /\ panel' = Panel0 /\ vol' = u.vol
      /\ calls' = u.calls
      /\ SyncUrl(urls, at)
      /\ clean' = TRUE
      /\ restoring' = IF page = "resources" /\ selected # None
                         /\ selected \in SeqToSet(PageOf(ListRequest(filter)))
                      THEN selected ELSE None

-----------------------------------------------------------------------------
(***************************************************************************)
(* What the network does with the request calls[i]: an answer, an answer   *)
(* with an error status (no data), or none (the promise is rejected).      *)
(***************************************************************************)
Without(i) == SubSeq(calls, 1, i - 1) \o SubSeq(calls, i + 1, Len(calls))

Overtakes(i) == \E j \in 1 .. i - 1 : calls[j].to = calls[i].to

SameObject(r, p) ==
  /\ r.name = p.name /\ r.kind = p.kind
  /\ r.namespace = p.namespace /\ r.cluster = p.cluster

\* Mutant: only the first row is looked at.
PendingFirst(items) ==
  IF pending # None /\ items # <<>> /\ SameObject(items[1], pending)
  THEN items[1] ELSE None

\* items.find compares everything but the group.
PendingIn(items) ==
  LET hits == {i \in DOMAIN items : SameObject(items[i], pending)}
  IN  IF pending = None \/ hits = {} THEN None
      ELSE items[CHOOSE i \in hits : \A j \in hits : i <= j]

\* setResources, setTotal and the selection that waits for this list.
AnswerList(i, ok) ==
  LET match == IF ok THEN PendingIn(PageOf(calls[i].arg)) ELSE None
  IN  /\ calls[i].to = "list"
      /\ list' = [of |-> calls[i].arg, ok |-> ok, lost |-> FALSE]
      /\ Render(Without(i), filter, IF match = None THEN selected ELSE match, page, window)
      /\ pending' = IF match = None THEN pending ELSE None
      /\ SyncUrl(urls, at)

AnswerDetail(i, ok) ==
  /\ calls[i].to = "detail"
  /\ detail' = IF ok THEN calls[i].arg ELSE None
  /\ calls' = Without(i)
  /\ UNCHANGED <<page, filter, window, selected, pending, list, panel, vol, urls, at>>

AnswerHistory(i, ok) ==
  /\ calls[i].to = "history"
  /\ DiffEffect(Without(i), panel.shas, IF ok THEN calls[i].arg ELSE None)
  /\ UNCHANGED <<page, filter, window, selected, pending, list, detail, vol, urls, at>>

\* Without data the diff that is shown stays.
AnswerDiff(i, ok) ==
  /\ calls[i].to = "diff"
  /\ panel' = IF ok THEN [panel EXCEPT !.diff = calls[i].arg] ELSE panel
  /\ calls' = Without(i)
  /\ UNCHANGED <<page, filter, window, selected, pending, list, detail, vol, urls, at>>

AnswerVolatility(i, ok) ==
  /\ calls[i].to = "volatility"
  /\ vol' = [vol EXCEPT !.shown = IF ok THEN calls[i].arg ELSE None, !.loading = FALSE]
  /\ calls' = Without(i)
  /\ UNCHANGED <<page, filter, window, selected, pending, list, detail, panel, urls, at>>

AnswerFields(i, ok) ==
  /\ calls[i].to = "fields"
  /\ vol' = [vol EXCEPT !.fields = IF ok THEN calls[i].arg ELSE None,
                        !.fieldLoading = FALSE]
  /\ calls' = Without(i)
  /\ UNCHANGED <<page, filter, window, selected, pending, list, detail, panel, urls, at>>

Answered(i, ok) ==
  \/ AnswerList(i, ok) \/ AnswerDetail(i, ok) \/ AnswerHistory(i, ok)
  \/ AnswerDiff(i, ok) \/ AnswerVolatility(i, ok) \/ AnswerFields(i, ok)

Answer ==
  /\ \E i \in DOMAIN calls :
       /\ Answered(i, TRUE)
       /\ clean' = (clean /\ ~ Overtakes(i))
  /\ UNCHANGED <<browsed, inspected, failures, restoring>>

Fails ==
  /\ failures < MaxFailures
  /\ failures' = failures + 1
  /\ clean' = FALSE /\ restoring' = None
  /\ UNCHANGED <<browsed, inspected>>

ErrorStatus == Fails /\ \E i \in DOMAIN calls : Answered(i, FALSE)

\* Mutant: VolatilityView does not catch a rejected request.
RejectedUncaught(i) ==
  /\ calls' = Without(i)
  /\ list' = IF calls[i].to = "list" THEN [list EXCEPT !.lost = TRUE] ELSE list
  /\ UNCHANGED <<page, filter, window, selected, pending, detail, panel, vol, urls, at>>

\* Only VolatilityView catches a rejected request.
Rejected(i) ==
  /\ calls' = Without(i)
  /\ list' = IF calls[i].to = "list" THEN [list EXCEPT !.lost = TRUE] ELSE list
  /\ vol' = [vol EXCEPT !.loading = @ /\ calls[i].to # "volatility",
                        !.fieldLoading = @ /\ calls[i].to # "fields"]
  /\ UNCHANGED <<page, filter, window, selected, pending, detail, panel, urls, at>>

NetworkError == Fails /\ \E i \in DOMAIN calls : Rejected(i)

-----------------------------------------------------------------------------
\* The addresses with which the page is opened: plain, or that of a resource.
Opened == {Url("resources", NoFilter, s, Default) : s \in {Rows[1], None}}

Init ==
  \E u \in Opened :
    LET first == Loaded(u)
    IN  /\ page = first.page /\ filter = first.filter /\ window = first.window
        /\ selected = None /\ pending = first.pending
        /\ list = NoList /\ detail = None
        /\ panel = Panel0 /\ vol = first.vol
        /\ calls = first.calls
        /\ urls = <<[u EXCEPT !.sel = None]>> /\ at = 1
        /\ browsed = 0 /\ inspected = 0 /\ failures = 0 /\ clean = TRUE /\ restoring = None

Browse ==
  \/ \E c \in Clusters : SelectCluster(c)
  \/ \E ns \in Namespaces : SelectNamespace(ns)
  \/ \E g \in GVKs : SelectKind(g) \/ SelectVolatileKind(g)
  \/ \E q \in {"", Query} : Search(q)
  \/ Turn \/ Select
  \/ \E pg \in {"resources", "volatility"} : Navigate(pg)
  \/ OpenResource
  \/ \E i \in DOMAIN urls : PopState(i)
  \/ Reload

Inspect ==
  \/ \E t \in {"yaml", "history"} : SetTab(t)
  \/ ClickCommit
  \/ \E w \in {[window EXCEPT !.commits = n] : n \in {Default.commits, Other.commits}}
             \cup {[window EXCEPT !.threshold = n] :
                      n \in {Default.threshold, Other.threshold}} : SetWindow(w)
  \/ Refresh \/ SelectEntry

Network == Answer \/ ErrorStatus \/ NetworkError

Next == Browse \/ Inspect \/ Network

Spec == Init /\ [][Next]_vars

-----------------------------------------------------------------------------
Quiet == calls = <<>>
InFlight(to) == \E i \in DOMAIN calls : calls[i].to = to

\* The list is the one of the filter above it: unless the request for it is on
\* its way or was lost, the rows answer the request of the current filter,
\* however the answers to earlier requests arrive (App.tsx: the cancelled flag).
ListFollowsFilter ==
  \/ list.lost
  \/ list.of = ListRequest(filter)
  \/ \E i \in DOMAIN calls : calls[i] = Call("list", ListRequest(filter))

\* When all requests are answered, in the order they were sent and without an
\* error, the detail is that of the selected resource: its YAML, its history,
\* and the diff of the two commits the header names (the effects of App and
\* ResourceDetail).
SettledDetailIsTrue ==
  Quiet /\ clean /\ page = "resources" /\ selected # None
    => LET ft == FromTo(panel.shas, panel.history)
       IN  /\ detail = selected
           /\ panel.tab = "history" => panel.history = selected
           /\ panel.tab = "history" /\ ft # None
                => panel.diff = DiffRequest(selected, ft)

\* When all requests are answered, in order and without an error, the ranking is
\* that of the filter and window, and the fields those of the entry that is
\* marked (the effects of VolatilityView).
SettledVolatilityIsTrue ==
  Quiet /\ clean /\ page = "volatility"
    => /\ vol.shown = VolRequest(filter, window)
       /\ vol.entry # None => vol.fields = FieldsRequest(vol.entry, window)

\* A quiet page shows what it says it shows, on both of its pages (App,
\* ResourceDetail and VolatilityView).
SettledPageIsTrue == SettledDetailIsTrue /\ SettledVolatilityIsTrue

\* Loading the page again, or sending its address to somebody, gives the same
\* view: every handler leaves the address in step with the filters, the page of
\* the list and the selection, or on the page of volatility with the filters and
\* the window (App.tsx: the effect that calls syncResourcesUrl or
\* syncVolatilityUrl).
AddressHoldsTheView ==
  LET u == Loaded(urls[at])
  IN  /\ u.page = page
      /\ page = "resources" => u.filter = filter /\ u.pending = selected
      /\ page = "volatility" => VolRequest(u.filter, u.window) = VolRequest(filter, window)

\* After a reload a resource with the cluster, kind, namespace and name of the
\* selected one is selected again as soon as the list has arrived, if the page
\* of the list has it, unless the user acts first or a request fails (App.tsx:
\* selName and pendingSelect).
SelectionComesBack ==
  restoring # None /\ ~ InFlight("list")
    => selected # None /\ SameObject(selected, restoring)

\* The page of volatility says that it is loading only while a request for what
\* is loading is on its way: answered or failed, each request ends the notice
\* (VolatilityView.tsx: then and catch).
LoadingMeansWaiting ==
  /\ vol.loading => InFlight("volatility")
  /\ vol.fieldLoading => InFlight("fields")
=============================================================================
