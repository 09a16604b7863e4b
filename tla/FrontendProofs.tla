--------------------------- MODULE FrontendProofs ---------------------------
(***************************************************************************)
(* Theorems about the web page for every list of resources, size of a page *)
(* and number of steps of the user and of requests in flight: the list     *)
(* follows the filter, the address holds the view, a selection survives a  *)
(* reload and a notice of loading ends, in whatever order the answers come;*)
(* and answers in order leave the page with what it says it shows.         *)
(***************************************************************************)
EXTENDS Frontend, PositionProofs

-----------------------------------------------------------------------------
(* Numbers and sequences *)

\* A sequence of whatever elements, and what it has.
IsSeq(s) == s \in Seq({s[i] : i \in DOMAIN s})
Has(s, c) == \E i \in 1..Len(s) : s[i] = c

LEMMA SeqIsSeq ==
  ASSUME NEW S, NEW s \in Seq(S)
  PROVE  IsSeq(s)
  <1>1. Len(s) \in Nat /\ s \in [1..Len(s) -> S]
    OBVIOUS
  <1>2. s \in [1..Len(s) -> {s[i] : i \in DOMAIN s}]
    BY <1>1
  <1> QED
    BY <1>1, <1>2 DEF IsSeq

LEMMA IsSeqFacts ==
  ASSUME NEW s, IsSeq(s)
  PROVE  Len(s) \in Nat /\ DOMAIN s = 1..Len(s) /\ s = [i \in 1..Len(s) |-> s[i]]
  BY DEF IsSeq

LEMMA SingleFacts ==
  /\ IsSeq(<<>>) /\ \A c : ~Has(<<>>, c)
  /\ \A x : IsSeq(<<x>>) /\ \A c : Has(<<x>>, c) <=> c = x
  <1>1. IsSeq(<<>>) /\ \A c : ~Has(<<>>, c)
    <2>1. <<>> \in Seq({}) /\ Len(<<>>) = 0
      OBVIOUS
    <2>2. IsSeq(<<>>)
      BY <2>1, SeqIsSeq
    <2> QED
      BY <2>1, <2>2 DEF Has
  <1>2. ASSUME NEW x PROVE IsSeq(<<x>>) /\ \A c : Has(<<x>>, c) <=> c = x
    <2>1. <<x>> \in Seq({x}) /\ Len(<<x>>) = 1 /\ <<x>>[1] = x
      OBVIOUS
    <2>2. IsSeq(<<x>>)
      BY <2>1, SeqIsSeq
    <2> QED
      BY <2>1, <2>2 DEF Has
  <1> QED
    BY <1>1, <1>2

LEMMA ConcatHas ==
  ASSUME NEW s, NEW t, IsSeq(s), IsSeq(t)
  PROVE  /\ IsSeq(s \o t)
         /\ \A c : Has(s \o t, c) <=> Has(s, c) \/ Has(t, c)
  <1> DEFINE S == {s[i] : i \in DOMAIN s} \cup {t[i] : i \in DOMAIN t}
             n == Len(s)
             m == Len(t)
  <1>1. s \in Seq(S) /\ t \in Seq(S)
    <2>1. /\ n \in Nat /\ s \in [1..n -> S]
          /\ m \in Nat /\ t \in [1..m -> S]
      BY IsSeqFacts
    <2> HIDE DEF S
    <2> QED
      BY <2>1
  <1> HIDE DEF S
  <1>2. /\ s \o t \in Seq(S) /\ Len(s \o t) = n + m /\ n \in Nat /\ m \in Nat
        /\ \A i \in 1..n : (s \o t)[i] = s[i]
        /\ \A i \in 1..m : (s \o t)[n + i] = t[i]
    BY <1>1
  <1>3. IsSeq(s \o t)
    BY <1>2, SeqIsSeq
  <1> HIDE DEF n, m
  <1>4. ASSUME NEW c, Has(s \o t, c) PROVE Has(s, c) \/ Has(t, c)
    <2>1. PICK i \in 1..(n + m) : (s \o t)[i] = c
      BY <1>2, <1>4 DEF Has
    <2>2. CASE i \in 1..n
      BY <1>2, <2>1, <2>2 DEF Has, n
    <2>3. CASE i \notin 1..n
      <3>1. i - n \in 1..m /\ i = n + (i - n)
        BY <1>2, <2>3
      <3>2. t[i - n] = c
        BY <1>2, <2>1, <3>1
      <3> QED
        BY <3>1, <3>2 DEF Has, m
    <2> QED
      BY <2>2, <2>3
  <1>5. ASSUME NEW c, Has(s, c) PROVE Has(s \o t, c)
    <2>1. PICK i \in 1..n : s[i] = c
      BY <1>5 DEF Has, n
    <2>2. i \in 1..(n + m) /\ (s \o t)[i] = c
      BY <1>2, <2>1
    <2> QED
      BY <1>2, <2>2 DEF Has
  <1>6. ASSUME NEW c, Has(t, c) PROVE Has(s \o t, c)
    <2>1. PICK i \in 1..m : t[i] = c
      BY <1>6 DEF Has, m
    <2>2. n + i \in 1..(n + m) /\ (s \o t)[n + i] = c
      BY <1>2, <2>1
    <2> QED
      BY <1>2, <2>2 DEF Has
  <1> QED
    BY <1>3, <1>4, <1>5, <1>6

LEMMA AppendFacts ==
  ASSUME NEW s, NEW x, IsSeq(s)
  PROVE  /\ IsSeq(Append(s, x))
         /\ \A c : Has(Append(s, x), c) <=> Has(s, c) \/ c = x
         /\ Len(Append(s, x)) = Len(s) + 1
         /\ \A i \in 1..Len(s) : Append(s, x)[i] = s[i]
         /\ Append(s, x)[Len(s) + 1] = x
  <1> DEFINE S == {s[i] : i \in DOMAIN s} \cup {x}
             n == Len(s)
  <1>1. s \in Seq(S) /\ x \in S
    <2>1. n \in Nat /\ s \in [1..n -> S]
      BY IsSeqFacts
    <2>2. x \in S
      OBVIOUS
    <2> HIDE DEF S
    <2> QED
      BY <2>1, <2>2
  <1> HIDE DEF S
  <1>2. /\ Append(s, x) \in Seq(S) /\ Len(Append(s, x)) = n + 1 /\ n \in Nat
        /\ \A i \in 1..n : Append(s, x)[i] = s[i]
        /\ Append(s, x)[n + 1] = x
    BY <1>1
  <1>3. IsSeq(Append(s, x))
    BY <1>2, SeqIsSeq
  <1>4. \A c : Has(Append(s, x), c) <=> Has(s, c) \/ c = x
    BY <1>2 DEF Has
  <1> QED
    BY <1>2, <1>3, <1>4

LEMMA WithoutFacts ==
  ASSUME IsSeq(calls), NEW i \in DOMAIN calls
  PROVE  /\ IsSeq(Without(i))
         /\ \A c : Has(Without(i), c) => Has(calls, c)
         /\ \A c : Has(calls, c) /\ c # calls[i] => Has(Without(i), c)
  <1> DEFINE S == {calls[k] : k \in DOMAIN calls}
             n == Len(calls)
             a == SubSeq(calls, 1, i - 1)
             b == SubSeq(calls, i + 1, n)
  <1>1. calls \in Seq(S) /\ n \in Nat /\ i \in 1..n
    BY IsSeqFacts DEF IsSeq
  <1> HIDE DEF S
  <1>2. /\ a \in Seq(S) /\ Len(a) = i - 1
        /\ \A k \in 1..(i - 1) : a[k] = calls[k]
    BY <1>1
  <1>3. /\ b \in Seq(S) /\ Len(b) = n - i
        /\ \A k \in 1..(n - i) : b[k] = calls[i + k]
    BY <1>1
  <1>4. Without(i) = a \o b
    BY DEF Without
  <1> HIDE DEF a, b, n
  <1>5. IsSeq(a) /\ IsSeq(b)
    BY <1>2, <1>3, SeqIsSeq
  <1>6. IsSeq(a \o b) /\ \A c : Has(a \o b, c) <=> Has(a, c) \/ Has(b, c)
    BY <1>5, ConcatHas
  <1>7. ASSUME NEW c, Has(a, c) PROVE Has(calls, c)
    BY <1>1, <1>2, <1>7 DEF Has, n
  <1>8. ASSUME NEW c, Has(b, c) PROVE Has(calls, c)
    <2>1. PICK k \in 1..(n - i) : b[k] = c
      BY <1>3, <1>8 DEF Has
    <2>2. i + k \in 1..n /\ calls[i + k] = c
      BY <1>1, <1>3, <2>1
    <2> QED
      BY <2>2 DEF Has, n
  <1>9. ASSUME NEW c, Has(calls, c), c # calls[i] PROVE Has(a, c) \/ Has(b, c)
    <2>1. PICK k \in 1..n : calls[k] = c
      BY <1>9 DEF Has, n
    <2>2. CASE k < i
      <3>1. k \in 1..(i - 1)
        BY <1>1, <2>1, <2>2
      <3> QED
        BY <1>2, <2>1, <3>1 DEF Has
    <2>3. CASE k > i
      <3>1. k - i \in 1..(n - i) /\ k = i + (k - i)
        BY <1>1, <2>1, <2>3
      <3>2. b[k - i] = c
        BY <1>3, <2>1, <3>1
      <3> QED
        BY <1>3, <3>1, <3>2 DEF Has
    <2>4. k # i
      BY <1>9, <2>1
    <2> QED
      BY <1>1, <2>1, <2>2, <2>3, <2>4
  <1> QED
    BY <1>4, <1>6, <1>7, <1>8, <1>9

-----------------------------------------------------------------------------
(* Requests *)

\* The answer to c will still be looked at after the render.
Looked(c, f, pg) ==
  /\ c.to = "list" => f = filter
  /\ c.to \in {"history", "diff"} => pg = "resources"
  /\ c.to \in {"volatility", "fields"} => pg = "volatility"

LEMMA KeptFacts ==
  ASSUME NEW cs, IsSeq(cs), NEW f, NEW pg
  PROVE  /\ IsSeq(Kept(cs, f, pg))
         /\ \A c : Has(Kept(cs, f, pg), c) <=> Has(cs, c) /\ Looked(c, f, pg)
  <1> DEFINE S == {cs[i] : i \in DOMAIN cs}
             keep == {i \in DOMAIN cs : Looked(cs[i], f, pg)}
             kept == SubSeqAt(cs, keep)
  <1>1. cs \in Seq(S) /\ DOMAIN cs = 1..Len(cs) /\ keep \in SUBSET (1..Len(cs))
    BY IsSeqFacts DEF IsSeq
  <1>2. Kept(cs, f, pg) = kept
    BY DEF Kept, Looked
  <1> HIDE DEF S
  <1>3. /\ kept \in Seq(S)
        /\ \A k \in 1..Len(kept) : \E i \in keep : kept[k] = cs[i]
        /\ \A i \in keep : \E k \in 1..Len(kept) : kept[k] = cs[i]
    <2> HIDE DEF keep
    <2> QED
      BY <1>1, SubSeqAtFacts
  <1> HIDE DEF kept
  <1>4. IsSeq(kept)
    BY <1>3, SeqIsSeq
  <1>5. ASSUME NEW c, Has(kept, c) PROVE Has(cs, c) /\ Looked(c, f, pg)
    <2>1. PICK i \in keep : cs[i] = c
      BY <1>3, <1>5 DEF Has
    <2> QED
      BY <1>1, <2>1 DEF Has
  <1>6. ASSUME NEW c, Has(cs, c), Looked(c, f, pg) PROVE Has(kept, c)
    <2>1. PICK i \in 1..Len(cs) : cs[i] = c
      BY <1>6 DEF Has
    <2>2. i \in keep
      BY <1>1, <1>6, <2>1
    <2> QED
      BY <1>3, <2>1, <2>2 DEF Has
  <1> QED
    BY <1>2, <1>4, <1>5, <1>6

LEMMA CallFacts == \A to, arg : Call(to, arg).to = to /\ Call(to, arg).arg = arg
  BY DEF Call

\* The requests of the effects: sequences, of the kinds their names say.
LEMMA StrayFacts ==
  ASSUME NEW s, NEW pg
  PROVE  /\ IsSeq(StrayCalls(s, pg))
         /\ \A c : Has(StrayCalls(s, pg), c) => c.to \in {"history", "diff"}
  <1> DEFINE ft == FromTo(panel.shas, panel.history)
             a == IF panel.tab = "history" THEN <<Call("history", s)>> ELSE <<>>
             b == IF ft = None THEN <<>> ELSE <<Call("diff", DiffRequest(s, ft))>>
  <1>1. StrayCalls(s, pg) = <<>> \/ StrayCalls(s, pg) = a \o b
    BY DEF StrayCalls
  <1>2. IsSeq(a) /\ \A c : Has(a, c) => c.to = "history"
    BY SingleFacts, CallFacts
  <1>3. IsSeq(b) /\ \A c : Has(b, c) => c.to = "diff"
    BY SingleFacts, CallFacts
  <1> HIDE DEF a, b
  <1>4. IsSeq(a \o b) /\ \A c : Has(a \o b, c) => c.to \in {"history", "diff"}
    BY <1>2, <1>3, ConcatHas
  <1> QED
    BY <1>1, <1>4, SingleFacts

LEMMA VolCallFacts ==
  ASSUME NEW f, NEW pg, NEW w
  PROVE  /\ IsSeq(VolCalls(f, pg, w))
         /\ \A c : Has(VolCalls(f, pg, w), c) => c.to \in {"volatility", "fields"}
         /\ Asks(f, pg, w) => Has(VolCalls(f, pg, w), Call("volatility", VolRequest(f, w)))
         /\ AsksFields(pg, w) =>
              Has(VolCalls(f, pg, w), Call("fields", FieldsRequest(vol.entry, w)))
  <1> DEFINE a == IF Asks(f, pg, w) THEN <<Call("volatility", VolRequest(f, w))>> ELSE <<>>
             b == IF AsksFields(pg, w) THEN <<Call("fields", FieldsRequest(vol.entry, w))>>
                                       ELSE <<>>
  <1>1. VolCalls(f, pg, w) = a \o b
    BY DEF VolCalls
  <1>2. /\ IsSeq(a) /\ \A c : Has(a, c) => c.to = "volatility"
        /\ Asks(f, pg, w) => Has(a, Call("volatility", VolRequest(f, w)))
    BY SingleFacts, CallFacts
  <1>3. /\ IsSeq(b) /\ \A c : Has(b, c) => c.to = "fields"
        /\ AsksFields(pg, w) => Has(b, Call("fields", FieldsRequest(vol.entry, w)))
    BY SingleFacts, CallFacts
  <1> HIDE DEF a, b
  <1> QED
    BY <1>1, <1>2, <1>3, ConcatHas

\* What a render leaves in flight: the list request of its filter and no
\* other, and on the page of volatility every request of that page.
LEMMA RenderFacts ==
  ASSUME NEW cs, IsSeq(cs), NEW f, NEW s, NEW pg, NEW w, Render(cs, f, s, pg, w)
  PROVE  /\ IsSeq(calls')
         /\ f = filter => \A c : c.to = "list" => (Has(calls', c) <=> Has(cs, c))
         /\ f # filter => \A c : c.to = "list" =>
              (Has(calls', c) <=> c = Call("list", ListRequest(f)))
         /\ pg = "volatility" => \A c : Has(cs, c) /\ c.to \in {"volatility", "fields"}
              => Has(calls', c)
         /\ Asks(f, pg, w) => Has(calls', Call("volatility", VolRequest(f, w)))
         /\ AsksFields(pg, w) => Has(calls', Call("fields", FieldsRequest(vol.entry, w)))
  <1> DEFINE a == Kept(cs, f, pg)
             b == StrayCalls(s, pg)
             d == VolCalls(f, pg, w)
             e == ListCall(f)
             g == DetailCall(s)
  <1>1. calls' = a \o b \o d \o e \o g
    BY DEF Render
  <1>2. IsSeq(a) /\ \A c : Has(a, c) <=> Has(cs, c) /\ Looked(c, f, pg)
    BY KeptFacts
  <1>3. IsSeq(b) /\ \A c : Has(b, c) => c.to \in {"history", "diff"}
    BY StrayFacts
  <1>4. /\ IsSeq(d) /\ \A c : Has(d, c) => c.to \in {"volatility", "fields"}
        /\ Asks(f, pg, w) => Has(d, Call("volatility", VolRequest(f, w)))
        /\ AsksFields(pg, w) => Has(d, Call("fields", FieldsRequest(vol.entry, w)))
    BY VolCallFacts
  <1>5. /\ IsSeq(e)
        /\ \A c : Has(e, c) <=> f # filter /\ c = Call("list", ListRequest(f))
    BY SingleFacts DEF ListCall
  <1>6. IsSeq(g) /\ \A c : Has(g, c) => c.to = "detail"
    BY SingleFacts, CallFacts DEF DetailCall
  <1> HIDE DEF a, b, d, e, g
  <1>7. IsSeq(a \o b) /\ \A c : Has(a \o b, c) <=> Has(a, c) \/ Has(b, c)
    BY <1>2, <1>3, ConcatHas
  <1>8. /\ IsSeq(a \o b \o d)
        /\ \A c : Has(a \o b \o d, c) <=> Has(a, c) \/ Has(b, c) \/ Has(d, c)
    BY <1>4, <1>7, ConcatHas
  <1>9. /\ IsSeq(a \o b \o d \o e)
        /\ \A c : Has(a \o b \o d \o e, c)
             <=> Has(a, c) \/ Has(b, c) \/ Has(d, c) \/ Has(e, c)
    BY <1>5, <1>8, ConcatHas
  <1>10. /\ IsSeq(calls')
         /\ \A c : Has(calls', c)
              <=> Has(a, c) \/ Has(b, c) \/ Has(d, c) \/ Has(e, c) \/ Has(g, c)
    BY <1>1, <1>6, <1>9, ConcatHas
  <1>11. Call("list", ListRequest(f)).to = "list"
    BY CallFacts
  <1>12. ASSUME f = filter
         PROVE  \A c : c.to = "list" => (Has(calls', c) <=> Has(cs, c))
    BY <1>2, <1>3, <1>4, <1>5, <1>6, <1>10, <1>12 DEF Looked
  <1>13. ASSUME f # filter
         PROVE  \A c : c.to = "list" => (Has(calls', c) <=> c = Call("list", ListRequest(f)))
    BY <1>2, <1>3, <1>4, <1>5, <1>6, <1>10, <1>13 DEF Looked
  <1>14. ASSUME pg = "volatility", NEW c, Has(cs, c), c.to \in {"volatility", "fields"}
         PROVE  Has(calls', c)
    BY <1>2, <1>10, <1>14 DEF Looked
  <1> QED
    BY <1>4, <1>10, <1>12, <1>13, <1>14

-----------------------------------------------------------------------------
(* The inductive invariant *)

\* The offset is that of a page.
IsOffset(o) == \E n \in Nat : o = n * Limit

IsFilter(f) ==
  /\ DOMAIN f = {"cluster", "group", "kind", "namespace", "q", "offset"}
  /\ IsOffset(f.offset)

Shapes ==
  /\ IsSeq(calls) /\ IsSeq(urls) /\ at \in 1..Len(urls)
  /\ DOMAIN list = {"of", "ok", "lost"}
  /\ DOMAIN vol = {"shown", "loading", "entry", "fields", "fieldLoading"}
  /\ vol.loading \in BOOLEAN /\ vol.fieldLoading \in BOOLEAN
  /\ IsFilter(filter)
  /\ \A i \in 1..Len(urls) : IsFilter(urls[i].filter)

ListedNow == Call("list", ListRequest(filter))

\* A list request whose answer will be looked at is that of the filter.
ListCalls == \A c : Has(calls, c) /\ c.to = "list" => c = ListedNow

\* After a reload the selection waits for the list, which has it, or is back.
Restores ==
  restoring # None =>
    /\ page = "resources"
    /\ restoring \in SeqToSet(PageOf(ListRequest(filter)))
    /\ \/ pending = restoring /\ Has(calls, ListedNow)
       \/ pending = None /\ selected # None /\ SameObject(selected, restoring)

PageInv ==
  /\ Shapes /\ ListCalls /\ Restores
  /\ ListFollowsFilter /\ AddressHoldsTheView /\ LoadingMeansWaiting

-----------------------------------------------------------------------------
(* Steps of the page *)

LEMMA OffsetFacts ==
  /\ IsOffset(0)
  /\ \A o : IsOffset(o) => o \in Nat /\ IsOffset(o + Limit)
  /\ \A o : IsOffset(o) /\ o # 0 => IsOffset(o - Limit)
  <1>1. Limit \in Nat /\ Limit # 0
    BY FrontendConstants
  <1>2. IsOffset(0)
    BY <1>1 DEF IsOffset
  <1>3. ASSUME NEW o, IsOffset(o) PROVE /\ o \in Nat /\ IsOffset(o + Limit)
                                        /\ o # 0 => IsOffset(o - Limit)
    <2>1. PICK n \in Nat : o = n * Limit
      BY <1>3 DEF IsOffset
    <2>2. o \in Nat /\ o + Limit = (n + 1) * Limit /\ o - Limit = (n - 1) * Limit
      BY <1>1, <2>1
    <2>3. o # 0 => n - 1 \in Nat
      BY <1>1, <2>1
    <2> QED
      BY <2>2, <2>3 DEF IsOffset
  <1> QED
    BY <1>2, <1>3

LEMMA LoadedFacts ==
  \A u : /\ Loaded(u).page = u.page /\ Loaded(u).filter = u.filter
         /\ Loaded(u).window = u.window /\ Loaded(u).pending = u.sel
         /\ Loaded(u).vol = [Vol0 EXCEPT !.loading = u.page = "volatility"]
         /\ Loaded(u).calls = (IF u.page = "volatility"
                               THEN <<Call("volatility", VolRequest(u.filter, u.window))>>
                               ELSE <<>>) \o <<Call("list", ListRequest(u.filter))>>
  BY DEF Loaded

\* What is written to the address reads back as the view.
LEMMA UrlFacts ==
  ASSUME NEW pg, NEW f, NEW s, NEW w, IsFilter(f)
  PROVE  /\ Url(pg, f, s, w).page = pg
         /\ IsFilter(Url(pg, f, s, w).filter)
         /\ pg = "resources" => Url(pg, f, s, w).filter = f /\ Url(pg, f, s, w).sel = s
         /\ pg = "volatility" =>
              VolRequest(Url(pg, f, s, w).filter, Url(pg, f, s, w).window) = VolRequest(f, w)
  <1> DEFINE g == [f EXCEPT !.q = "", !.offset = 0]
  <1>1. /\ IsFilter(g) /\ g.cluster = f.cluster /\ g.group = f.group
        /\ g.kind = f.kind /\ g.namespace = f.namespace
    BY OffsetFacts DEF IsFilter
  <1>2. VolRequest(g, w) = VolRequest(f, w)
    BY <1>1 DEF VolRequest
  <1> HIDE DEF g
  <1>3. CASE pg = "volatility"
    <2>1. Url(pg, f, s, w) = [page |-> pg, filter |-> g, sel |-> None, window |-> w]
      BY <1>3 DEF Url, g
    <2> QED
      BY <1>1, <1>2, <1>3, <2>1
  <1>4. CASE pg # "volatility"
    <2>1. Url(pg, f, s, w) = [page |-> pg, filter |-> f, sel |-> s, window |-> Default]
      BY <1>4 DEF Url
    <2> QED
      BY <1>4, <2>1
  <1> QED
    BY <1>3, <1>4

Addresses(h) == IsSeq(h) /\ \A j \in 1..Len(h) : IsFilter(h[j].filter)

\* The effect for the address leaves it in step with the view.
LEMMA SyncAddress ==
  ASSUME NEW h, Addresses(h), NEW i \in 1..Len(h), SyncUrl(h, i), IsFilter(filter')
  PROVE  Addresses(urls') /\ at' \in 1..Len(urls') /\ AddressHoldsTheView'
  <1> DEFINE u == Url(page', filter', selected', window')
  <1>1. /\ u.page = page' /\ IsFilter(u.filter)
        /\ page' = "resources" => u.filter = filter' /\ u.sel = selected'
        /\ page' = "volatility" => VolRequest(u.filter, u.window) = VolRequest(filter', window')
    BY UrlFacts
  <1>2. urls' = [h EXCEPT ![i] = u] /\ at' = i
    BY DEF SyncUrl
  <1> HIDE DEF u
  <1>3. Len(h) \in Nat /\ h = [j \in 1..Len(h) |-> h[j]]
    BY IsSeqFacts DEF Addresses
  <1>4. urls' = [j \in 1..Len(h) |-> IF j = i THEN u ELSE h[j]]
    BY <1>2, <1>3
  <1>5. urls' \in Seq({u} \cup {h[j] : j \in 1..Len(h)}) /\ Len(urls') = Len(h)
    BY <1>3, <1>4
  <1>6. IsSeq(urls')
    BY <1>5, SeqIsSeq
  <1>7. Addresses(urls')
    BY <1>1, <1>4, <1>5, <1>6 DEF Addresses
  <1>8. urls'[at'] = u
    BY <1>2, <1>4
  <1>9. AddressHoldsTheView'
    BY <1>1, <1>8, LoadedFacts DEF AddressHoldsTheView
  <1> QED
    BY <1>2, <1>5, <1>7, <1>9

LEMMA PushedFacts ==
  ASSUME Addresses(urls), at \in 1..Len(urls)
  PROVE  Addresses(Pushed) /\ at + 1 \in 1..Len(Pushed)
  <1> DEFINE S == {urls[j] : j \in DOMAIN urls}
             a == SubSeq(urls, 1, at)
  <1>1. urls \in Seq(S) /\ Len(urls) \in Nat
    BY IsSeqFacts DEF Addresses, IsSeq
  <1> HIDE DEF S
  <1>2. a \in Seq(S) /\ Len(a) = at /\ \A j \in 1..at : a[j] = urls[j]
    BY <1>1
  <1>3. IsSeq(a)
    BY <1>2, SeqIsSeq
  <1>4. Pushed = Append(a, urls[at])
    BY DEF Pushed
  <1> HIDE DEF a
  <1>5. /\ IsSeq(Pushed) /\ Len(Pushed) = at + 1
        /\ \A j \in 1..at : Pushed[j] = urls[j]
        /\ Pushed[at + 1] = urls[at]
    BY <1>2, <1>3, <1>4, AppendFacts
  <1>6. ASSUME NEW j \in 1..(at + 1) PROVE IsFilter(Pushed[j].filter)
    <2>1. CASE j = at + 1
      BY <1>5, <2>1 DEF Addresses
    <2>2. CASE j # at + 1
      <3>1. j \in 1..at /\ j \in 1..Len(urls)
        BY <1>1, <2>2
      <3> QED
        BY <1>5, <3>1 DEF Addresses
    <2> QED
      BY <2>1, <2>2
  <1> QED
    BY <1>1, <1>5, <1>6 DEF Addresses

\* What is in flight, in terms of what the requests in flight have.
FlightMeans ==
  IsSeq(calls) =>
    /\ \A to : InFlight(to) <=> \E c : Has(calls, c) /\ c.to = to
    /\ ListFollowsFilter <=>
         list.lost \/ list.of = ListRequest(filter) \/ Has(calls, ListedNow)

LEMMA FlightFacts == FlightMeans
  <1>1. ASSUME IsSeq(calls)
        PROVE  /\ \A to : InFlight(to) <=> \E c : Has(calls, c) /\ c.to = to
               /\ ListFollowsFilter <=>
                    list.lost \/ list.of = ListRequest(filter) \/ Has(calls, ListedNow)
    <2>1. DOMAIN calls = 1..Len(calls)
      BY <1>1, IsSeqFacts
    <2> QED
      BY <2>1 DEF InFlight, ListFollowsFilter, Has, ListedNow
  <1> QED
    BY <1>1 DEF FlightMeans

LEMMA FlightFactsNext == FlightMeans'
  BY FlightFacts, PTL

\* After a render that no answer of the page of volatility goes missing in,
\* what that page loads is in flight.
LEMMA RenderLoading ==
  ASSUME PageInv, NEW cs, IsSeq(cs), NEW f, NEW s, NEW pg, NEW w, Render(cs, f, s, pg, w),
         \A c : Has(calls, c) /\ c.to \in {"volatility", "fields"} => Has(cs, c)
  PROVE  /\ DOMAIN vol' = {"shown", "loading", "entry", "fields", "fieldLoading"}
         /\ vol'.loading \in BOOLEAN /\ vol'.fieldLoading \in BOOLEAN
         /\ LoadingMeansWaiting'
  <1>1. vol' = VolAfter(f, pg, w)
    BY DEF Render
  <1>2. IsSeq(calls) /\ Shapes
    BY DEF PageInv, Shapes
  <1>3. /\ IsSeq(calls')
        /\ pg = "volatility" => \A c : Has(calls, c) /\ c.to \in {"volatility", "fields"}
             => Has(calls', c)
        /\ Asks(f, pg, w) => Has(calls', Call("volatility", VolRequest(f, w)))
        /\ AsksFields(pg, w) => Has(calls', Call("fields", FieldsRequest(vol.entry, w)))
    BY RenderFacts
  <1>4. CASE pg # "volatility"
    BY <1>1, <1>4 DEF VolAfter, Vol0, LoadingMeansWaiting
  <1>5. CASE pg = "volatility"
    <2>1. vol' = [vol EXCEPT !.loading = vol.loading \/ Asks(f, pg, w),
                             !.fieldLoading = vol.fieldLoading \/ AsksFields(pg, w)]
      BY <1>1, <1>5 DEF VolAfter
    <2>2. /\ DOMAIN vol' = {"shown", "loading", "entry", "fields", "fieldLoading"}
          /\ vol'.loading = (vol.loading \/ Asks(f, pg, w))
          /\ vol'.fieldLoading = (vol.fieldLoading \/ AsksFields(pg, w))
      BY <1>2, <2>1 DEF Shapes
    <2>3. vol'.loading \in BOOLEAN /\ vol'.fieldLoading \in BOOLEAN
      BY <2>2
    <2>4. ASSUME vol'.loading PROVE InFlight("volatility")'
      <3>1. CASE Asks(f, pg, w)
        BY <1>3, <3>1, FlightFactsNext, CallFacts DEF FlightMeans
      <3>2. CASE vol.loading
        <4>1. PICK c : Has(calls, c) /\ c.to = "volatility"
          BY <1>2, <3>2, FlightFacts DEF FlightMeans, PageInv, LoadingMeansWaiting
        <4> QED
          BY <1>3, <1>5, <4>1, FlightFactsNext DEF FlightMeans
      <3> QED
        BY <2>2, <2>4, <3>1, <3>2
    <2>5. ASSUME vol'.fieldLoading PROVE InFlight("fields")'
      <3>1. CASE AsksFields(pg, w)
        BY <1>3, <3>1, FlightFactsNext, CallFacts DEF FlightMeans
      <3>2. CASE vol.fieldLoading
        <4>1. PICK c : Has(calls, c) /\ c.to = "fields"
          BY <1>2, <3>2, FlightFacts DEF FlightMeans, PageInv, LoadingMeansWaiting
        <4> QED
          BY <1>3, <1>5, <4>1, FlightFactsNext DEF FlightMeans
      <3> QED
        BY <2>2, <2>5, <3>1, <3>2
    <2> QED
      BY <2>2, <2>3, <2>4, <2>5 DEF LoadingMeansWaiting
  <1> QED
    BY <1>4, <1>5

\* A handler that renders a filter: the list of another filter is asked for,
\* and what the page of volatility loads stays in flight.
LEMMA HandleStep ==
  ASSUME PageInv, NEW f, NEW s, NEW pg, NEW w, IsFilter(f), Handle(f, s, pg, w),
         NEW h, Addresses(h), NEW i \in 1..Len(h), SyncUrl(h, i), restoring' = None
  PROVE  PageInv'
  <1>1. Render(calls, f, s, pg, w) /\ filter' = f /\ page' = pg /\ vol' = VolAfter(f, pg, w)
    BY DEF Handle, Render
  <1>2. IsSeq(calls) /\ Shapes
    BY DEF PageInv, Shapes
  <1>3. /\ IsSeq(calls')
        /\ f = filter => \A c : c.to = "list" => (Has(calls', c) <=> Has(calls, c))
        /\ f # filter => \A c : c.to = "list" =>
             (Has(calls', c) <=> c = Call("list", ListRequest(f)))
        /\ pg = "volatility" => \A c : Has(calls, c) /\ c.to \in {"volatility", "fields"}
             => Has(calls', c)
        /\ Asks(f, pg, w) => Has(calls', Call("volatility", VolRequest(f, w)))
        /\ AsksFields(pg, w) => Has(calls', Call("fields", FieldsRequest(vol.entry, w)))
    BY <1>1, <1>2, RenderFacts
  <1>4. Addresses(urls') /\ at' \in 1..Len(urls') /\ AddressHoldsTheView'
    BY <1>1, SyncAddress
  <1>5. ListedNow' = Call("list", ListRequest(f))
    BY <1>1 DEF ListedNow
  <1>6. ListCalls'
    <2>1. CASE f = filter
      BY <1>1, <1>3, <1>5, <2>1 DEF ListCalls, PageInv, ListedNow
    <2>2. CASE f # filter
      BY <1>3, <1>5, <2>2 DEF ListCalls
    <2> QED
      BY <2>1, <2>2
  <1>7. ListFollowsFilter' /\ DOMAIN list' = {"of", "ok", "lost"}
    <2>1. CASE f = filter
      <3>1. ListFollowsFilter /\ list' = list /\ ListedNow' = ListedNow /\ ListedNow.to = "list"
        BY <1>1, <2>1, CallFacts DEF PageInv, Handle, ListedNow
      <3> QED
        BY <1>1, <1>2, <1>3, <2>1, <3>1, FlightFacts, FlightFactsNext DEF FlightMeans, Shapes
    <2>2. CASE f # filter
      <3>1. list' = [list EXCEPT !.lost = FALSE]
        BY <2>2 DEF Handle
      <3>2. Has(calls', ListedNow')
        BY <1>3, <1>5, <2>2, CallFacts
      <3> QED
        BY <1>2, <1>3, <3>1, <3>2, FlightFactsNext DEF FlightMeans, Shapes
    <2> QED
      BY <2>1, <2>2
  <1>8. /\ DOMAIN vol' = {"shown", "loading", "entry", "fields", "fieldLoading"}
        /\ vol'.loading \in BOOLEAN /\ vol'.fieldLoading \in BOOLEAN
        /\ LoadingMeansWaiting'
    BY <1>1, <1>2, RenderLoading
  <1>9. Restores'
    BY DEF Restores
  <1>10. Shapes'
    BY <1>1, <1>3, <1>4, <1>7, <1>8 DEF Shapes, Addresses
  <1> QED
    BY <1>4, <1>6, <1>7, <1>8, <1>9, <1>10 DEF PageInv

\* A step within the page: filter, view and address stay, and the requests of
\* the list with their answers, unless one of them is rejected.
LEMMA WithinStep ==
  ASSUME PageInv, UNCHANGED <<page, filter, window, selected, pending, urls, at>>,
         IsSeq(calls'),
         \/ /\ \A c : c.to = "list" => (Has(calls', c) <=> Has(calls, c))
            /\ list' = list /\ restoring' \in {restoring, None}
         \/ /\ \A c : c.to = "list" => (Has(calls', c) => Has(calls, c))
            /\ list' = [list EXCEPT !.lost = TRUE] /\ restoring' = None,
         DOMAIN vol' = {"shown", "loading", "entry", "fields", "fieldLoading"},
         vol'.loading \in BOOLEAN, vol'.fieldLoading \in BOOLEAN,
         vol'.loading => \E c : Has(calls', c) /\ c.to = "volatility",
         vol'.fieldLoading => \E c : Has(calls', c) /\ c.to = "fields"
  PROVE  PageInv'
  <1>1. Shapes /\ IsSeq(calls) /\ DOMAIN list = {"of", "ok", "lost"}
    BY DEF PageInv, Shapes
  <1>2. ListedNow' = ListedNow /\ ListedNow.to = "list"
    BY CallFacts DEF ListedNow
  <1>3. Shapes'
    BY <1>1 DEF Shapes
  <1>4. ListCalls'
    BY <1>2 DEF PageInv, ListCalls
  <1>5. AddressHoldsTheView'
    BY DEF PageInv, AddressHoldsTheView
  <1>6. LoadingMeansWaiting'
    BY FlightFactsNext DEF FlightMeans, LoadingMeansWaiting
  <1>7. ListFollowsFilter'
    <2>1. CASE list' = list /\ \A c : c.to = "list" => (Has(calls', c) <=> Has(calls, c))
      <3>1. list.lost \/ list.of = ListRequest(filter) \/ Has(calls, ListedNow)
        BY <1>1, FlightFacts DEF FlightMeans, PageInv
      <3> QED
        BY <1>2, <2>1, <3>1, FlightFactsNext DEF FlightMeans
    <2>2. CASE list' = [list EXCEPT !.lost = TRUE]
      BY <1>1, <2>2, FlightFactsNext DEF FlightMeans
    <2> QED
      BY <2>1, <2>2
  <1>8. Restores'
    <2>1. CASE restoring' = None
      BY <2>1 DEF Restores
    <2>2. CASE /\ restoring' = restoring
               /\ \A c : c.to = "list" => (Has(calls', c) <=> Has(calls, c))
      <3>1. Restores /\ (Has(calls, ListedNow) => Has(calls', ListedNow'))
        BY <1>2, <2>2 DEF PageInv
      <3> QED
        BY <2>2, <3>1 DEF Restores, SameObject
    <2> QED
      BY <2>1, <2>2
  <1> QED
    BY <1>3, <1>4, <1>5, <1>6, <1>7, <1>8 DEF PageInv

\* One more request that is not one of the list.
LEMMA AskStep ==
  ASSUME PageInv, UNCHANGED <<page, filter, window, selected, pending, list, urls, at>>,
         NEW cs, IsSeq(cs),
         \A c : c.to = "list" => (Has(cs, c) <=> Has(calls, c)),
         restoring' \in {restoring, None},
         calls' = cs \/ \E x : x.to # "list" /\ calls' = Append(cs, x),
         DOMAIN vol' = {"shown", "loading", "entry", "fields", "fieldLoading"},
         vol'.loading \in BOOLEAN, vol'.fieldLoading \in BOOLEAN,
         vol'.loading => \E c : (Has(cs, c) \/ Has(calls', c)) /\ c.to = "volatility",
         vol'.fieldLoading => \E c : (Has(cs, c) \/ Has(calls', c)) /\ c.to = "fields"
  PROVE  PageInv'
  <1>1. /\ IsSeq(calls') /\ \A c : Has(cs, c) => Has(calls', c)
        /\ \A c : c.to = "list" => (Has(calls', c) <=> Has(cs, c))
    <2>1. CASE calls' = cs
      BY <2>1
    <2>2. ASSUME NEW x, x.to # "list", calls' = Append(cs, x)
          PROVE  /\ IsSeq(calls') /\ \A c : Has(cs, c) => Has(calls', c)
                 /\ \A c : c.to = "list" => (Has(calls', c) <=> Has(cs, c))
      BY <2>2, AppendFacts
    <2> QED
      BY <2>1, <2>2
  <1>2. \A c : c.to = "list" => (Has(calls', c) <=> Has(calls, c))
    BY <1>1
  <1>3. vol'.loading => \E c : Has(calls', c) /\ c.to = "volatility"
    BY <1>1
  <1>4. vol'.fieldLoading => \E c : Has(calls', c) /\ c.to = "fields"
    BY <1>1
  <1> QED
    BY <1>1, <1>2, <1>3, <1>4, WithinStep

-----------------------------------------------------------------------------
(* What the user does within a page *)

LEMMA LoadingNow ==
  ASSUME PageInv
  PROVE  /\ IsSeq(calls) /\ vol.loading \in BOOLEAN /\ vol.fieldLoading \in BOOLEAN
         /\ DOMAIN vol = {"shown", "loading", "entry", "fields", "fieldLoading"}
         /\ vol.loading => \E c : Has(calls, c) /\ c.to = "volatility"
         /\ vol.fieldLoading => \E c : Has(calls, c) /\ c.to = "fields"
  BY FlightFacts DEF FlightMeans, PageInv, Shapes, LoadingMeansWaiting

LEMMA SetTabInv == ASSUME PageInv, NEW t, SetTab(t) PROVE PageInv'
  <1>1. calls' = calls \/ \E x : x.to # "list" /\ calls' = Append(calls, x)
    <2>1. Call("history", selected).to # "list"
      BY CallFacts
    <2> QED
      BY <2>1 DEF SetTab
  <1>2. /\ UNCHANGED <<page, filter, window, selected, pending, list, urls, at, vol>>
        /\ restoring' \in {restoring, None}
    BY DEF SetTab, Inspects
  <1> QED
    BY <1>1, <1>2, LoadingNow, AskStep

LEMMA DiffEffectCalls ==
  ASSUME NEW cs, NEW shas, NEW of, DiffEffect(cs, shas, of)
  PROVE  calls' = cs \/ \E x : x.to # "list" /\ calls' = Append(cs, x)
  <1>1. Call("diff", DiffRequest(selected, FromTo(shas, of))).to # "list"
    BY CallFacts
  <1> QED
    BY <1>1 DEF DiffEffect

LEMMA ClickCommitInv == ASSUME PageInv, ClickCommit PROVE PageInv'
  <1>1. calls' = calls \/ \E x : x.to # "list" /\ calls' = Append(calls, x)
    <2>1. PICK sha : DiffEffect(calls, Clicked(panel.shas, sha), panel.history)
      BY DEF ClickCommit
    <2> QED
      BY <2>1, DiffEffectCalls
  <1>2. /\ UNCHANGED <<page, filter, window, selected, pending, list, urls, at, vol>>
        /\ restoring' \in {restoring, None}
    BY DEF ClickCommit, Inspects
  <1> QED
    BY <1>1, <1>2, LoadingNow, AskStep

LEMMA RefreshInv == ASSUME PageInv, Refresh PROVE PageInv'
  <1> DEFINE x == Call("volatility", VolRequest(filter, window))
  <1>1. x.to = "volatility"
    BY CallFacts
  <1>2. /\ UNCHANGED <<page, filter, window, selected, pending, list, urls, at>>
        /\ restoring' \in {restoring, None} /\ calls' = Append(calls, x)
        /\ vol' = [vol EXCEPT !.loading = TRUE]
    BY DEF Refresh, Inspects
  <1> HIDE DEF x
  <1>3. Has(calls', x)
    BY <1>2, LoadingNow, AppendFacts
  <1>4. /\ DOMAIN vol' = {"shown", "loading", "entry", "fields", "fieldLoading"}
        /\ vol'.loading = TRUE /\ vol'.fieldLoading = vol.fieldLoading
    BY <1>2, LoadingNow
  <1>5. \E y : y.to # "list" /\ calls' = Append(calls, y)
    BY <1>1, <1>2
  <1>6. vol'.loading => \E c : (Has(calls, c) \/ Has(calls', c)) /\ c.to = "volatility"
    BY <1>1, <1>3
  <1>7. vol'.fieldLoading => \E c : (Has(calls, c) \/ Has(calls', c)) /\ c.to = "fields"
    BY <1>4, LoadingNow
  <1> QED
    BY <1>2, <1>4, <1>5, <1>6, <1>7, LoadingNow, AskStep

LEMMA SelectEntryInv == ASSUME PageInv, SelectEntry PROVE PageInv'
  <1>1. PICK e : /\ vol' = [vol EXCEPT !.entry = e, !.fieldLoading = TRUE]
                 /\ calls' = Append(calls, Call("fields", FieldsRequest(e, window)))
    BY DEF SelectEntry
  <1> DEFINE x == Call("fields", FieldsRequest(e, window))
  <1>2. x.to = "fields"
    BY CallFacts
  <1>3. /\ UNCHANGED <<page, filter, window, selected, pending, list, urls, at>>
        /\ restoring' \in {restoring, None} /\ calls' = Append(calls, x)
    BY <1>1 DEF SelectEntry, Inspects
  <1> HIDE DEF x
  <1>4. Has(calls', x)
    BY <1>3, LoadingNow, AppendFacts
  <1>5. /\ DOMAIN vol' = {"shown", "loading", "entry", "fields", "fieldLoading"}
        /\ vol'.loading = vol.loading /\ vol'.fieldLoading = TRUE
    BY <1>1, LoadingNow
  <1>6. \E y : y.to # "list" /\ calls' = Append(calls, y)
    BY <1>2, <1>3
  <1>7. vol'.loading => \E c : (Has(calls, c) \/ Has(calls', c)) /\ c.to = "volatility"
    BY <1>5, LoadingNow
  <1>8. vol'.fieldLoading => \E c : (Has(calls, c) \/ Has(calls', c)) /\ c.to = "fields"
    BY <1>2, <1>4
  <1> QED
    BY <1>3, <1>5, <1>6, <1>7, <1>8, LoadingNow, AskStep

LEMMA AddressesNow ==
  ASSUME PageInv
  PROVE  Addresses(urls) /\ at \in 1..Len(urls) /\ IsFilter(filter)
  BY DEF PageInv, Shapes, Addresses

LEMMA SetWindowInv == ASSUME PageInv, NEW w, SetWindow(w) PROVE PageInv'
  <1>1. /\ Handle(filter, selected, page, w) /\ SyncUrl(urls, at) /\ restoring' = None
    BY DEF SetWindow, Inspects
  <1> QED
    BY <1>1, AddressesNow, HandleStep

LEMMA InspectInv == ASSUME PageInv, Inspect PROVE PageInv'
  <1>1. CASE \E t \in {"yaml", "history"} : SetTab(t)
    BY <1>1, SetTabInv
  <1>2. CASE ClickCommit
    BY <1>2, ClickCommitInv
  <1>3. CASE \E w : SetWindow(w)
    BY <1>3, SetWindowInv
  <1>4. CASE Refresh
    BY <1>4, RefreshInv
  <1>5. CASE SelectEntry
    BY <1>5, SelectEntryInv
  <1> QED
    BY <1>1, <1>2, <1>3, <1>4, <1>5 DEF Inspect

-----------------------------------------------------------------------------
(* What the user does to filter, selection, page and address *)

\* A handler that ends in a render at an address of the session history.
LEMMA GoesStep ==
  ASSUME PageInv, NEW f, NEW s, NEW pg, NEW w, IsFilter(f), Goes(f, s, pg, w),
         \/ \E i \in 1..Len(urls) : SyncUrl(urls, i)
         \/ SyncUrl(Pushed, at + 1)
  PROVE  PageInv'
  <1>1. Handle(f, s, pg, w) /\ restoring' = None
    BY DEF Goes
  <1>2. ASSUME NEW i \in 1..Len(urls), SyncUrl(urls, i) PROVE PageInv'
    BY <1>1, <1>2, AddressesNow, HandleStep
  <1>3. CASE SyncUrl(Pushed, at + 1)
    BY <1>1, <1>3, AddressesNow, PushedFacts, HandleStep
  <1> QED
    BY <1>2, <1>3

LEMMA BrowseInv ==
  ASSUME PageInv, Browse, ~Reload
  PROVE  PageInv'
  <1>0. /\ IsFilter(NoFilter) /\ IsFilter(filter) /\ at \in 1..Len(urls)
        /\ DOMAIN urls = 1..Len(urls) /\ \A i \in 1..Len(urls) : IsFilter(urls[i].filter)
    BY AddressesNow, IsSeqFacts, OffsetFacts DEF Addresses, NoFilter, IsFilter
  <1>1. ASSUME NEW c, SelectCluster(c) PROVE PageInv'
    <2>1. IsFilter([NoFilter EXCEPT !.cluster = c])
      BY <1>0, OffsetFacts DEF IsFilter
    <2> QED
      BY <1>0, <1>1, <2>1, GoesStep DEF SelectCluster
  <1>2. ASSUME NEW ns, SelectNamespace(ns) PROVE PageInv'
    <2>1. IsFilter([filter EXCEPT !.namespace = ns, !.q = "", !.offset = 0])
      BY <1>0, OffsetFacts DEF IsFilter
    <2> QED
      BY <1>0, <1>2, <2>1, GoesStep DEF SelectNamespace
  <1>3. ASSUME NEW g, SelectKind(g) PROVE PageInv'
    <2>1. IsFilter([filter EXCEPT !.group = g[1], !.kind = g[2], !.offset = 0])
      BY <1>0, OffsetFacts DEF IsFilter
    <2> QED
      BY <1>0, <1>3, <2>1, GoesStep DEF SelectKind
  <1>4. ASSUME NEW g, SelectVolatileKind(g) PROVE PageInv'
    <2>1. IsFilter([filter EXCEPT !.group = g[1], !.kind = g[2]])
      BY <1>0, OffsetFacts DEF IsFilter
    <2> QED
      BY <1>0, <1>4, <2>1, GoesStep DEF SelectVolatileKind
  <1>5. ASSUME NEW q, Search(q) PROVE PageInv'
    <2>1. IsFilter([filter EXCEPT !.q = q, !.offset = 0])
      BY <1>0, OffsetFacts DEF IsFilter
    <2> QED
      BY <1>0, <1>5, <2>1, GoesStep DEF Search
  <1>6. CASE Turn
    <2>1. PICK o \in {n \in {filter.offset + Limit} : n < Total}
                      \cup {n - Limit : n \in {filter.offset} \ {0}} :
                 Goes([filter EXCEPT !.offset = o], None, page, window)
      BY <1>6 DEF Turn
    <2>2. IsFilter([filter EXCEPT !.offset = o])
      BY <1>0, OffsetFacts DEF IsFilter
    <2> QED
      BY <1>0, <1>6, <2>1, <2>2, GoesStep DEF Turn
  <1>7. CASE Select
    <2>1. PICK r : Goes(filter, r, page, window)
      BY <1>7 DEF Select
    <2> QED
      BY <1>0, <1>7, <2>1, GoesStep DEF Select
  <1>8. ASSUME NEW pg, Navigate(pg) PROVE PageInv'
    BY <1>0, <1>8, GoesStep DEF Navigate
  <1>9. CASE OpenResource
    <2>1. PICK e : Goes([filter EXCEPT !.cluster = e.cluster, !.group = e.group,
                           !.kind = e.kind, !.namespace = e.namespace, !.offset = 0],
                        None, "resources", window)
      BY <1>9 DEF OpenResource
    <2>2. IsFilter([filter EXCEPT !.cluster = e.cluster, !.group = e.group,
                      !.kind = e.kind, !.namespace = e.namespace, !.offset = 0])
      BY <1>0, OffsetFacts DEF IsFilter
    <2> QED
      BY <1>9, <2>1, <2>2, GoesStep DEF OpenResource
  <1>10. ASSUME NEW i \in DOMAIN urls, PopState(i) PROVE PageInv'
    <2>1. i \in 1..Len(urls) /\ IsFilter(urls[i].filter)
      BY <1>0
    <2> QED
      BY <1>10, <2>1, GoesStep DEF PopState
  <1> QED
    BY <1>1, <1>2, <1>3, <1>4, <1>5, <1>6, <1>7, <1>8, <1>9, <1>10 DEF Browse

\* Loading the page again asks for the list of the filter, and waits to select
\* in it what was selected.
LEMMA ReloadInv == ASSUME PageInv, Reload PROVE PageInv'
  <1> DEFINE u == urls[at]
             a == IF u.page = "volatility"
                  THEN <<Call("volatility", VolRequest(u.filter, u.window))>> ELSE <<>>
             now == Call("list", ListRequest(u.filter))
  <1>1. /\ page' = u.page /\ filter' = u.filter /\ selected' = None /\ pending' = u.sel
        /\ list' = NoList /\ vol' = [Vol0 EXCEPT !.loading = u.page = "volatility"]
        /\ calls' = a \o <<now>> /\ SyncUrl(urls, at)
        /\ restoring' = IF page = "resources" /\ selected # None
                           /\ selected \in SeqToSet(PageOf(ListRequest(filter)))
                        THEN selected ELSE None
    BY LoadedFacts DEF Reload
  <1>2. /\ u.page = page /\ IsFilter(u.filter)
        /\ page = "resources" => u.filter = filter /\ u.sel = selected
    BY LoadedFacts, AddressesNow DEF PageInv, AddressHoldsTheView, Addresses
  <1>3. /\ IsSeq(a) /\ \A c : Has(a, c) => c.to = "volatility"
        /\ u.page = "volatility" => \E c : Has(a, c)
    <2> DEFINE x == Call("volatility", VolRequest(u.filter, u.window))
    <2>1. x.to = "volatility"
      BY CallFacts
    <2>2. a = IF u.page = "volatility" THEN <<x>> ELSE <<>>
      OBVIOUS
    <2> HIDE DEF x, a
    <2> QED
      BY <2>1, <2>2, SingleFacts
  <1>4. now.to = "list" /\ ListedNow' = now
    BY <1>1, CallFacts DEF ListedNow
  <1> HIDE DEF u, a, now
  <1>5. IsSeq(calls') /\ \A c : Has(calls', c) <=> Has(a, c) \/ c = now
    BY <1>1, <1>3, SingleFacts, ConcatHas
  <1>6. Addresses(urls') /\ at' \in 1..Len(urls') /\ AddressHoldsTheView'
    BY <1>1, <1>2, AddressesNow, SyncAddress
  <1>7. ListCalls' /\ ListFollowsFilter'
    BY <1>3, <1>4, <1>5, FlightFactsNext DEF FlightMeans, ListCalls
  <1>8. /\ DOMAIN vol' = {"shown", "loading", "entry", "fields", "fieldLoading"}
        /\ vol'.loading = (u.page = "volatility") /\ vol'.fieldLoading = FALSE
    BY <1>1 DEF Vol0
  <1>9. LoadingMeansWaiting'
    <2>1. ~vol'.fieldLoading /\ (vol'.loading => u.page = "volatility")
      BY <1>8
    <2>2. u.page = "volatility" => \E c : Has(calls', c) /\ c.to = "volatility"
      BY <1>3, <1>5
    <2> QED
      BY <1>5, <2>1, <2>2, FlightFactsNext DEF FlightMeans, LoadingMeansWaiting
  <1>10. Shapes'
    BY <1>1, <1>2, <1>5, <1>6, <1>8 DEF Shapes, Addresses, NoList
  <1>11. Restores'
    <2>1. CASE restoring' = None
      BY <2>1 DEF Restores
    <2>2. CASE restoring' # None
      <3>1. /\ page = "resources" /\ restoring' = selected
            /\ selected \in SeqToSet(PageOf(ListRequest(filter)))
        BY <1>1, <2>2
      <3>2. page' = "resources" /\ filter' = filter /\ pending' = restoring'
        BY <1>1, <1>2, <3>1
      <3>3. Has(calls', ListedNow')
        BY <1>4, <1>5
      <3> QED
        BY <3>1, <3>2, <3>3 DEF Restores
    <2> QED
      BY <2>1, <2>2
  <1> QED
    BY <1>6, <1>7, <1>9, <1>10, <1>11 DEF PageInv

-----------------------------------------------------------------------------
(* What the network does *)

LEMMA ItemsFacts ==
  ASSUME NEW f, IsOffset(f.offset)
  PROVE  PageOf(f) \in Seq(Resources)
  <1> DEFINE keep == {i \in DOMAIN Rows : Matches(f, Rows[i])}
             m == Matching(f)
             end == f.offset + Limit
             last == IF end < Len(m) THEN end ELSE Len(m)
  <1>0. Rows \in Seq(Resources) /\ Limit \in Nat
    BY FrontendConstants
  <1>1. DOMAIN Rows = 1..Len(Rows) /\ Limit \in Nat /\ Rows \in Seq(Resources)
    BY <1>0
  <1>2. keep \in SUBSET (1..Len(Rows)) /\ m = SubSeqAt(Rows, keep)
    BY <1>1 DEF Matching
  <1>3. m \in Seq(Resources)
    <2> HIDE DEF keep
    <2> QED
      BY <1>1, <1>2, SubSeqAtFacts
  <1>4. PageOf(f) = SubSeq(m, f.offset + 1, last)
    BY DEF PageOf
  <1>5. f.offset \in Nat
    BY OffsetFacts
  <1> HIDE DEF m
  <1>6. Len(m) \in Nat /\ last \in Int /\ last <= Len(m) /\ f.offset + 1 \in 1..(f.offset + 1)
    BY <1>1, <1>3, <1>5
  <1> HIDE DEF last
  <1> QED
    BY <1>3, <1>4, <1>5, <1>6

\* A list that has the resource that waits to be selected selects one of the
\* same cluster, kind, namespace and name.
LEMMA PendingFacts ==
  ASSUME NEW items \in Seq(Resources)
  PROVE  /\ pending = None => PendingIn(items) = None
         /\ pending # None /\ pending \in SeqToSet(items)
              => PendingIn(items) # None /\ SameObject(PendingIn(items), pending)
  <1>1. ASSUME pending # None, pending \in SeqToSet(items)
        PROVE  PendingIn(items) # None /\ SameObject(PendingIn(items), pending)
    <2> DEFINE hits == {i \in DOMAIN items : SameObject(items[i], pending)}
               k == CHOOSE i \in hits : \A j \in hits : i <= j
    <2>1. DOMAIN items = 1..Len(items) /\ Len(items) \in Nat
      OBVIOUS
    <2>2. hits # {} /\ hits \subseteq Nat
      <3>1. PICK i \in DOMAIN items : items[i] = pending
        BY <1>1 DEF SeqToSet
      <3>2. SameObject(items[i], pending)
        BY <3>1 DEF SameObject
      <3> QED
        BY <2>1, <3>2
    <2>3. \E i \in hits : \A j \in hits : i <= j
      <3> HIDE DEF hits
      <3> QED
        BY <2>2, LeastNat
    <2>4. k \in hits
      <3> HIDE DEF hits
      <3> QED
        BY <2>3
    <2>5. PendingIn(items) = items[k]
      BY <1>1, <2>2 DEF PendingIn
    <2> HIDE DEF k
    <2>6. SameObject(items[k], pending) /\ items[k] \in Resources
      BY <2>1, <2>4
    <2> QED
      BY <2>5, <2>6, FrontendConstants
  <1> QED
    BY <1>1 DEF PendingIn

\* The answer to the list request is that of the filter; it selects what waits
\* for it, and leaves the other requests in flight.
LEMMA AnswerListInv ==
  ASSUME PageInv, NEW i \in DOMAIN calls, NEW ok \in BOOLEAN, AnswerList(i, ok),
         restoring' = None \/ (ok = TRUE /\ restoring' = restoring)
  PROVE  PageInv'
  <1> DEFINE items == PageOf(calls[i].arg)
             match == IF ok THEN PendingIn(items) ELSE None
             s == IF match = None THEN selected ELSE match
  <1>1. /\ calls[i].to = "list" /\ list' = [of |-> calls[i].arg, ok |-> ok, lost |-> FALSE]
        /\ Render(Without(i), filter, s, page, window) /\ SyncUrl(urls, at)
        /\ pending' = IF match = None THEN pending ELSE None
    BY DEF AnswerList
  <1>2. /\ filter' = filter /\ page' = page /\ window' = window /\ selected' = s
        /\ ListedNow' = ListedNow
    BY <1>1 DEF Render, ListedNow
  <1>3. Shapes /\ IsSeq(calls) /\ DOMAIN calls = 1..Len(calls)
    BY IsSeqFacts DEF PageInv, Shapes
  <1>4. calls[i] = ListedNow /\ calls[i].arg = ListRequest(filter)
    <2>1. Has(calls, calls[i])
      BY <1>3 DEF Has
    <2> QED
      BY <1>1, <2>1, CallFacts DEF PageInv, ListCalls, ListedNow
  <1>5. /\ IsSeq(Without(i))
        /\ \A c : Has(Without(i), c) => Has(calls, c)
        /\ \A c : Has(calls, c) /\ c # calls[i] => Has(Without(i), c)
    BY <1>3, WithoutFacts
  <1> HIDE DEF s
  <1>6. /\ IsSeq(calls')
        /\ \A c : c.to = "list" => (Has(calls', c) <=> Has(Without(i), c))
    BY <1>1, <1>5, RenderFacts
  <1>7. ListCalls'
    BY <1>2, <1>5, <1>6 DEF PageInv, ListCalls
  <1>8. ListFollowsFilter' /\ DOMAIN list' = {"of", "ok", "lost"}
    BY <1>1, <1>2, <1>4, <1>6, FlightFactsNext DEF FlightMeans
  <1>9. Addresses(urls') /\ at' \in 1..Len(urls') /\ AddressHoldsTheView'
    BY <1>1, <1>2, AddressesNow, SyncAddress
  <1>10. /\ DOMAIN vol' = {"shown", "loading", "entry", "fields", "fieldLoading"}
         /\ vol'.loading \in BOOLEAN /\ vol'.fieldLoading \in BOOLEAN
         /\ LoadingMeansWaiting'
    <2>1. \A c : Has(calls, c) /\ c.to \in {"volatility", "fields"} => Has(Without(i), c)
      BY <1>1, <1>5
    <2> QED
      BY <1>1, <1>5, <2>1, RenderLoading
  <1>11. Shapes'
    BY <1>2, <1>3, <1>6, <1>8, <1>9, <1>10 DEF Shapes, Addresses
  <1>12. Restores'
    <2>1. CASE restoring' = None
      BY <2>1 DEF Restores
    <2>2. CASE restoring' # None
      <3>1. ok /\ restoring' = restoring /\ match = PendingIn(items)
        BY <2>2
      <3>2. /\ page = "resources" /\ restoring \in SeqToSet(PageOf(ListRequest(filter)))
            /\ \/ pending = restoring
               \/ pending = None /\ selected # None /\ SameObject(selected, restoring)
        BY <2>2, <3>1 DEF PageInv, Restores
      <3>3. items = PageOf(ListRequest(filter)) /\ items \in Seq(Resources)
        <4>1. IsOffset(ListRequest(filter).offset)
          BY <1>3 DEF ListRequest, Shapes, IsFilter
        <4> QED
          BY <1>4, <4>1, ItemsFacts
      <3> HIDE DEF items, match
      <3>4. pending' = None /\ selected' # None /\ SameObject(selected', restoring)
        <4>1. CASE pending = restoring
          <5>1. match # None /\ SameObject(match, pending)
            BY <2>2, <3>1, <3>2, <3>3, <4>1, PendingFacts
          <5> QED
            BY <1>1, <1>2, <4>1, <5>1 DEF s
        <4>2. CASE pending = None /\ selected # None /\ SameObject(selected, restoring)
          <5>1. match = None
            BY <3>1, <3>3, <4>2, PendingFacts
          <5> QED
            BY <1>1, <1>2, <4>2, <5>1 DEF s
        <4> QED
          BY <3>2, <4>1, <4>2
      <3> QED
        BY <1>2, <3>1, <3>2, <3>4 DEF Restores, SameObject
    <2> QED
      BY <2>1, <2>2
  <1> QED
    BY <1>7, <1>8, <1>9, <1>10, <1>11, <1>12 DEF PageInv

\* The answer to another request touches neither the list nor the address.
LEMMA OtherAnswerInv ==
  ASSUME PageInv, NEW i \in DOMAIN calls, NEW ok \in BOOLEAN,
         \/ AnswerDetail(i, ok) \/ AnswerHistory(i, ok) \/ AnswerDiff(i, ok)
         \/ AnswerVolatility(i, ok) \/ AnswerFields(i, ok),
         restoring' \in {restoring, None}
  PROVE  PageInv'
  <1>1. /\ UNCHANGED <<page, filter, window, selected, pending, list, urls, at>>
        /\ calls[i].to # "list"
    BY DEF AnswerDetail, AnswerHistory, AnswerDiff, AnswerVolatility, AnswerFields
  <1>2. /\ IsSeq(Without(i))
        /\ \A c : Has(Without(i), c) => Has(calls, c)
        /\ \A c : Has(calls, c) /\ c # calls[i] => Has(Without(i), c)
    BY LoadingNow, WithoutFacts
  <1>3. \A c : c.to = "list" => (Has(Without(i), c) <=> Has(calls, c))
    BY <1>1, <1>2
  <1>4. calls' = Without(i) \/ \E x : x.to # "list" /\ calls' = Append(Without(i), x)
    BY DiffEffectCalls
       DEF AnswerDetail, AnswerHistory, AnswerDiff, AnswerVolatility, AnswerFields
  <1>5. CASE AnswerDetail(i, ok) \/ AnswerHistory(i, ok) \/ AnswerDiff(i, ok)
    <2>1. vol' = vol /\ calls[i].to \notin {"volatility", "fields"}
      BY <1>5 DEF AnswerDetail, AnswerHistory, AnswerDiff
    <2>2. /\ vol'.loading => \E c : Has(Without(i), c) /\ c.to = "volatility"
          /\ vol'.fieldLoading => \E c : Has(Without(i), c) /\ c.to = "fields"
      BY <1>2, <2>1, LoadingNow
    <2> QED
      BY <1>1, <1>2, <1>3, <1>4, <2>1, <2>2, LoadingNow, AskStep
  <1>6. CASE AnswerVolatility(i, ok)
    <2>1. /\ calls[i].to = "volatility"
          /\ vol' = [vol EXCEPT !.shown = IF ok THEN calls[i].arg ELSE None, !.loading = FALSE]
      BY <1>6 DEF AnswerVolatility
    <2>2. /\ DOMAIN vol' = {"shown", "loading", "entry", "fields", "fieldLoading"}
          /\ vol'.loading = FALSE /\ vol'.fieldLoading = vol.fieldLoading
      BY <2>1, LoadingNow
    <2>3. vol'.fieldLoading => \E c : Has(Without(i), c) /\ c.to = "fields"
      BY <1>2, <2>1, <2>2, LoadingNow
    <2>4. ~vol'.loading /\ vol'.loading \in BOOLEAN /\ vol'.fieldLoading \in BOOLEAN
      BY <2>2, LoadingNow
    <2> QED
      BY <1>1, <1>2, <1>3, <1>4, <2>2, <2>3, <2>4, AskStep
  <1>7. CASE AnswerFields(i, ok)
    <2>1. /\ calls[i].to = "fields"
          /\ vol' = [vol EXCEPT !.fields = IF ok THEN calls[i].arg ELSE None,
                                !.fieldLoading = FALSE]
      BY <1>7 DEF AnswerFields
    <2>2. /\ DOMAIN vol' = {"shown", "loading", "entry", "fields", "fieldLoading"}
          /\ vol'.fieldLoading = FALSE /\ vol'.loading = vol.loading
      BY <2>1, LoadingNow
    <2>3. vol'.loading => \E c : Has(Without(i), c) /\ c.to = "volatility"
      BY <1>2, <2>1, <2>2, LoadingNow
    <2>4. ~vol'.fieldLoading /\ vol'.loading \in BOOLEAN /\ vol'.fieldLoading \in BOOLEAN
      BY <2>2, LoadingNow
    <2> QED
      BY <1>1, <1>2, <1>3, <1>4, <2>2, <2>3, <2>4, AskStep
  <1> QED
    BY <1>5, <1>6, <1>7

\* A rejected request ends the notice it is for; a rejected list is lost.
LEMMA RejectedInv ==
  ASSUME PageInv, NEW i \in DOMAIN calls, Rejected(i), restoring' = None
  PROVE  PageInv'
  <1>1. /\ UNCHANGED <<page, filter, window, selected, pending, urls, at>>
        /\ calls' = Without(i)
        /\ list' = IF calls[i].to = "list" THEN [list EXCEPT !.lost = TRUE] ELSE list
        /\ vol' = [vol EXCEPT !.loading = vol.loading /\ calls[i].to # "volatility",
                              !.fieldLoading = vol.fieldLoading /\ calls[i].to # "fields"]
    BY DEF Rejected
  <1>2. /\ IsSeq(calls')
        /\ \A c : Has(calls', c) => Has(calls, c)
        /\ \A c : Has(calls, c) /\ c # calls[i] => Has(calls', c)
    BY <1>1, LoadingNow, WithoutFacts
  <1>3. /\ DOMAIN vol' = {"shown", "loading", "entry", "fields", "fieldLoading"}
        /\ vol'.loading = (vol.loading /\ calls[i].to # "volatility")
        /\ vol'.fieldLoading = (vol.fieldLoading /\ calls[i].to # "fields")
    BY <1>1, LoadingNow
  <1>4. /\ vol'.loading \in BOOLEAN /\ vol'.fieldLoading \in BOOLEAN
        /\ vol'.loading => vol.loading /\ calls[i].to # "volatility"
        /\ vol'.fieldLoading => vol.fieldLoading /\ calls[i].to # "fields"
    BY <1>3
  <1>5. vol'.loading => \E c : Has(calls', c) /\ c.to = "volatility"
    BY <1>2, <1>4, LoadingNow
  <1>6. vol'.fieldLoading => \E c : Has(calls', c) /\ c.to = "fields"
    BY <1>2, <1>4, LoadingNow
  <1>7. CASE calls[i].to = "list"
    <2>1. /\ \A c : c.to = "list" => (Has(calls', c) => Has(calls, c))
          /\ list' = [list EXCEPT !.lost = TRUE]
      BY <1>1, <1>2, <1>7
    <2> QED
      BY <1>1, <1>2, <1>3, <1>4, <1>5, <1>6, <2>1, WithinStep
  <1>8. CASE calls[i].to # "list"
    <2>1. /\ \A c : c.to = "list" => (Has(calls', c) <=> Has(calls, c))
          /\ list' = list
      BY <1>1, <1>2, <1>8
    <2> QED
      BY <1>1, <1>2, <1>3, <1>4, <1>5, <1>6, <2>1, WithinStep
  <1> QED
    BY <1>7, <1>8

LEMMA NetworkInv == ASSUME PageInv, Network PROVE PageInv'
  <1>1. ASSUME NEW i \in DOMAIN calls, NEW ok \in BOOLEAN, Answered(i, ok),
               restoring' = None \/ (ok = TRUE /\ restoring' = restoring)
        PROVE  PageInv'
    <2>1. CASE AnswerList(i, ok)
      BY <1>1, <2>1, AnswerListInv
    <2>2. CASE ~AnswerList(i, ok)
      <3>1. restoring' \in {restoring, None}
        BY <1>1
      <3> QED
        BY <1>1, <2>2, <3>1, OtherAnswerInv DEF Answered
    <2> QED
      BY <2>1, <2>2
  <1>2. CASE Answer
    <2>1. PICK i \in DOMAIN calls : Answered(i, TRUE)
      BY <1>2 DEF Answer
    <2>2. restoring' = restoring /\ TRUE \in BOOLEAN
      BY <1>2 DEF Answer
    <2> QED
      BY <1>1, <2>1, <2>2, Zenon
  <1>3. CASE ErrorStatus
    <2>1. PICK i \in DOMAIN calls : Answered(i, FALSE)
      BY <1>3 DEF ErrorStatus
    <2>2. restoring' = None /\ FALSE \in BOOLEAN
      BY <1>3 DEF ErrorStatus, Fails
    <2> QED
      BY <1>1, <2>1, <2>2, Zenon
  <1>4. CASE NetworkError
    <2>1. PICK i \in DOMAIN calls : Rejected(i)
      BY <1>4 DEF NetworkError
    <2>2. restoring' = None
      BY <1>4 DEF NetworkError, Fails
    <2> QED
      BY <2>1, <2>2, RejectedInv
  <1> QED
    BY <1>2, <1>3, <1>4 DEF Network

-----------------------------------------------------------------------------
(* The theorems *)

LEMMA InitInv == Init => PageInv
  <1> SUFFICES ASSUME Init PROVE PageInv
    OBVIOUS
  <1>1. PICK v : /\ v \in Opened
                 /\ page = Loaded(v).page /\ filter = Loaded(v).filter
                 /\ window = Loaded(v).window /\ selected = None
                 /\ pending = Loaded(v).pending /\ list = NoList /\ vol = Loaded(v).vol
                 /\ calls = Loaded(v).calls
                 /\ urls = <<[v EXCEPT !.sel = None]>> /\ at = 1 /\ restoring = None
    BY DEF Init
  <1>2. PICK r : v = Url("resources", NoFilter, r, Default)
    BY <1>1 DEF Opened
  <1>3. IsFilter(NoFilter)
    BY OffsetFacts DEF NoFilter, IsFilter
  <1>4. v = [page |-> "resources", filter |-> NoFilter, sel |-> r, window |-> Default]
    BY <1>2 DEF Url
  <1> DEFINE u == [page |-> "resources", filter |-> NoFilter, sel |-> None, window |-> Default]
  <1>5. [v EXCEPT !.sel = None] = u
    BY <1>4
  <1>6. /\ page = "resources" /\ filter = NoFilter
        /\ vol = [Vol0 EXCEPT !.loading = FALSE]
        /\ calls = <<>> \o <<ListedNow>>
    <2>1. v.page = "resources" /\ v.filter = NoFilter
      BY <1>4
    <2>2. page = "resources" /\ filter = NoFilter
      BY <1>1, <2>1, LoadedFacts
    <2>3. vol = [Vol0 EXCEPT !.loading = v.page = "volatility"]
      BY <1>1, LoadedFacts
    <2>4. (v.page = "volatility") = FALSE
      BY <2>1
    <2>5. calls = <<>> \o <<Call("list", ListRequest(v.filter))>>
      BY <1>1, <2>1, LoadedFacts
    <2> QED
      BY <2>1, <2>2, <2>3, <2>4, <2>5 DEF ListedNow
  <1>7. urls = <<u>> /\ IsSeq(urls) /\ Len(urls) = 1 /\ urls[1] = u
    BY <1>1, <1>5, SingleFacts
  <1>8. IsSeq(calls) /\ \A c : Has(calls, c) <=> c = ListedNow
    BY <1>6, SingleFacts, ConcatHas
  <1>9. /\ DOMAIN vol = {"shown", "loading", "entry", "fields", "fieldLoading"}
        /\ vol.loading = FALSE /\ vol.fieldLoading = FALSE
    BY <1>6 DEF Vol0
  <1>10. Shapes
    <2>1. at \in 1..Len(urls) /\ \A i \in 1..Len(urls) : urls[i].filter = NoFilter
      BY <1>1, <1>7
    <2>2. DOMAIN list = {"of", "ok", "lost"}
      BY <1>1 DEF NoList
    <2> QED
      BY <1>3, <1>6, <1>7, <1>8, <1>9, <2>1, <2>2 DEF Shapes
  <1>11. ListCalls /\ Restores /\ ListFollowsFilter
    BY <1>1, <1>8, FlightFacts DEF FlightMeans, ListCalls, Restores
  <1>12. AddressHoldsTheView
    BY <1>1, <1>6, <1>7, LoadedFacts DEF AddressHoldsTheView
  <1>13. LoadingMeansWaiting
    BY <1>9 DEF LoadingMeansWaiting
  <1> QED
    BY <1>10, <1>11, <1>12, <1>13 DEF PageInv

LEMMA NextInv == PageInv /\ [Next]_vars => PageInv'
  <1> SUFFICES ASSUME PageInv, [Next]_vars PROVE PageInv'
    OBVIOUS
  <1>1. CASE Reload
    BY <1>1, ReloadInv
  <1>2. CASE Browse /\ ~Reload
    BY <1>2, BrowseInv
  <1>3. CASE Inspect
    BY <1>3, InspectInv
  <1>4. CASE Network
    BY <1>4, NetworkInv
  <1>5. CASE UNCHANGED vars
    <2>1. UNCHANGED <<page, filter, window, selected, pending, list, urls, at, vol,
                      calls, restoring>>
      BY <1>5 DEF vars
    <2> QED
      BY <2>1, LoadingNow, WithinStep
  <1> QED
    BY <1>1, <1>2, <1>3, <1>4, <1>5 DEF Next

LEMMA PageInvHolds == Spec => []PageInv
  BY InitInv, NextInv, PTL DEF Spec

\* The rows below the filter are those of the filter, whatever the order of the
\* answers, unless their request is in flight or was lost (App.tsx).
THEOREM ListFollows == Spec => []ListFollowsFilter
  <1>1. PageInv => ListFollowsFilter
    BY DEF PageInv
  <1> QED
    BY <1>1, PageInvHolds, PTL

\* After every handler and every answer the address of the page stands for the
\* view (App.tsx: syncResourcesUrl and syncVolatilityUrl).
THEOREM AddressInStep == Spec => []AddressHoldsTheView
  <1>1. PageInv => AddressHoldsTheView
    BY DEF PageInv
  <1> QED
    BY <1>1, PageInvHolds, PTL

\* A selection survives a reload (App.tsx: selName and pendingSelect).
THEOREM SelectionRestored == Spec => []SelectionComesBack
  <1>1. PageInv => SelectionComesBack
    <2> SUFFICES ASSUME PageInv, restoring # None, ~InFlight("list")
                 PROVE  selected # None /\ SameObject(selected, restoring)
      BY DEF SelectionComesBack
    <2>1. ListedNow.to = "list"
      BY CallFacts DEF ListedNow
    <2>2. ~Has(calls, ListedNow)
      BY <2>1, LoadingNow, FlightFacts DEF FlightMeans
    <2> QED
      BY <2>2 DEF PageInv, Restores
  <1> QED
    BY <1>1, PageInvHolds, PTL

\* A notice of loading stands only while its request is in flight
\* (VolatilityView.tsx: then and catch).
THEOREM NoticeEnds == Spec => []LoadingMeansWaiting
  <1>1. PageInv => LoadingMeansWaiting
    BY DEF PageInv
  <1> QED
    BY <1>1, PageInvHolds, PTL

-----------------------------------------------------------------------------
(* The last request of a kind *)

Silent(cs, to) == \A i \in 1..Len(cs) : cs[i].to # to

LastIs(cs, to, x) ==
  \E i \in 1..Len(cs) : cs[i] = Call(to, x) /\ \A j \in (i + 1)..Len(cs) : cs[j].to # to

\* x is shown, or the last request of its kind asks for it.
Coming(cs, to, x, shown) == (Silent(cs, to) /\ shown = x) \/ LastIs(cs, to, x)

\* What the page shows is what it should show, once the requests of cs have
\* been answered in their order.
SettlesWith(cs) ==
  /\ selected # None => Coming(cs, "detail", selected, detail)
  /\ selected # None /\ panel.tab = "history" => Coming(cs, "history", selected, panel.history)
  /\ LET ft == FromTo(panel.shas, panel.history)
     IN selected # None /\ ft # None => Coming(cs, "diff", DiffRequest(selected, ft), panel.diff)
  /\ page = "volatility" => Coming(cs, "volatility", VolRequest(filter, window), vol.shown)
  /\ page = "volatility" /\ vol.entry # None
       => Coming(cs, "fields", FieldsRequest(vol.entry, window), vol.fields)

Settles ==
  /\ DOMAIN panel = {"tab", "history", "shas", "diff"}
  /\ page # "volatility" => vol.entry = None
  /\ clean => SettlesWith(calls)

LEMMA SingleLast ==
  /\ \A to : Silent(<<>>, to)
  /\ \A to, o, x : o # to => Silent(<<Call(o, x)>>, to)
  /\ \A to, x : LastIs(<<Call(to, x)>>, to, x)
  <1>1. ASSUME NEW y PROVE Len(<<y>>) = 1 /\ <<y>>[1] = y
    OBVIOUS
  <1>2. Len(<<>>) = 0
    OBVIOUS
  <1>3. ASSUME NEW to, NEW o, NEW x, o # to PROVE Silent(<<Call(o, x)>>, to)
    BY <1>1, <1>3, CallFacts DEF Silent
  <1>4. ASSUME NEW to, NEW x PROVE LastIs(<<Call(to, x)>>, to, x)
    BY <1>1 DEF LastIs
  <1>5. \A to : Silent(<<>>, to)
    BY <1>2 DEF Silent
  <1> QED
    BY <1>3, <1>4, <1>5

LEMMA ConcatLast ==
  ASSUME NEW s, NEW t, IsSeq(s), IsSeq(t), NEW to
  PROVE  /\ Silent(s, to) /\ Silent(t, to) => Silent(s \o t, to)
         /\ \A x : LastIs(s, to, x) /\ Silent(t, to) => LastIs(s \o t, to, x)
         /\ \A x : LastIs(t, to, x) => LastIs(s \o t, to, x)
         /\ \A x, shown : Coming(s, to, x, shown) /\ Silent(t, to) => Coming(s \o t, to, x, shown)
  <1> DEFINE S == {s[i] : i \in DOMAIN s} \cup {t[i] : i \in DOMAIN t}
             n == Len(s)
             m == Len(t)
             st == s \o t
  <1>1. s \in Seq(S) /\ t \in Seq(S)
    <2>1. /\ n \in Nat /\ s \in [1..n -> S]
          /\ m \in Nat /\ t \in [1..m -> S]
      BY IsSeqFacts
    <2> HIDE DEF S
    <2> QED
      BY <2>1
  <1> HIDE DEF S
  <1>2. /\ Len(st) = n + m /\ n \in Nat /\ m \in Nat
        /\ \A i \in 1..n : st[i] = s[i]
        /\ \A i \in 1..m : st[n + i] = t[i]
    BY <1>1
  <1> HIDE DEF n, m, st
  <1>3. \A i \in 1..(n + m) : i \in 1..n \/ (i - n \in 1..m /\ st[i] = t[i - n])
    <2> SUFFICES ASSUME NEW i \in 1..(n + m), i \notin 1..n
                 PROVE  i - n \in 1..m /\ st[i] = t[i - n]
      OBVIOUS
    <2>1. i - n \in 1..m /\ n + (i - n) = i
      BY <1>2
    <2> QED
      BY <1>2, <2>1
  <1>4. ASSUME Silent(s, to), Silent(t, to) PROVE Silent(st, to)
    BY <1>2, <1>3, <1>4 DEF Silent, n, m
  <1>5. ASSUME NEW x, LastIs(s, to, x), Silent(t, to) PROVE LastIs(st, to, x)
    <2>1. PICK i \in 1..n : s[i] = Call(to, x) /\ \A j \in (i + 1)..n : s[j].to # to
      BY <1>5 DEF LastIs, n
    <2>2. i \in 1..(n + m) /\ st[i] = Call(to, x)
      BY <1>2, <2>1
    <2>3. ASSUME NEW j \in (i + 1)..(n + m) PROVE st[j].to # to
      <3>1. CASE j \in 1..n
        BY <1>2, <2>1, <3>1
      <3>2. CASE j \notin 1..n
        <4>1. j \in 1..(n + m)
          BY <1>2
        <4>2. j - n \in 1..m /\ st[j] = t[j - n]
          BY <1>3, <3>2, <4>1
        <4> QED
          BY <1>5, <4>2 DEF Silent, m
      <3> QED
        BY <3>1, <3>2
    <2> QED
      BY <1>2, <2>2, <2>3 DEF LastIs
  <1>6. ASSUME NEW x, LastIs(t, to, x) PROVE LastIs(st, to, x)
    <2>1. PICK i \in 1..m : t[i] = Call(to, x) /\ \A j \in (i + 1)..m : t[j].to # to
      BY <1>6 DEF LastIs, m
    <2>2. n + i \in 1..(n + m) /\ st[n + i] = Call(to, x)
      BY <1>2, <2>1
    <2>3. ASSUME NEW j \in (n + i + 1)..(n + m) PROVE st[j].to # to
      <3>1. j \in 1..(n + m) /\ j \notin 1..n
        BY <1>2
      <3>2. j - n \in (i + 1)..m /\ st[j] = t[j - n]
        BY <1>2, <1>3, <3>1
      <3> QED
        BY <2>1, <3>2
    <2> QED
      BY <1>2, <2>2, <2>3 DEF LastIs
  <1> QED
    BY <1>4, <1>5, <1>6 DEF st, Coming

LEMMA AppendLast ==
  ASSUME NEW s, IsSeq(s), NEW o, NEW y, NEW to
  PROVE  /\ \A x, shown : Coming(s, to, x, shown) /\ o # to
                            => Coming(Append(s, Call(o, y)), to, x, shown)
         /\ o = to => \A shown : Coming(Append(s, Call(o, y)), to, y, shown)
  <1> DEFINE c == Call(o, y)
  <1>1. /\ Len(Append(s, c)) = Len(s) + 1 /\ Append(s, c)[Len(s) + 1] = c /\ Len(s) \in Nat
        /\ \A i \in 1..Len(s) : Append(s, c)[i] = s[i]
    BY AppendFacts, IsSeqFacts
  <1>2. c.to = o
    BY CallFacts
  <1> HIDE DEF c
  <1>3. \A i \in 1..(Len(s) + 1) : i \in 1..Len(s) \/ i = Len(s) + 1
    BY <1>1
  <1>4. ASSUME o = to, NEW shown PROVE Coming(Append(s, c), to, y, shown)
    BY <1>1, <1>4 DEF Coming, LastIs, c
  <1>5. ASSUME NEW x, Silent(s, to), o # to PROVE Silent(Append(s, c), to)
    BY <1>1, <1>2, <1>3, <1>5 DEF Silent
  <1>6. ASSUME NEW x, LastIs(s, to, x), o # to PROVE LastIs(Append(s, c), to, x)
    <2>1. PICK i \in 1..Len(s) : s[i] = Call(to, x) /\ \A j \in (i + 1)..Len(s) : s[j].to # to
      BY <1>6 DEF LastIs
    <2>2. i \in 1..(Len(s) + 1) /\ Append(s, c)[i] = Call(to, x)
      BY <1>1, <2>1
    <2>3. ASSUME NEW j \in (i + 1)..(Len(s) + 1) PROVE Append(s, c)[j].to # to
      <3>1. j \in (i + 1)..Len(s) \/ j = Len(s) + 1
        BY <1>1
      <3> QED
        BY <1>1, <1>2, <1>6, <2>1, <3>1
    <2> QED
      BY <1>1, <2>2, <2>3 DEF LastIs
  <1> QED
    BY <1>4, <1>5, <1>6 DEF Coming, c

\* An answer that overtakes none of its kind shows what was asked for, or a
\* later request of its kind is still to come.
LEMMA WithoutLast ==
  ASSUME IsSeq(calls), NEW i \in DOMAIN calls, NEW to, NEW x, NEW shown,
         Coming(calls, to, x, shown)
  PROVE  /\ calls[i].to # to => Coming(Without(i), to, x, shown)
         /\ calls[i].to = to /\ ~Overtakes(i) => Coming(Without(i), to, x, calls[i].arg)
  <1> DEFINE S == {calls[k] : k \in DOMAIN calls}
             n == Len(calls)
             a == SubSeq(calls, 1, i - 1)
             b == SubSeq(calls, i + 1, n)
             w == Without(i)
  <1>1. calls \in Seq(S) /\ n \in Nat /\ i \in 1..n
    BY IsSeqFacts DEF IsSeq
  <1> HIDE DEF S
  <1>2. /\ a \in Seq(S) /\ Len(a) = i - 1
        /\ \A k \in 1..(i - 1) : a[k] = calls[k]
    BY <1>1
  <1>3. /\ b \in Seq(S) /\ Len(b) = n - i
        /\ \A k \in 1..(n - i) : b[k] = calls[i + k]
    BY <1>1
  <1>4. w = a \o b
    BY DEF Without
  <1> HIDE DEF a, b, n, w
  <1>5. /\ Len(w) = n - 1
        /\ \A k \in 1..(i - 1) : w[k] = calls[k]
        /\ \A k \in 1..(n - i) : w[(i - 1) + k] = calls[i + k]
    <2>1. /\ Len(a \o b) = Len(a) + Len(b)
          /\ \A k \in 1..Len(a) : (a \o b)[k] = a[k]
          /\ \A k \in 1..Len(b) : (a \o b)[Len(a) + k] = b[k]
      BY <1>2, <1>3
    <2>2. (i - 1) + (n - i) = n - 1
      BY <1>1
    <2> QED
      BY <1>2, <1>3, <1>4, <2>1, <2>2
  <1>6. \A k \in i..(n - 1) : w[k] = calls[k + 1]
    <2> SUFFICES ASSUME NEW k \in i..(n - 1) PROVE w[k] = calls[k + 1]
      OBVIOUS
    <2>1. k - i + 1 \in 1..(n - i) /\ (i - 1) + (k - i + 1) = k /\ i + (k - i + 1) = k + 1
      BY <1>1
    <2> QED
      BY <1>5, <2>1
  <1>7. \A k \in 1..(n - 1) : \/ k \in 1..(i - 1) /\ w[k] = calls[k]
                              \/ k \in i..(n - 1) /\ w[k] = calls[k + 1] /\ k + 1 \in (i + 1)..n
    <2>1. \A k \in 1..(n - 1) : k \in 1..(i - 1) \/ (k \in i..(n - 1) /\ k + 1 \in (i + 1)..n)
      BY <1>1
    <2> QED
      BY <1>5, <1>6, <2>1
  <1>8. ASSUME Silent(calls, to) PROVE Silent(w, to)
    <2>1. \A k \in 1..(n - 1) : k \in 1..n /\ k + 1 \in 1..n
      BY <1>1
    <2> QED
      BY <1>5, <1>7, <1>8, <2>1 DEF Silent, n
  <1>9. ASSUME NEW k \in 1..n, calls[k] = Call(to, x), \A j \in (k + 1)..n : calls[j].to # to, k < i
        PROVE  LastIs(w, to, x)
    <2>1. k \in 1..(n - 1) /\ w[k] = Call(to, x)
      BY <1>1, <1>5, <1>9
    <2>2. ASSUME NEW j \in (k + 1)..(n - 1) PROVE w[j].to # to
      <3>1. j \in 1..(n - 1) /\ j \in (k + 1)..n /\ j + 1 \in (k + 1)..n
        BY <1>1
      <3> QED
        BY <1>7, <1>9, <3>1
    <2> QED
      BY <1>5, <2>1, <2>2 DEF LastIs
  <1>10. ASSUME NEW k \in 1..n, calls[k] = Call(to, x), \A j \in (k + 1)..n : calls[j].to # to, i < k
         PROVE  LastIs(w, to, x)
    <2>1. k - 1 \in i..(n - 1) /\ k - 1 \in 1..(n - 1) /\ (k - 1) + 1 = k
      BY <1>1, <1>10
    <2>2. w[k - 1] = Call(to, x)
      BY <1>6, <1>10, <2>1
    <2>3. ASSUME NEW j \in ((k - 1) + 1)..(n - 1) PROVE w[j].to # to
      <3>1. j \in i..(n - 1) /\ j + 1 \in (k + 1)..n
        BY <1>1, <1>10
      <3> QED
        BY <1>6, <1>10, <3>1
    <2> QED
      BY <1>5, <2>1, <2>2, <2>3 DEF LastIs
  <1>11. ASSUME calls[i].to # to PROVE Coming(w, to, x, shown)
    <2>1. CASE Silent(calls, to) /\ shown = x
      BY <1>8, <2>1 DEF Coming
    <2>2. CASE LastIs(calls, to, x)
      <3>1. PICK k \in 1..n : calls[k] = Call(to, x) /\ \A j \in (k + 1)..n : calls[j].to # to
        BY <2>2 DEF LastIs, n
      <3>2. k # i
        BY <1>11, <3>1, CallFacts
      <3>3. k < i \/ i < k
        BY <1>1, <3>2
      <3> QED
        BY <1>9, <1>10, <3>1, <3>3 DEF Coming
    <2> QED
      BY <2>1, <2>2 DEF Coming
  <1>12. ASSUME calls[i].to = to, ~Overtakes(i) PROVE Coming(w, to, x, calls[i].arg)
    <2>1. ~Silent(calls, to)
      BY <1>1, <1>12 DEF Silent, n
    <2>2. PICK k \in 1..n : calls[k] = Call(to, x) /\ \A j \in (k + 1)..n : calls[j].to # to
      BY <2>1 DEF Coming, LastIs, n
    <2>3. ~(k < i)
      <3>1. k < i => i \in (k + 1)..n
        BY <1>1
      <3> QED
        BY <1>12, <2>2, <3>1
    <2>4. CASE k = i
      <3>1. calls[i].arg = x
        BY <2>2, <2>4, CallFacts
      <3>2. \A j \in 1..(i - 1) : calls[j].to # to
        BY <1>12 DEF Overtakes
      <3>3. Silent(w, to)
        BY <1>5, <1>7, <2>2, <2>4, <3>2 DEF Silent
      <3> QED
        BY <3>1, <3>3 DEF Coming
    <2>5. CASE i < k
      BY <1>10, <2>2, <2>5 DEF Coming
    <2> QED
      BY <1>1, <2>3, <2>4, <2>5
  <1> QED
    BY <1>11, <1>12 DEF w

\* A render drops all requests of a kind or none.
LEMMA KeptLast ==
  ASSUME NEW cs, IsSeq(cs), NEW f, NEW pg, NEW to,
         \A c : c.to = to => Looked(c, f, pg), NEW x, NEW shown, Coming(cs, to, x, shown)
  PROVE  Coming(Kept(cs, f, pg), to, x, shown)
  <1> DEFINE S == {cs[i] : i \in DOMAIN cs}
             keep == {i \in DOMAIN cs : Looked(cs[i], f, pg)}
             kept == SubSeqAt(cs, keep)
  <1>1. /\ cs \in Seq(S) /\ Len(cs) \in Nat /\ DOMAIN cs = 1..Len(cs)
        /\ keep \in SUBSET (1..Len(cs))
    BY IsSeqFacts DEF IsSeq
  <1>2. Kept(cs, f, pg) = kept
    BY DEF Kept, Looked
  <1> HIDE DEF S
  <1>3. /\ \A k \in 1..Len(kept) : \E i \in keep : kept[k] = cs[i]
        /\ \A i \in keep : \E k \in 1..Len(kept) :
             /\ kept[k] = cs[i]
             /\ \A l \in (k + 1)..Len(kept) : \E j \in keep : i < j /\ kept[l] = cs[j]
    <2> HIDE DEF keep
    <2> QED
      BY <1>1, SubSeqAtFacts
  <1> HIDE DEF kept
  <1>4. CASE Silent(cs, to) /\ shown = x
    <2>1. \A i \in keep : cs[i].to # to
      BY <1>1, <1>4 DEF Silent
    <2>2. Silent(kept, to)
      BY <1>3, <2>1 DEF Silent
    <2> QED
      BY <1>2, <1>4, <2>2 DEF Coming
  <1>5. CASE LastIs(cs, to, x)
    <2>1. PICK i \in 1..Len(cs) : cs[i] = Call(to, x) /\ \A j \in (i + 1)..Len(cs) : cs[j].to # to
      BY <1>5 DEF LastIs
    <2>2. i \in keep
      BY <1>1, <2>1, CallFacts
    <2>3. PICK k \in 1..Len(kept) :
            /\ kept[k] = cs[i]
            /\ \A l \in (k + 1)..Len(kept) : \E j \in keep : i < j /\ kept[l] = cs[j]
      BY <1>3, <2>2
    <2>4. ASSUME NEW l \in (k + 1)..Len(kept) PROVE kept[l].to # to
      <3>1. PICK j \in keep : i < j /\ kept[l] = cs[j]
        BY <2>3
      <3>2. j \in (i + 1)..Len(cs)
        BY <1>1, <3>1
      <3> QED
        BY <2>1, <3>1, <3>2
    <2>5. LastIs(kept, to, x)
      BY <2>1, <2>3, <2>4 DEF LastIs
    <2> QED
      BY <1>2, <2>5 DEF Coming
  <1> QED
    BY <1>4, <1>5 DEF Coming

LEMMA VolCallLast ==
  ASSUME NEW f, NEW pg, NEW w
  PROVE  /\ \A to : to \notin {"volatility", "fields"} => Silent(VolCalls(f, pg, w), to)
         /\ Asks(f, pg, w) => LastIs(VolCalls(f, pg, w), "volatility", VolRequest(f, w))
         /\ ~Asks(f, pg, w) => Silent(VolCalls(f, pg, w), "volatility")
         /\ AsksFields(pg, w) => LastIs(VolCalls(f, pg, w), "fields", FieldsRequest(vol.entry, w))
         /\ ~AsksFields(pg, w) => Silent(VolCalls(f, pg, w), "fields")
  <1> DEFINE x == VolRequest(f, w)
             y == FieldsRequest(vol.entry, w)
             a == IF Asks(f, pg, w) THEN <<Call("volatility", x)>> ELSE <<>>
             b == IF AsksFields(pg, w) THEN <<Call("fields", y)>> ELSE <<>>
  <1>1. VolCalls(f, pg, w) = a \o b
    BY DEF VolCalls
  <1> HIDE DEF x, y
  <1>2. /\ IsSeq(a) /\ \A to : to # "volatility" => Silent(a, to)
        /\ Asks(f, pg, w) => LastIs(a, "volatility", x)
        /\ ~Asks(f, pg, w) => Silent(a, "volatility")
    BY SingleFacts, SingleLast
  <1>3. /\ IsSeq(b) /\ \A to : to # "fields" => Silent(b, to)
        /\ AsksFields(pg, w) => LastIs(b, "fields", y)
        /\ ~AsksFields(pg, w) => Silent(b, "fields")
    BY SingleFacts, SingleLast
  <1> HIDE DEF a, b
  <1>4. ASSUME NEW to
        PROVE  /\ Silent(a, to) /\ Silent(b, to) => Silent(a \o b, to)
               /\ \A z : LastIs(a, to, z) /\ Silent(b, to) => LastIs(a \o b, to, z)
               /\ \A z : LastIs(b, to, z) => LastIs(a \o b, to, z)
    BY <1>2, <1>3, ConcatLast
  <1>5. \A to : to \notin {"volatility", "fields"} => Silent(a \o b, to)
    BY <1>2, <1>3, <1>4
  <1>6. /\ Asks(f, pg, w) => LastIs(a \o b, "volatility", x)
        /\ ~Asks(f, pg, w) => Silent(a \o b, "volatility")
    BY <1>2, <1>3, <1>4
  <1>7. /\ AsksFields(pg, w) => LastIs(a \o b, "fields", y)
        /\ ~AsksFields(pg, w) => Silent(a \o b, "fields")
    BY <1>2, <1>3, <1>4
  <1> QED
    BY <1>1, <1>5, <1>6, <1>7 DEF x, y

\* What becomes of the last request of each kind in a render.
LEMMA RenderLast ==
  ASSUME NEW cs, IsSeq(cs), NEW f, NEW s, NEW pg, NEW w, Render(cs, f, s, pg, w)
  PROVE  /\ s \notin {selected, None} => \A z : Coming(calls', "detail", s, z)
         /\ s \in {selected, None} =>
              \A x, z : Coming(cs, "detail", x, z) => Coming(calls', "detail", x, z)
         /\ pg = "resources" /\ s \in {selected, None} =>
              \A to \in {"history", "diff"} :
                 \A x, z : Coming(cs, to, x, z) => Coming(calls', to, x, z)
         /\ Asks(f, pg, w) => \A z : Coming(calls', "volatility", VolRequest(f, w), z)
         /\ pg = "volatility" /\ ~Asks(f, pg, w) =>
              \A x, z : Coming(cs, "volatility", x, z) => Coming(calls', "volatility", x, z)
         /\ AsksFields(pg, w) => \A z : Coming(calls', "fields", FieldsRequest(vol.entry, w), z)
         /\ pg = "volatility" /\ ~AsksFields(pg, w) =>
              \A x, z : Coming(cs, "fields", x, z) => Coming(calls', "fields", x, z)
  <1> DEFINE a == Kept(cs, f, pg)
             b == StrayCalls(s, pg)
             d == VolCalls(f, pg, w)
             e == ListCall(f)
             g == DetailCall(s)
             asked == VolRequest(f, w)
             fields == FieldsRequest(vol.entry, w)
  <1>1. calls' = a \o b \o d \o e \o g
    BY DEF Render
  <1>2. /\ IsSeq(a)
        /\ \A x, z : Coming(cs, "detail", x, z) => Coming(a, "detail", x, z)
        /\ pg = "resources" => \A to \in {"history", "diff"} :
             \A x, z : Coming(cs, to, x, z) => Coming(a, to, x, z)
        /\ pg = "volatility" => \A to \in {"volatility", "fields"} :
             \A x, z : Coming(cs, to, x, z) => Coming(a, to, x, z)
    <2>1. IsSeq(a)
      BY KeptFacts
    <2>2. \A c : c.to = "detail" => Looked(c, f, pg)
      BY DEF Looked
    <2>3. ASSUME pg = "resources", NEW to \in {"history", "diff"}
          PROVE  \A c : c.to = to => Looked(c, f, pg)
      BY <2>3 DEF Looked
    <2>4. ASSUME pg = "volatility", NEW to \in {"volatility", "fields"}
          PROVE  \A c : c.to = to => Looked(c, f, pg)
      BY <2>4 DEF Looked
    <2>5. ASSUME NEW to, \A c : c.to = to => Looked(c, f, pg)
          PROVE  \A x, z : Coming(cs, to, x, z) => Coming(a, to, x, z)
      BY <2>5, KeptLast
    <2> QED
      BY <2>1, <2>2, <2>3, <2>4, <2>5
  <1>3. /\ IsSeq(b) /\ \A to : to \notin {"history", "diff"} => Silent(b, to)
        /\ s \in {selected, None} => \A to : Silent(b, to)
    <2>1. /\ IsSeq(b) /\ \A c : Has(b, c) => c.to \in {"history", "diff"}
      BY StrayFacts
    <2>2. \A to : to \notin {"history", "diff"} => Silent(b, to)
      <3> HIDE DEF b
      <3> QED
        BY <2>1 DEF Has, Silent
    <2>3. s \in {selected, None} => b = <<>>
      BY DEF StrayCalls
    <2> QED
      BY <2>1, <2>2, <2>3, SingleLast
  <1>4. /\ IsSeq(d) /\ \A to : to \notin {"volatility", "fields"} => Silent(d, to)
        /\ Asks(f, pg, w) => LastIs(d, "volatility", asked)
        /\ ~Asks(f, pg, w) => Silent(d, "volatility")
        /\ AsksFields(pg, w) => LastIs(d, "fields", fields)
        /\ ~AsksFields(pg, w) => Silent(d, "fields")
    BY VolCallFacts, VolCallLast
  <1>5. IsSeq(e) /\ \A to : to # "list" => Silent(e, to)
    BY SingleFacts, SingleLast DEF ListCall
  <1>6. /\ IsSeq(g) /\ \A to : to # "detail" => Silent(g, to)
        /\ s \notin {selected, None} => LastIs(g, "detail", s)
        /\ s \in {selected, None} => Silent(g, "detail")
    BY SingleFacts, SingleLast DEF DetailCall
  <1> HIDE DEF a, b, d, e, g, asked, fields
  <1>7. /\ IsSeq(a \o b) /\ IsSeq(a \o b \o d) /\ IsSeq(a \o b \o d \o e)
    BY <1>2, <1>3, <1>4, <1>5, ConcatHas
  <1>8. ASSUME NEW to, NEW x, NEW z, Coming(a, to, x, z),
               Silent(b, to), Silent(d, to), Silent(e, to), Silent(g, to)
        PROVE  Coming(calls', to, x, z)
    <2>1. Coming(a \o b, to, x, z)
      BY <1>2, <1>3, <1>8, ConcatLast
    <2>2. Coming(a \o b \o d, to, x, z)
      BY <1>4, <1>7, <1>8, <2>1, ConcatLast
    <2>3. Coming(a \o b \o d \o e, to, x, z)
      BY <1>5, <1>7, <1>8, <2>2, ConcatLast
    <2> QED
      BY <1>1, <1>6, <1>7, <1>8, <2>3, ConcatLast
  <1>9. ASSUME NEW to, NEW x, LastIs(d, to, x), Silent(e, to), Silent(g, to), NEW z
        PROVE  Coming(calls', to, x, z)
    <2>1. LastIs(a \o b \o d, to, x)
      BY <1>4, <1>7, <1>9, ConcatLast
    <2>2. LastIs(a \o b \o d \o e, to, x)
      BY <1>5, <1>7, <1>9, <2>1, ConcatLast
    <2>3. LastIs(calls', to, x)
      BY <1>1, <1>6, <1>7, <1>9, <2>2, ConcatLast
    <2> QED
      BY <2>3 DEF Coming
  <1>10. ASSUME NEW to, NEW x, LastIs(g, to, x), NEW z
         PROVE  Coming(calls', to, x, z)
    BY <1>1, <1>6, <1>7, <1>10, ConcatLast DEF Coming
  <1>11. s \notin {selected, None} => \A z : Coming(calls', "detail", s, z)
    BY <1>6, <1>10
  <1>12. s \in {selected, None} =>
           \A x, z : Coming(cs, "detail", x, z) => Coming(calls', "detail", x, z)
    BY <1>2, <1>3, <1>4, <1>5, <1>6, <1>8
  <1>13. ASSUME pg = "resources", s \in {selected, None}, NEW to \in {"history", "diff"}
         PROVE  \A x, z : Coming(cs, to, x, z) => Coming(calls', to, x, z)
    <2>1. Silent(b, to) /\ Silent(d, to) /\ Silent(e, to) /\ Silent(g, to)
      BY <1>3, <1>4, <1>5, <1>6, <1>13
    <2> QED
      BY <1>2, <1>8, <1>13, <2>1
  <1>14. Asks(f, pg, w) => \A z : Coming(calls', "volatility", asked, z)
    BY <1>4, <1>5, <1>6, <1>9
  <1>15. AsksFields(pg, w) => \A z : Coming(calls', "fields", fields, z)
    BY <1>4, <1>5, <1>6, <1>9
  <1>16. ASSUME pg = "volatility", ~Asks(f, pg, w)
         PROVE  \A x, z : Coming(cs, "volatility", x, z) => Coming(calls', "volatility", x, z)
    BY <1>2, <1>3, <1>4, <1>5, <1>6, <1>8, <1>16
  <1>17. ASSUME pg = "volatility", ~AsksFields(pg, w)
         PROVE  \A x, z : Coming(cs, "fields", x, z) => Coming(calls', "fields", x, z)
    BY <1>2, <1>3, <1>4, <1>5, <1>6, <1>8, <1>17
  <1> QED
    BY <1>11, <1>12, <1>13, <1>14, <1>15, <1>16, <1>17 DEF asked, fields

LEMMA PanelFacts ==
  /\ DOMAIN Panel0 = {"tab", "history", "shas", "diff"}
  /\ Panel0.tab = "yaml" /\ FromTo(Panel0.shas, Panel0.history) = None
  <1>1. Panel0.shas = <<>> /\ Len(<<>>) = 0 /\ Panel0.tab = "yaml"
    BY DEF Panel0
  <1>2. FromTo(<<>>, Panel0.history) = None
    BY <1>1 DEF FromTo
  <1> QED
    BY <1>1, <1>2 DEF Panel0

\* A render leaves every part of the page with what it should show, or with a
\* request for that as the last of its kind.
LEMMA RenderSettles ==
  ASSUME Shapes, Settles, NEW cs, IsSeq(cs), NEW f, NEW s, NEW pg, NEW w,
         Render(cs, f, s, pg, w), clean' => SettlesWith(cs)
  PROVE  Settles'
  <1>1. /\ filter' = f /\ selected' = s /\ page' = pg /\ window' = w
        /\ detail' = IF s = None /\ s # selected THEN None ELSE detail
        /\ panel' = PanelAfter(s, pg) /\ vol' = VolAfter(f, pg, w)
    BY DEF Render
  <1>2. \/ panel' = Panel0
        \/ panel' = panel /\ page = "resources" /\ pg = "resources" /\ s = selected
    BY <1>1 DEF PanelAfter
  <1>3. DOMAIN panel' = {"tab", "history", "shas", "diff"}
    BY <1>2, PanelFacts DEF Settles
  <1>4. pg = "volatility" => /\ vol'.shown = vol.shown /\ vol'.entry = vol.entry
                             /\ vol'.fields = vol.fields
    BY <1>1 DEF VolAfter, Shapes
  <1>5. page' # "volatility" => vol'.entry = None
    BY <1>1 DEF VolAfter, Vol0
  <1>6. ASSUME clean' PROVE SettlesWith(calls)'
    <2>1. SettlesWith(cs)
      BY <1>6
    <2>2. selected' # None => Coming(calls', "detail", selected', detail')
      <3>1. CASE s \notin {selected, None}
        BY <1>1, <3>1, RenderLast
      <3>2. CASE s = selected /\ s # None
        BY <1>1, <2>1, <3>2, RenderLast DEF SettlesWith
      <3> QED
        BY <1>1, <3>1, <3>2
    <2>3. /\ selected' # None /\ panel'.tab = "history"
               => Coming(calls', "history", selected', panel'.history)
          /\ selected' # None /\ FromTo(panel'.shas, panel'.history) # None
               => Coming(calls', "diff", DiffRequest(selected', FromTo(panel'.shas, panel'.history)),
                         panel'.diff)
      <3>1. CASE panel' = Panel0
        BY <3>1, PanelFacts
      <3>2. CASE panel' = panel /\ page = "resources" /\ pg = "resources" /\ s = selected
        <4>1. \A to \in {"history", "diff"} : \A x, z : Coming(cs, to, x, z) => Coming(calls', to, x, z)
          BY <3>2, RenderLast
        <4>2. selected' = selected
          BY <1>1, <3>2
        <4> QED
          BY <2>1, <3>2, <4>1, <4>2 DEF SettlesWith
      <3> QED
        BY <1>2, <3>1, <3>2
    <2>4. page' = "volatility"
            => Coming(calls', "volatility", VolRequest(filter', window'), vol'.shown)
      <3>1. CASE Asks(f, pg, w)
        BY <1>1, <3>1, RenderLast
      <3>2. CASE pg = "volatility" /\ ~Asks(f, pg, w)
        <4>1. page = "volatility" /\ VolRequest(f, w) = VolRequest(filter, window)
          BY <3>2 DEF Asks
        <4>2. \A x, z : Coming(cs, "volatility", x, z) => Coming(calls', "volatility", x, z)
          BY <3>2, RenderLast
        <4>3. Coming(cs, "volatility", VolRequest(f, w), vol.shown)
          BY <2>1, <4>1 DEF SettlesWith
        <4> QED
          BY <1>1, <1>4, <3>2, <4>2, <4>3
      <3> QED
        BY <1>1, <3>1, <3>2
    <2>5. page' = "volatility" /\ vol'.entry # None
            => Coming(calls', "fields", FieldsRequest(vol'.entry, window'), vol'.fields)
      <3> SUFFICES ASSUME pg = "volatility", vol.entry # None
                   PROVE  Coming(calls', "fields", FieldsRequest(vol.entry, w), vol.fields)
        BY <1>1, <1>4
      <3>1. page = "volatility"
        BY DEF Settles
      <3>2. CASE AsksFields(pg, w)
        BY <3>2, RenderLast
      <3>3. CASE ~AsksFields(pg, w)
        <4>1. FieldsRequest(vol.entry, w) = FieldsRequest(vol.entry, window)
          BY <3>1, <3>3 DEF AsksFields, FieldsRequest
        <4>2. Coming(cs, "fields", FieldsRequest(vol.entry, w), vol.fields)
          BY <2>1, <3>1, <4>1 DEF SettlesWith
        <4> QED
          BY <3>3, <4>2, RenderLast
      <3> QED
        BY <3>2, <3>3
    <2> QED
      BY <2>2, <2>3, <2>4, <2>5 DEF SettlesWith
  <1> QED
    BY <1>3, <1>5, <1>6 DEF Settles

\* A handler of App.
LEMMA HandleSettles ==
  ASSUME Shapes, Settles, NEW f, NEW s, NEW pg, NEW w, Handle(f, s, pg, w), UNCHANGED clean
  PROVE  Settles'
  <1>1. Render(calls, f, s, pg, w) /\ IsSeq(calls) /\ (clean' => SettlesWith(calls))
    BY DEF Handle, Shapes, Settles
  <1> QED
    BY <1>1, RenderSettles

LEMMA BrowseSettles ==
  ASSUME Shapes, Settles, Browse, ~Reload
  PROVE  Settles'
  <1>1. PICK f, s, pg, w : Goes(f, s, pg, w)
    <2>1. CASE \E c \in Clusters : SelectCluster(c)
      BY <2>1 DEF SelectCluster
    <2>2. CASE \E ns \in Namespaces : SelectNamespace(ns)
      BY <2>2 DEF SelectNamespace
    <2>3. CASE \E g \in GVKs : SelectKind(g) \/ SelectVolatileKind(g)
      BY <2>3 DEF SelectKind, SelectVolatileKind
    <2>4. CASE \E q \in {"", Query} : Search(q)
      BY <2>4 DEF Search
    <2>5. CASE Turn \/ Select
      BY <2>5 DEF Turn, Select
    <2>6. CASE \E q \in {"resources", "volatility"} : Navigate(q)
      BY <2>6 DEF Navigate
    <2>7. CASE OpenResource
      BY <2>7 DEF OpenResource
    <2>8. CASE \E i \in DOMAIN urls : PopState(i)
      BY <2>8 DEF PopState
    <2> QED
      BY <2>1, <2>2, <2>3, <2>4, <2>5, <2>6, <2>7, <2>8 DEF Browse
  <1>2. Handle(f, s, pg, w) /\ UNCHANGED clean
    BY <1>1 DEF Goes
  <1> QED
    BY <1>2, HandleSettles

LEMMA ReloadSettles ==
  ASSUME Reload
  PROVE  Settles'
  <1> DEFINE u == urls[at]
             x == VolRequest(u.filter, u.window)
             a == IF u.page = "volatility" THEN <<Call("volatility", x)>> ELSE <<>>
             b == <<Call("list", ListRequest(u.filter))>>
  <1>1. /\ page' = u.page /\ filter' = u.filter /\ window' = u.window /\ selected' = None
        /\ panel' = Panel0 /\ vol' = [Vol0 EXCEPT !.loading = u.page = "volatility"]
        /\ calls' = a \o b
    BY LoadedFacts DEF Reload
  <1>2. vol'.entry = None
    BY <1>1 DEF Vol0
  <1>3. u.page = "volatility" => Coming(calls', "volatility", x, vol'.shown)
    <2>1. IsSeq(a) /\ IsSeq(b) /\ Silent(b, "volatility")
      BY SingleFacts, SingleLast
    <2>2. u.page = "volatility" => LastIs(a, "volatility", x)
      <3> HIDE DEF x
      <3> QED
        BY SingleLast
    <2> HIDE DEF a, b, x
    <2> QED
      BY <1>1, <2>1, <2>2, ConcatLast DEF Coming
  <1>4. SettlesWith(calls)'
    BY <1>1, <1>2, <1>3, PanelFacts DEF SettlesWith
  <1> QED
    BY <1>1, <1>2, <1>4, PanelFacts DEF Settles

LEMMA SetTabSettles ==
  ASSUME Shapes, Settles, NEW t, SetTab(t)
  PROVE  Settles'
  <1>1. /\ panel' = [panel EXCEPT !.tab = t]
        /\ calls' = IF t = "history" THEN Append(calls, Call("history", selected)) ELSE calls
        /\ UNCHANGED <<page, filter, window, selected, detail, vol, clean>>
    BY DEF SetTab, Inspects
  <1>2. /\ DOMAIN panel' = {"tab", "history", "shas", "diff"} /\ panel'.tab = t
        /\ panel'.history = panel.history /\ panel'.shas = panel.shas /\ panel'.diff = panel.diff
    BY <1>1 DEF Settles
  <1>3. ASSUME NEW to, NEW x, NEW z, Coming(calls, to, x, z), to # "history"
        PROVE  Coming(calls', to, x, z)
    BY <1>1, <1>3, AppendLast DEF Shapes
  <1>4. t = "history" => \A z : Coming(calls', "history", selected, z)
    BY <1>1, AppendLast DEF Shapes
  <1>5. SettlesWith(calls) => SettlesWith(calls)'
    BY <1>1, <1>2, <1>3, <1>4 DEF SettlesWith
  <1> QED
    BY <1>1, <1>2, <1>5 DEF Settles

\* The effect for the diff asks for the diff of the two commits that are
\* marked, whatever became of the requests for earlier ones.
LEMMA DiffEffectSettles ==
  ASSUME Settles, NEW cs, IsSeq(cs), NEW shas, NEW of, DiffEffect(cs, shas, of),
         UNCHANGED <<page, filter, window, selected, detail, vol>>,
         clean' => /\ selected # None => Coming(cs, "detail", selected, detail)
                   /\ selected # None /\ panel.tab = "history" => Coming(cs, "history", selected, of)
                   /\ page = "volatility"
                        => Coming(cs, "volatility", VolRequest(filter, window), vol.shown)
                   /\ page = "volatility" /\ vol.entry # None
                        => Coming(cs, "fields", FieldsRequest(vol.entry, window), vol.fields)
  PROVE  Settles'
  <1> DEFINE ft == FromTo(shas, of)
             none == ft = None \/ selected = None
             x == DiffRequest(selected, ft)
  <1>1. /\ panel' = [panel EXCEPT !.shas = shas, !.history = of,
                                  !.diff = IF none THEN None ELSE @]
        /\ calls' = IF none THEN cs ELSE Append(cs, Call("diff", x))
    BY DEF DiffEffect
  <1>2. /\ DOMAIN panel' = {"tab", "history", "shas", "diff"} /\ panel'.tab = panel.tab
        /\ panel'.history = of /\ panel'.shas = shas
    BY <1>1 DEF Settles
  <1>3. ASSUME NEW to, NEW y, NEW z, Coming(cs, to, y, z), to # "diff"
        PROVE  Coming(calls', to, y, z)
    <2> HIDE DEF x, none
    <2> QED
      BY <1>1, <1>3, AppendLast
  <1>4. selected # None /\ ft # None => Coming(calls', "diff", x, panel'.diff)
    <2> SUFFICES ASSUME selected # None, ft # None PROVE Coming(calls', "diff", x, panel'.diff)
      OBVIOUS
    <2>1. calls' = Append(cs, Call("diff", x))
      BY <1>1
    <2> HIDE DEF x
    <2> QED
      BY <2>1, AppendLast
  <1>5. clean' => SettlesWith(calls)'
    <2> SUFFICES ASSUME clean' PROVE SettlesWith(calls)'
      OBVIOUS
    <2> HIDE DEF none
    <2> QED
      BY <1>2, <1>3, <1>4 DEF SettlesWith
  <1> QED
    BY <1>2, <1>5 DEF Settles

LEMMA ClickCommitSettles ==
  ASSUME Shapes, Settles, ClickCommit
  PROVE  Settles'
  <1>1. PICK sha : DiffEffect(calls, Clicked(panel.shas, sha), panel.history)
    BY DEF ClickCommit
  <1>2. UNCHANGED <<page, filter, window, selected, detail, vol, clean>>
    BY DEF ClickCommit, Inspects
  <1>3. IsSeq(calls) /\ (clean' => SettlesWith(calls))
    BY <1>2 DEF Shapes, Settles
  <1> QED
    BY <1>1, <1>2, <1>3, DiffEffectSettles DEF SettlesWith

LEMMA RefreshSettles ==
  ASSUME Shapes, Settles, Refresh
  PROVE  Settles'
  <1>1. /\ page = "volatility" /\ vol' = [vol EXCEPT !.loading = TRUE]
        /\ calls' = Append(calls, Call("volatility", VolRequest(filter, window)))
        /\ UNCHANGED <<page, filter, window, selected, detail, panel, clean>>
    BY DEF Refresh, Inspects
  <1>2. vol'.shown = vol.shown /\ vol'.entry = vol.entry /\ vol'.fields = vol.fields
    BY <1>1 DEF Shapes
  <1>3. ASSUME NEW to, NEW x, NEW z, Coming(calls, to, x, z), to # "volatility"
        PROVE  Coming(calls', to, x, z)
    BY <1>1, <1>3, AppendLast DEF Shapes
  <1>4. \A z : Coming(calls', "volatility", VolRequest(filter, window), z)
    BY <1>1, AppendLast DEF Shapes
  <1>5. SettlesWith(calls) => SettlesWith(calls)'
    BY <1>1, <1>2, <1>3, <1>4 DEF SettlesWith
  <1> QED
    BY <1>1, <1>2, <1>5 DEF Settles

LEMMA SelectEntrySettles ==
  ASSUME Shapes, Settles, SelectEntry
  PROVE  Settles'
  <1>1. PICK e : /\ vol' = [vol EXCEPT !.entry = e, !.fieldLoading = TRUE]
                 /\ calls' = Append(calls, Call("fields", FieldsRequest(e, window)))
    BY DEF SelectEntry
  <1>2. page = "volatility" /\ UNCHANGED <<page, filter, window, selected, detail, panel, clean>>
    BY DEF SelectEntry, Inspects
  <1>3. vol'.shown = vol.shown /\ vol'.entry = e /\ vol'.fields = vol.fields
    BY <1>1 DEF Shapes
  <1>4. ASSUME NEW to, NEW x, NEW z, Coming(calls, to, x, z), to # "fields"
        PROVE  Coming(calls', to, x, z)
    BY <1>1, <1>4, AppendLast DEF Shapes
  <1>5. \A z : Coming(calls', "fields", FieldsRequest(e, window), z)
    BY <1>1, AppendLast DEF Shapes
  <1>6. SettlesWith(calls) => SettlesWith(calls)'
    BY <1>2, <1>3, <1>4, <1>5 DEF SettlesWith
  <1> QED
    BY <1>2, <1>6 DEF Settles

LEMMA InspectSettles ==
  ASSUME Shapes, Settles, Inspect
  PROVE  Settles'
  <1>1. CASE \E t \in {"yaml", "history"} : SetTab(t)
    BY <1>1, SetTabSettles
  <1>2. CASE ClickCommit
    BY <1>2, ClickCommitSettles
  <1>3. CASE \E w : SetWindow(w)
    BY <1>3, HandleSettles DEF SetWindow, Inspects
  <1>4. CASE Refresh
    BY <1>4, RefreshSettles
  <1>5. CASE SelectEntry
    BY <1>5, SelectEntrySettles
  <1> QED
    BY <1>1, <1>2, <1>3, <1>4, <1>5 DEF Inspect

\* What is shown and still to come when request i, the oldest of its kind, has
\* been answered and its answer is shown.
LEMMA AnswerShows ==
  ASSUME Shapes, SettlesWith(calls), NEW i \in DOMAIN calls, ~Overtakes(i)
  PROVE  /\ selected # None =>
              Coming(Without(i), "detail", selected,
                     IF calls[i].to = "detail" THEN calls[i].arg ELSE detail)
         /\ selected # None /\ panel.tab = "history" =>
              Coming(Without(i), "history", selected,
                     IF calls[i].to = "history" THEN calls[i].arg ELSE panel.history)
         /\ LET ft == FromTo(panel.shas, panel.history)
            IN selected # None /\ ft # None =>
                 Coming(Without(i), "diff", DiffRequest(selected, ft),
                        IF calls[i].to = "diff" THEN calls[i].arg ELSE panel.diff)
         /\ page = "volatility" =>
              Coming(Without(i), "volatility", VolRequest(filter, window),
                     IF calls[i].to = "volatility" THEN calls[i].arg ELSE vol.shown)
         /\ page = "volatility" /\ vol.entry # None =>
              Coming(Without(i), "fields", FieldsRequest(vol.entry, window),
                     IF calls[i].to = "fields" THEN calls[i].arg ELSE vol.fields)
  <1>1. ASSUME NEW to, NEW x, NEW z, Coming(calls, to, x, z)
        PROVE  Coming(Without(i), to, x, IF calls[i].to = to THEN calls[i].arg ELSE z)
    BY <1>1, WithoutLast DEF Shapes
  <1> QED
    BY <1>1 DEF SettlesWith

\* After a failure the page owes nothing but its shape.
LEMMA FailureSettles ==
  ASSUME Settles, clean' = FALSE, page' = page, vol'.entry = vol.entry,
         DOMAIN panel' = DOMAIN panel
  PROVE  Settles'
  BY DEF Settles

LEMMA AnswerListSettles ==
  ASSUME Shapes, Settles, NEW i \in DOMAIN calls, NEW ok, AnswerList(i, ok),
         clean' => clean /\ ~Overtakes(i)
  PROVE  Settles'
  <1>1. PICK s : Render(Without(i), filter, s, page, window)
    BY DEF AnswerList
  <1>2. calls[i].to = "list" /\ IsSeq(Without(i))
    BY WithoutFacts DEF AnswerList, Shapes
  <1>3. clean' => SettlesWith(Without(i))
    <2> SUFFICES ASSUME clean' PROVE SettlesWith(Without(i))
      OBVIOUS
    <2>1. SettlesWith(calls) /\ ~Overtakes(i)
      BY DEF Settles
    <2> QED
      BY <1>2, <2>1, AnswerShows DEF SettlesWith
  <1> QED
    BY <1>1, <1>2, <1>3, RenderSettles

LEMMA AnswerDetailSettles ==
  ASSUME Shapes, Settles, NEW i \in DOMAIN calls, AnswerDetail(i, TRUE),
         clean' => clean /\ ~Overtakes(i)
  PROVE  Settles'
  <1>1. /\ calls[i].to = "detail" /\ detail' = calls[i].arg /\ calls' = Without(i)
        /\ UNCHANGED <<page, filter, window, selected, panel, vol>>
    BY DEF AnswerDetail
  <1>2. ASSUME clean' PROVE SettlesWith(calls)'
    <2>1. SettlesWith(calls) /\ ~Overtakes(i)
      BY <1>2 DEF Settles
    <2> QED
      BY <1>1, <2>1, AnswerShows DEF SettlesWith
  <1> QED
    BY <1>1, <1>2 DEF Settles

LEMMA AnswerHistorySettles ==
  ASSUME Shapes, Settles, NEW i \in DOMAIN calls, AnswerHistory(i, TRUE),
         clean' => clean /\ ~Overtakes(i)
  PROVE  Settles'
  <1>1. /\ calls[i].to = "history" /\ DiffEffect(Without(i), panel.shas, calls[i].arg)
        /\ UNCHANGED <<page, filter, window, selected, detail, vol>>
    BY DEF AnswerHistory
  <1>2. IsSeq(Without(i))
    BY WithoutFacts DEF Shapes
  <1>3. clean' => SettlesWith(calls) /\ ~Overtakes(i)
    BY DEF Settles
  <1> QED
    BY <1>1, <1>2, <1>3, AnswerShows, DiffEffectSettles

LEMMA AnswerDiffSettles ==
  ASSUME Shapes, Settles, NEW i \in DOMAIN calls, AnswerDiff(i, TRUE),
         clean' => clean /\ ~Overtakes(i)
  PROVE  Settles'
  <1>1. /\ calls[i].to = "diff" /\ panel' = [panel EXCEPT !.diff = calls[i].arg]
        /\ calls' = Without(i) /\ UNCHANGED <<page, filter, window, selected, detail, vol>>
    BY DEF AnswerDiff
  <1>2. /\ DOMAIN panel' = {"tab", "history", "shas", "diff"} /\ panel'.tab = panel.tab
        /\ panel'.history = panel.history /\ panel'.shas = panel.shas
        /\ panel'.diff = calls[i].arg
    BY <1>1 DEF Settles
  <1>3. ASSUME clean' PROVE SettlesWith(calls)'
    <2>1. SettlesWith(calls) /\ ~Overtakes(i)
      BY <1>3 DEF Settles
    <2> QED
      BY <1>1, <1>2, <2>1, AnswerShows DEF SettlesWith
  <1> QED
    BY <1>1, <1>2, <1>3 DEF Settles

LEMMA AnswerVolatilitySettles ==
  ASSUME Shapes, Settles, NEW i \in DOMAIN calls,
         AnswerVolatility(i, TRUE) \/ AnswerFields(i, TRUE),
         clean' => clean /\ ~Overtakes(i)
  PROVE  Settles'
  <1>1. /\ calls' = Without(i) /\ UNCHANGED <<page, filter, window, selected, detail, panel>>
    BY DEF AnswerVolatility, AnswerFields
  <1>2. \/ /\ calls[i].to = "volatility" /\ vol'.shown = calls[i].arg
           /\ vol'.entry = vol.entry /\ vol'.fields = vol.fields
        \/ /\ calls[i].to = "fields" /\ vol'.fields = calls[i].arg
           /\ vol'.entry = vol.entry /\ vol'.shown = vol.shown
    BY DEF AnswerVolatility, AnswerFields, Shapes
  <1>3. ASSUME clean' PROVE SettlesWith(calls)'
    <2>1. SettlesWith(calls) /\ ~Overtakes(i)
      BY <1>3 DEF Settles
    <2> QED
      BY <1>1, <1>2, <2>1, AnswerShows DEF SettlesWith
  <1> QED
    BY <1>1, <1>2, <1>3 DEF Settles

LEMMA AnswerSettles ==
  ASSUME Shapes, Settles, Answer
  PROVE  Settles'
  <1>1. PICK i \in DOMAIN calls : Answered(i, TRUE) /\ clean' = (clean /\ ~Overtakes(i))
    BY DEF Answer
  <1>2. clean' => clean /\ ~Overtakes(i)
    BY <1>1
  <1> QED
    BY <1>1, <1>2, AnswerListSettles, AnswerDetailSettles, AnswerHistorySettles,
       AnswerDiffSettles, AnswerVolatilitySettles DEF Answered

LEMMA ErrorSettles ==
  ASSUME Shapes, Settles, ErrorStatus \/ NetworkError
  PROVE  Settles'
  <1>1. clean' = FALSE
    BY DEF ErrorStatus, NetworkError, Fails
  <1>2. PICK i \in DOMAIN calls : Answered(i, FALSE) \/ Rejected(i)
    BY DEF ErrorStatus, NetworkError
  <1>3. CASE AnswerList(i, FALSE)
    BY <1>1, <1>3, AnswerListSettles
  <1>4. CASE AnswerDetail(i, FALSE)
    BY <1>1, <1>4, FailureSettles DEF AnswerDetail
  <1>5. CASE AnswerHistory(i, FALSE)
    <2>1. page' = page /\ vol' = vol /\ DOMAIN panel' = DOMAIN panel
      BY <1>5 DEF AnswerHistory, DiffEffect
    <2> QED
      BY <1>1, <2>1, FailureSettles
  <1>6. CASE AnswerDiff(i, FALSE)
    BY <1>1, <1>6, FailureSettles DEF AnswerDiff
  <1>7. CASE AnswerVolatility(i, FALSE) \/ AnswerFields(i, FALSE) \/ Rejected(i)
    <2>1. page' = page /\ panel' = panel /\ vol'.entry = vol.entry
      BY <1>7 DEF AnswerVolatility, AnswerFields, Rejected, Shapes
    <2> QED
      BY <1>1, <2>1, FailureSettles
  <1> QED
    BY <1>2, <1>3, <1>4, <1>5, <1>6, <1>7 DEF Answered

LEMMA InitSettles == Init => Settles
  <1> SUFFICES ASSUME Init PROVE Settles
    OBVIOUS
  <1>1. PICK v \in Opened : /\ page = Loaded(v).page /\ vol = Loaded(v).vol /\ selected = None
                            /\ panel = Panel0
    BY DEF Init
  <1>2. v.page = "resources"
    BY <1>1 DEF Opened, Url
  <1>3. page = "resources" /\ vol = [Vol0 EXCEPT !.loading = v.page = "volatility"]
    BY <1>1, <1>2, LoadedFacts
  <1>4. vol.entry = None
    BY <1>3 DEF Vol0
  <1> QED
    BY <1>1, <1>3, <1>4, PanelFacts DEF Settles, SettlesWith

LEMMA NextSettles == PageInv /\ Settles /\ [Next]_vars => Settles'
  <1> SUFFICES ASSUME PageInv, Settles, [Next]_vars PROVE Settles'
    OBVIOUS
  <1>0. Shapes
    BY DEF PageInv
  <1>1. CASE Reload
    BY <1>1, ReloadSettles
  <1>2. CASE Browse /\ ~Reload
    BY <1>0, <1>2, BrowseSettles
  <1>3. CASE Inspect
    BY <1>0, <1>3, InspectSettles
  <1>4. CASE Network
    BY <1>0, <1>4, AnswerSettles, ErrorSettles DEF Network
  <1>5. CASE UNCHANGED vars
    BY <1>5 DEF vars, Settles, SettlesWith
  <1> QED
    BY <1>1, <1>2, <1>3, <1>4, <1>5 DEF Next

\* When the requests of a page have been answered, in the order of each kind
\* and without an error, its detail, history, diff, ranking and fields are
\* those of its selection, commits, filter and window, however the user went
\* back and forth before (the effects of App, ResourceDetail and
\* VolatilityView).
THEOREM SettledPage == Spec => []SettledPageIsTrue
  <1>1. Settles => SettledPageIsTrue
    <2> SUFFICES ASSUME Settles, calls = <<>>, clean PROVE SettledPageIsTrue
      BY DEF SettledPageIsTrue, SettledDetailIsTrue, SettledVolatilityIsTrue, Quiet
    <2>1. ASSUME NEW to, NEW x, NEW z, Coming(calls, to, x, z) PROVE z = x
      <3>1. Len(calls) = 0
        OBVIOUS
      <3> QED
        BY <2>1, <3>1 DEF Coming, LastIs
    <2>2. SettlesWith(calls)
      BY DEF Settles
    <2> QED
      BY <2>1, <2>2 DEF SettlesWith, SettledPageIsTrue, SettledDetailIsTrue,
                        SettledVolatilityIsTrue
  <1> QED
    BY <1>1, InitSettles, NextSettles, PageInvHolds, PTL DEF Spec
=============================================================================
