----------------------------- MODULE Sanitizer -----------------------------
(***************************************************************************)
(* internal/sanitizer: the fields a rule names are cut out of an object    *)
(* before it is written.                                                   *)
(*                                                                         *)
(* A path is the sequence of its characters, where a run of characters     *)
(* without meaning for the parser is one token; a key is a sequence of     *)
(* tokens too.  A document is a function from the places it has, sequences *)
(* of keys, to "map", "list" or "value"; the elements of a list have keys  *)
(* of their own.                                                           *)
(***************************************************************************)
EXTENDS Naturals, SequencesExt

Wildcard == <<"*">>

\* f(v); TLC evaluates v once, however often f uses it.
Apply(f(_), v) == CHOOSE y \in {f(x) : x \in {v}} : TRUE

\* Mutant: a dot separates in quotes as well.
ParseTokenDots(st, t) ==
  LET flushed == IF st.cur = <<>> THEN st ELSE [st EXCEPT !.segs = Append(@, st.cur), !.cur = <<>>]
  IN IF t = "\"" /\ st.inBracket THEN [st EXCEPT !.inQuote = ~@]
     ELSE IF t = "[" /\ ~st.inQuote THEN [flushed EXCEPT !.inBracket = TRUE]
     ELSE IF t = "]" /\ st.inBracket /\ ~st.inQuote THEN [flushed EXCEPT !.inBracket = FALSE]
     ELSE IF t = "." THEN flushed
     ELSE [st EXCEPT !.cur = Append(@, t)]

\* One turn of the loop of parsePath.  A backslash in quotes takes the next
\* character as it is.
ParseToken(st, t) ==
  LET flushed == IF st.cur = <<>> THEN st ELSE [st EXCEPT !.segs = Append(@, st.cur), !.cur = <<>>]
  IN IF st.escaped THEN [st EXCEPT !.cur = Append(@, t), !.escaped = FALSE]
     ELSE IF t = "\"" /\ st.inBracket THEN [st EXCEPT !.inQuote = ~@]
     ELSE IF t = "\\" /\ st.inBracket /\ st.inQuote THEN [st EXCEPT !.escaped = TRUE]
     ELSE IF t = "[" /\ ~st.inQuote THEN [flushed EXCEPT !.inBracket = TRUE]
     ELSE IF t = "]" /\ st.inBracket /\ ~st.inQuote THEN [flushed EXCEPT !.inBracket = FALSE]
     ELSE IF t = "." /\ ~st.inBracket /\ ~st.inQuote THEN flushed
     ELSE [st EXCEPT !.cur = Append(@, t)]

\* parsePath; a backslash at the very end stands for itself.
ParsePath(path) ==
  LET start == [segs |-> <<>>, cur |-> <<>>, inBracket |-> FALSE, inQuote |-> FALSE,
                escaped |-> FALSE]
      after[n \in 0 .. Len(path)] == 
        IF n = 0 THEN start ELSE Apply(LAMBDA st : ParseToken(st, path[n]), after[n - 1])
      end == after[Len(path)]
      cur == IF end.escaped THEN Append(end.cur, "\\") ELSE end.cur
  IN IF cur = <<>> THEN end.segs ELSE Append(end.segs, cur)

\* The segments deleteAt takes for wildcards: "*" with a segment before and
\* one behind it, unless the one before is a wildcard.
IsWildcard(segs) ==
  LET wild[i \in 0 .. Len(segs)] ==
        i > 1 /\ i < Len(segs) /\ segs[i] = Wildcard /\ ~wild[i - 1]
  IN wild

\* The places deleteAt deletes: every key on the way is looked up in a map,
\* every wildcard goes over the maps of a list.
Deleted(doc, segs) ==
  LET wild == IsWildcard(segs)
      on(p, i) == LET here == doc[SubSeq(p, 1, i - 1)]
                  IN IF wild[i] THEN here = "list" /\ doc[SubSeq(p, 1, i)] = "map"
                                ELSE here = "map" /\ p[i] = segs[i]
  IN {p \in DOMAIN doc : Len(p) = Len(segs) /\ segs # <<>> /\ \A i \in 1 .. Len(p) : on(p, i)}

\* What is left of a document without some places and what is below them.
Without(doc, places) ==
  [p \in {q \in DOMAIN doc : \A d \in places : ~IsPrefix(d, q)} |-> doc[p]]

DeleteField(doc, path) == Apply(LAMBDA segs : Without(doc, Deleted(doc, segs)), ParsePath(path))

DeleteFields(doc, paths) ==
  LET after[n \in 0 .. Len(paths)] ==
        IF n = 0 THEN doc ELSE Apply(LAMBDA d : DeleteField(d, paths[n]), after[n - 1])
  IN after[Len(paths)]
=============================================================================
