------------------------------- MODULE Rules -------------------------------
(***************************************************************************)
(* spec.backup.rules (internal/config): which types and objects the daemon *)
(* skips and which fields it strips (Sanitizer), as an operator edits the  *)
(* list of rules between restarts.                                         *)
(***************************************************************************)
EXTENDS Sanitizer

CONSTANTS
  Types,          \* [res, group] records: the resource types of the API server
  Core,           \* the empty group
  Objects,        \* [type, ns, name, owner] records
  Fields,         \* field paths, as sequences of tokens
  Meaning,        \* [Fields -> Seq(keys)]: the keys a path is written for ...
  Each,           \* ... or Each for every element of a list
  Documents,      \* contents of objects
  Star,            \* the empty string as a filter; "*" as a resource
  BuiltinTypes,   \* keys of defaults.BuiltinExcludeResources
  BuiltinOwners,  \* [key, owner] records: defaults.BuiltinExcludeObjects
  BuiltinFields,  \* [key -> fields]: defaults.BuiltinExcludeFields
  RuleSet,        \* the rules an operator may write
  MaxRules        \* bound on their number

\* A rule names a type by a key: <<res>> for a bare name, <<res, group>>, or
\* Star.  excludeIf is "" or what the program returns for every object.
Rule == [resource : Seq(STRING) \cup {Star}, ns : STRING \cup {Star}, name : STRING \cup {Star},
         exclude : BOOLEAN, excludeFields : SUBSET Fields,
         excludeIf : {"", "true", "false", "error"}]

\* A document has the places on the way to each of its places, and no place
\* is below a value.
IsDocument(d) ==
  /\ d \in [DOMAIN d -> {"map", "list", "value"}]
  /\ DOMAIN d \subseteq Seq(Seq(STRING))
  /\ d[<<>>] = "map"
  /\ \A p \in DOMAIN d : \A n \in 0..(Len(p) - 1) :
       SubSeq(p, 1, n) \in DOMAIN d /\ d[SubSeq(p, 1, n)] \in {"map", "list"}

ASSUME RulesConstants ==
  /\ RuleSet \subseteq Rule
  /\ \A k \in DOMAIN BuiltinFields : BuiltinFields[k] \subseteq Fields
  /\ \A o \in Objects : o.type \in Types
  /\ DOMAIN Meaning = Fields
  /\ IsFiniteSet(Fields)
  /\ \A d \in Documents : IsDocument(d)
  /\ MaxRules \in Nat

VARIABLES
  rules,    \* the list of rules of the loaded configuration
  builtins  \* ~disableBuiltinExcludes

vars == <<rules, builtins>>

-----------------------------------------------------------------------------
\* resourceKey.
ResourceKey(t) == IF t.group = Core THEN <<t.res>> ELSE <<t.res, t.group>>

\* rc.Resource == key || rc.Resource == resource.
Names(key, t) == key = ResourceKey(t) \/ key = <<t.res>>

HasObjectFilter(r) == r.ns # Star \/ r.name # Star

FilterMatches(r, o) == r.ns \in {Star, o.ns} /\ r.name \in {Star, o.name}

\* Mutant: the last of the rules that apply decides.
LastVerdict(applying) ==
  LET hits == {i \in DOMAIN rules : rules[i] \in applying}
  IN IF hits = {} THEN "none" ELSE IF rules[Max(hits)].exclude THEN "exclude" ELSE "include"

\* What the first of the rules that apply says.
FirstVerdict(applying) ==
  LET hits == {i \in DOMAIN rules : rules[i] \in applying}
  IN IF hits = {} THEN "none" ELSE IF rules[Min(hits)].exclude THEN "exclude" ELSE "include"

TypeRule(r, t) == /\ r.resource # Star /\ ~HasObjectFilter(r) /\ r.excludeIf = ""
                  /\ Names(r.resource, t)

\* IsExcluded: user rules before the built-in table.
IsExcluded(t) ==
  LET user == FirstVerdict({r \in Range(rules) : TypeRule(r, t)})
  IN IF user = "none" THEN builtins /\ \E k \in BuiltinTypes : Names(k, t)
                      ELSE user = "exclude"

\* Mutant: programs of rules take part in exclude.
ObjectRuleOfPrograms(r, o) ==
  /\ HasObjectFilter(r)
  /\ r.resource = Star \/ Names(r.resource, o.type)
  /\ FilterMatches(r, o)

ObjectRule(r, o) ==
  /\ HasObjectFilter(r) /\ r.excludeIf = ""
  /\ r.resource = Star \/ Names(r.resource, o.type)
  /\ FilterMatches(r, o)

\* IsObjectExcluded and IsBuiltinObjectExcluded.
IsObjectExcluded(o) == FirstVerdict({r \in Range(rules) : ObjectRule(r, o)}) = "exclude"

IsBuiltinObjectExcluded(o) ==
  builtins /\ \E e \in BuiltinOwners : Names(e.key, o.type) /\ e.owner = o.owner

\* IsCELObjectExcluded: the first program that answers true or fails decides,
\* and a failure keeps the object.
IsCELObjectExcluded(o) ==
  LET decides(r) == /\ r.excludeIf \in {"true", "error"}
                    /\ r.resource = Star \/ Names(r.resource, o.type)
                    /\ FilterMatches(r, o)
      hits == {i \in DOMAIN rules : decides(rules[i])}
  IN hits # {} /\ rules[Min(hits)].excludeIf = "true"

\* What runOnce does with an object.
Kept(o) ==
  /\ ~IsExcluded(o.type)
  /\ ~IsObjectExcluded(o) /\ ~IsBuiltinObjectExcluded(o)
  /\ ~IsCELObjectExcluded(o)

FieldRule(r, o) ==
  /\ r.excludeIf = ""
  /\ r.resource = Star \/ Names(r.resource, o.type)
  /\ FilterMatches(r, o)

\* Mutant: the first matching rule gives the fields.
FieldsOfFirst(o) ==
  LET hits == SelectSeq(rules, LAMBDA r : FieldRule(r, o))
  IN IF hits = <<>> THEN {} ELSE Head(hits).excludeFields

\* ResolveExcludeFieldsForObject.  The loop over the built-in map stops at
\* the first key that names the type; no two of its keys name the same one.
ResolveExcludeFields(o) ==
  LET own     == {r.excludeFields : r \in {x \in Range(rules) : FieldRule(x, o)}}
      builtin == {BuiltinFields[k] : k \in {x \in DOMAIN BuiltinFields : Names(x, o.type)}}
  IN UNION (own \cup (IF builtins THEN builtin ELSE {}))

\* What runOnce writes for an object it keeps.
Sanitized == [fs \in SUBSET Fields |-> [d \in Documents |-> DeleteFields(d, SetToSeq(fs))]]
File(o, doc) == Sanitized[ResolveExcludeFields(o)][doc]

-----------------------------------------------------------------------------
Init ==
  /\ rules = <<>>
  /\ builtins \in BOOLEAN

\* The operator adds a rule at some place and restarts the daemon.
Insert ==
  /\ Len(rules) < MaxRules
  /\ \E i \in 1..(Len(rules) + 1), r \in RuleSet :
       /\ r \notin Range(rules)
       /\ rules' = InsertAt(rules, i, r)
  /\ UNCHANGED builtins

Next == Insert

Spec == Init /\ [][Next]_vars

-----------------------------------------------------------------------------
(* Properties *)

\* Stripping is additive: no rule, wherever it is put, brings back anything of
\* an object's file that was stripped before (RuleConfig.ExcludeFields).
FieldsAreAdditive ==
  [][\A o \in Objects, d \in Documents : DOMAIN File(o, d)' \subseteq DOMAIN File(o, d)]_vars

\* The places of a document a field path is written for: keys of maps, and
\* every element of a list that is a map.
Meant(d, f) ==
  LET m == Meaning[f]
      on(p, i) == LET here == d[SubSeq(p, 1, i - 1)]
                  IN IF m[i] = Each THEN here = "list" /\ d[SubSeq(p, 1, i)] = "map"
                                    ELSE here = "map" /\ p[i] = m[i]
  IN {p \in DOMAIN d : Len(p) = Len(m) /\ \A i \in DOMAIN p : on(p, i)}

Lacking == [fs \in SUBSET Fields |-> [d \in Documents |-> Without(d, UNION {Meant(d, f) : f \in fs})]]

\* A file has everything of the object but the fields its rules and the
\* built-in table name, whichever order they are cut in and whichever of them
\* the object lacks (the formats DeleteField documents).
FilesLackTheFields ==
  \A o \in Objects, d \in Documents :
    File(o, d) = Lacking[ResolveExcludeFields(o)][d]

\* A rule put behind the others decides nothing that an earlier rule of the
\* same level decides (the early returns of IsExcluded and IsObjectExcluded).
EarlierRulesDecide ==
  [][IsPrefix(rules, rules') =>
       /\ \A t \in Types : FirstVerdict({r \in Range(rules) : TypeRule(r, t)}) # "none"
                             => IsExcluded(t)' = IsExcluded(t)
       /\ \A o \in Objects : FirstVerdict({r \in Range(rules) : ObjectRule(r, o)}) # "none"
                             => IsObjectExcluded(o)' = IsObjectExcluded(o)]_vars

\* excludeIf rules do not interact with the others: adding one changes
\* neither the exclude verdicts nor the stripped fields, and a program can
\* only take objects away from those the other rules keep.
ExcludeIfIsSeparate ==
  [][\A r \in Range(rules') \ Range(rules) : r.excludeIf # "" =>
       /\ \A t \in Types : IsExcluded(t)' = IsExcluded(t)
       /\ \A o \in Objects : /\ IsObjectExcluded(o)' = IsObjectExcluded(o)
                             /\ ResolveExcludeFields(o)' = ResolveExcludeFields(o)]_vars

\* A rule that only strips fields does not change which objects are kept:
\* "excludeFields is always additive" in docs/configuration.md.
FieldRulesKeepExclusions ==
  [][\A r \in Range(rules') \ Range(rules) :
       (r.excludeFields # {} /\ ~r.exclude /\ r.excludeIf = "")
         => \A o \in Objects : Kept(o)' = Kept(o)]_vars

\* A bare name means the core group: docs/configuration.md on resource.
BareNameIsCore ==
  [][\A r \in Range(rules') \ Range(rules) :
       (r.resource # Star /\ Len(r.resource) = 1)
         => \A o \in Objects : o.type.group # Core => Kept(o)' = Kept(o)]_vars
=============================================================================
