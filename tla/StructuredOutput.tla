--------------------------- MODULE StructuredOutput --------------------------
(***************************************************************************)
(* The validator of a subagent's structured output                         *)
(* (extensions/_shared/structured-output.ts).  It stops after              *)
(* MAX_VALIDATION_ERRORS and skips what is left, collects the errors of    *)
(* allOf, anyOf and oneOf aside, and looks names up in plain JavaScript    *)
(* objects, which know the names of Object.prototype too.  Checked against *)
(* what the keywords mean.                                                 *)
(*                                                                         *)
(* A number is kept as its double, so that 3 is one and a half.  Bounds:   *)
(* MaxErrors (20 in the code), MaxDepth (24), MaxNodes (2048), the values  *)
(* and the schemas below.                                                  *)
(***************************************************************************)
EXTENDS Integers, Sequences, FiniteSets, SequencesExt

CONSTANTS MaxErrors, MaxDepth, MaxNodes

Null == [k |-> "null"]
Str(n) == [k |-> "string", n |-> n]
Num(n) == [k |-> "number", n |-> n]
Arr(s) == [k |-> "array", s |-> s]
Obj(f) == [k |-> "object", f |-> f]

Inherited == {"toString"}  \* names of Object.prototype

Scalars == {Null, Str(1), Str(2), Num(2), Num(3)}
Values ==
  Scalars
  \union {Arr(s) : s \in UNION {[1 .. n -> {Null, Str(1), Num(2)}] : n \in 0 .. 2}}
  \union {Obj(f) : f \in UNION {[d -> {Str(1), Num(3)}] : d \in SUBSET {"a", "b", "toString"}}}

\* Schemas: true, false, and records of the keywords they have.  A bounds keyword speaks
\* of one kind of value only; "high" of -1 is none.
Always(b) == [always |-> b]
Simple ==
  {Always(TRUE), Always(FALSE), [type |-> {"string"}], [type |-> {"null", "integer"}], [type |-> {"number"}],
   [enum |-> {Num(2), Str(1)}], [bounds |-> [of |-> "string", low |-> 2, high |-> -1]],
   [bounds |-> [of |-> "number", low |-> 0, high |-> 2]]}
Few == {Always(TRUE), [type |-> {"string"}], [type |-> {"null", "integer"}],
        [bounds |-> [of |-> "number", low |-> 0, high |-> 2]]}
Schemas ==
  Simple
  \union {[allOf |-> <<s, t>>] : s, t \in Few}
  \union {[anyOf |-> <<s, t>>] : s, t \in Few}
  \union {[oneOf |-> <<s, t>>] : s, t \in Few}
  \union {[oneOf |-> <<[anyOf |-> <<s, s>>], t>>] : s, t \in Few}
  \union {[items |-> s, unique |-> u] : s \in Simple, u \in BOOLEAN}
  \union {[required |-> r, properties |-> [a |-> s], additional |-> t] :
            r \in {{}, {"a", "b"}, {"toString"}}, s \in Few, t \in Simple}
  \union {[anyOf |-> <<[anyOf |-> <<[anyOf |-> <<s>>]>>]>>] : s \in Few}  \* too deep
  \union {[allOf |-> <<s, s, s, s, s>>] : s \in Few}                      \* too many nodes

VARIABLES value, schema, verdict

vars == <<value, schema, verdict>>

Init == value = Null /\ schema = Always(TRUE) /\ verdict = "none"

Has(s, keyword) == keyword \in DOMAIN s

\* matchesType
Fits(v, type) == v.k = type \/ (type = "integer" /\ v.k = "number" /\ v.n % 2 = 0)

\* What the bounds of each kind measure.
Size(v) == CASE v.k \in {"string", "number"} -> v.n
             [] v.k = "array" -> Len(v.s)
             [] v.k = "object" -> Cardinality(DOMAIN v.f)
             [] OTHER -> 0

Below(v, b) == v.k = b.of /\ Size(v) < b.low
Above(v, b) == v.k = b.of /\ b.high # -1 /\ Size(v) > b.high

\* canonicalJson: the same text is the same value.
Repeats(v) == v.k = "array" /\ \E i, j \in DOMAIN v.s : i # j /\ v.s[i] = v.s[j]

\* addValidationError
Note(bad, n) == IF bad /\ n < MaxErrors THEN n + 1 ELSE n
AtMost(n) == IF n > MaxErrors THEN MaxErrors ELSE n

\* validateValue: how many errors there are once v was looked at, n before.
RECURSIVE Errors(_, _, _)

OfAll(v, s, n) ==
  IF ~Has(s, "allOf") THEN n ELSE FoldLeft(LAMBDA m, c : AtMost(m + Errors(v, c, 0)), n, s.allOf)
Matches(v, list) == Cardinality({i \in DOMAIN list : Errors(v, list[i], 0) = 0})
OfSome(v, s, n) ==
  LET any == Note(Has(s, "anyOf") /\ Matches(v, s.anyOf) = 0, n)
  IN  Note(Has(s, "oneOf") /\ Matches(v, s.oneOf) # 1, any)

OfItems(v, s, n) ==
  IF v.k # "array" \/ ~Has(s, "items") THEN n
  ELSE FoldLeft(LAMBDA m, e : Errors(e, s.items, m), Note(s.unique /\ Repeats(v), n), v.s)

OfEntry(v, s, n, key) ==
  IF n >= MaxErrors \/ (key \in Inherited /\ key \notin DOMAIN s.properties) THEN n
  ELSE Errors(v.f[key], IF key \in DOMAIN s.properties THEN s.properties[key] ELSE s.additional, n)
OfObject(v, s, n) ==
  IF v.k # "object" \/ ~Has(s, "required") THEN n
  ELSE LET missing == Cardinality(s.required \ (DOMAIN v.f \union Inherited))
       IN  FoldLeft(LAMBDA m, key : OfEntry(v, s, m, key), AtMost(n + missing), SetToSeq(DOMAIN v.f))

Errors(v, s, n) ==
  CASE n >= MaxErrors -> n
    [] Has(s, "always") -> IF s.always THEN n ELSE n + 1
    [] Has(s, "type") /\ ~\E t \in s.type : Fits(v, t) -> n + 1
    [] OTHER ->
       LET listed == Note(Has(s, "enum") /\ v \notin s.enum, n)
           low == Note(Has(s, "bounds") /\ Below(v, s.bounds), OfSome(v, s, OfAll(v, s, listed)))
           high == Note(Has(s, "bounds") /\ Above(v, s.bounds), low)
       IN  OfObject(v, s, OfItems(v, s, high))

\* validateSchemaNode: the nodes of a schema, and how deep they go.
Children(s) ==
  (IF Has(s, "allOf") THEN s.allOf ELSE <<>>) \o (IF Has(s, "anyOf") THEN s.anyOf ELSE <<>>)
  \o (IF Has(s, "oneOf") THEN s.oneOf ELSE <<>>) \o (IF Has(s, "items") THEN <<s.items>> ELSE <<>>)
  \o (IF Has(s, "required") THEN <<s.properties.a, s.additional>> ELSE <<>>)
RECURSIVE Nodes(_)
Nodes(s) == FoldLeft(LAMBDA n, c : n + Nodes(c), 1, Children(s))
RECURSIVE Deep(_, _)
Deep(s, depth) == depth > MaxDepth \/ \E i \in DOMAIN Children(s) : Deep(Children(s)[i], depth + 1)

\* parseAndValidateStructuredOutput
Validate(v, s) ==
  /\ verdict = "none" /\ value' = v /\ schema' = s
  /\ verdict' = IF Deep(s, 0) \/ Nodes(s) > MaxNodes THEN "unsupported"
                ELSE IF Errors(v, s, 0) = 0 THEN "valid" ELSE "invalid"

Next == \E v \in Values, s \in Schemas : Validate(v, s)

Spec == Init /\ [][Next]_vars

-----------------------------------------------------------------------------
\* What the keywords mean.  A name of Object.prototype is never missed, and one that is
\* not declared is never an additional property: `key in properties` finds it.
RECURSIVE Accepts(_, _)
Accepts(v, s) ==
  IF Has(s, "always") THEN s.always
  ELSE
    /\ Has(s, "type") => \E t \in s.type : Fits(v, t)
    /\ Has(s, "enum") => v \in s.enum
    /\ Has(s, "bounds") => ~Below(v, s.bounds) /\ ~Above(v, s.bounds)
    /\ Has(s, "allOf") => \A i \in DOMAIN s.allOf : Accepts(v, s.allOf[i])
    /\ Has(s, "anyOf") => \E i \in DOMAIN s.anyOf : Accepts(v, s.anyOf[i])
    /\ Has(s, "oneOf") => \E i \in DOMAIN s.oneOf :
                            Accepts(v, s.oneOf[i]) /\ \A j \in DOMAIN s.oneOf \ {i} : ~Accepts(v, s.oneOf[j])
    /\ Has(s, "items") /\ v.k = "array" =>
         (s.unique => ~Repeats(v)) /\ \A i \in DOMAIN v.s : Accepts(v.s[i], s.items)
    /\ Has(s, "required") /\ v.k = "object" =>
         /\ s.required \subseteq DOMAIN v.f \union Inherited
         /\ \A key \in DOMAIN v.f :
              IF key \in DOMAIN s.properties THEN Accepts(v.f[key], s.properties[key])
              ELSE key \in Inherited \/ Accepts(v.f[key], s.additional)

\* The values the variables take.
TypeOK == value \in Values /\ schema \in Schemas /\ verdict \in {"none", "valid", "invalid", "unsupported"}

\* parseAndValidateStructuredOutput: however early the validator stops, and whatever it
\* collected before, an output is valid exactly when the schema accepts it, and no schema
\* past the limits says anything.
Sound ==
  verdict # "none" =>
    IF Nodes(schema) > MaxNodes \/ Deep(schema, 0) THEN verdict = "unsupported"
    ELSE verdict = IF Accepts(value, schema) THEN "valid" ELSE "invalid"
==============================================================================
