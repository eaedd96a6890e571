----------------------------- MODULE MCQueryData ------------------------------
(***************************************************************************)
(* The data of queries, checked side by side: the row operations of deltas, *)
(* the scans of the row storage, and what is asked of a field.  A behaviour *)
(* is about one of them.                                                   *)
(***************************************************************************)
EXTENDS DeltaOperations, RawWindowScan, QueryPredicates

CONSTANTS k1, k2, k3, k4

VARIABLE part

MCKeys == {k1, k2, k3, k4}

\* Deltas tell keys apart and nothing more; the storage has keys of its own.
Symmetry == Permutations(MCKeys)

MCFields == {"a", "b"}

Row(a, b) == [f \in MCFields |-> IF f = "a" THEN a ELSE b]

\* In field a, 2 is a number that is not finite; in field b, 0 is a missing value.
MCRows == {Row(1, 3), Row(2, 1), Row(4, 0)}

Put(k, row) == [key |-> k, row |-> row]

MCBatches ==
  {<<Put(1, Row(2, 1)), Put(2, Row(1, 3))>>,
   <<Put(3, Row(4, 0)), Put(3, Row(2, 1))>>,
   <<Put(2, Row(1, 3)), Put(4, Row(4, 0)), Put(1, Row(2, 1))>>}

MCUnlimited == -1

Up(f)   == [field |-> f, descending |-> FALSE]
Down(f) == [field |-> f, descending |-> TRUE]
If(f, op, values) == [field |-> f, op |-> op, values |-> values]

Plan(filters, by, offset, limit) ==
  [filters |-> filters, orderBy |-> by, offset |-> offset, limit |-> limit,
   exact |-> TRUE, accepts |-> MCRows]

MCPlans ==
  {Plan(<<>>, <<Up("a")>>, 0, 2),
   Plan(<<If("a", "gte", {1}), If("a", "lte", {3})>>, <<Down("a")>>, 0, 2),
   Plan(<<If("a", "gte", {4}), If("a", "lte", {4})>>, <<Up("a")>>, 0, 1),
   Plan(<<If("a", "in", {1, 3, 4}), If("a", "gt", {1}), If("a", "gte", {1})>>,
        <<Down("a")>>, 1, 1),
   Plan(<<If("b", "in", {1})>>, <<Up("a")>>, 0, 2),
   Plan(<<If("a", "lt", {4}), If("b", "in", {1, 3})>>, <<Down("b"), Up("a")>>, 1, 1),
   Plan(<<If("a", "gt", {1}), If("a", "lt", {3})>>, <<>>, 0, MCUnlimited),
   Plan(<<If("b", "neq", {3})>>, <<Up("b"), Down("a")>>, 0, 3),
   Plan(<<If("b", "in", {1}), If("a", "lt", {4})>>, <<>>, 0, 0),
   [Plan(<<If("a", "gt", {1}), If("b", "in", {1})>>, <<Down("a")>>, 0, 2)
      EXCEPT !.exact = FALSE, !.accepts = {Row(2, 1), Row(4, 0)}]}

\* Fields of one kind, of a literal, optional and nullable ones, and unions.
MCFieldTypes ==
  {{"string"}, {"number"}, {"bigint"}, {"bigDecimal"}, {"boolean"}, {"object"},
   {"bigintLiteral"}, {"string", "undefined"}, {"number", "null"}, {"number", "bigint"},
   {"number", "object"}}

A(kind, name) == [kind |-> kind, name |-> name]

\* Operands that are asked for together with others.
MCFew == {A("number", "0"), A("number", "NaN"), A("string", "a"), A("object", "{}"), Undefined}

MCPairs == {<<"eq", "neq">>, <<"gt", "lte">>, <<"neq", "gte">>, <<"in", "neq">>}

MCClauses ==
  {<<>>}
    \union {(op :> {v}) : op \in RangeOperators \union {"is", "eq", "neq", "startsWith"}, v \in Values}
    \union {("in" :> vs) : vs \in {{v, w} : v, w \in Values} \union {{}}}
    \union {(p[1] :> {v}) @@ (p[2] :> {w}) : p \in MCPairs, v, w \in MCFew}

MCQuestions == [field : MCFieldTypes, clause : MCClauses]

\* Numbers, in the order that a query without a filter sorts them.
MCNumbers == {[field |-> {"number"}, clause |-> <<>>]}

NotAsked == asked = [field |-> {"number"}, clause |-> <<>>] /\ cells = <<>>

PartInit ==
  \/ part = "deltas" /\ Init /\ StorageInit /\ NotAsked
  \/ /\ part \in {"scans", "predicates"} /\ StorageInit
     /\ shown = [window |-> <<>>, total |-> 0] /\ client = shown @@ [ready |-> TRUE]
     /\ IF part = "scans" THEN NotAsked ELSE PredicateInit

\* One row is enough where it is filtered; three are needed where rows are sorted.
PredicatePart ==
  /\ part = "predicates"
  /\ PredicateNext
  /\ DOMAIN asked.clause = {} \/ DOMAIN cells' = {1}
  /\ UNCHANGED <<vars, storage, part>>

PartNext ==
  \/ part = "deltas" /\ Next /\ UNCHANGED <<storage, predicateVars, part>>
  \/ part = "scans" /\ ScanNext /\ UNCHANGED <<vars, predicateVars, part>>
  \/ PredicatePart

QuerySpec == PartInit /\ [][PartNext]_<<vars, storage, predicateVars, part>>
===============================================================================
