---------------------------- MODULE QueryPredicates ----------------------------
(***************************************************************************)
(* What a query asks of a field, twice: as a function that looks at a row,  *)
(* and as a plan that the storage evaluates on its columns, without looking *)
(* at the row where the plan says all that the query asks.  And the order   *)
(* of the values that a field can hold, which every sort relies on.         *)
(*                                                                         *)
(* A field is the set of the kinds its schema unites.  A clause gives each  *)
(* operator it has its operands, of which `in` may have any number and      *)
(* every other one; a clause without any is that of a query which does not  *)
(* mention the field, and one that is a value instead of operators has `is`.*)
(* No stored object is itself such a clause.                                *)
(***************************************************************************)
EXTENDS Integers, Sequences, FiniteSets, SequencesExt

CONSTANTS
  Questions,  \* pairs [field, clause] of a query's `where`
  CellKeys    \* keys of the rows whose value in the field is looked at

VARIABLES
  asked,      \* the question, fixed
  cells       \* the value of the field in each row that is stored

predicateVars == <<asked, cells>>
-------------------------------------------------------------------------------
(* Values. *)

Of(kind, name) == [kind |-> kind, name |-> name]

\* The values told apart, in the order of their stable strings.
ByText ==
  <<Of("bigDecimal", "1.5"), Of("bigDecimal", "2.5"), Of("bigint", "3"), Of("bigint", "4"),
    Of("boolean", "false"), Of("boolean", "true"), Of("null", ""),
    Of("number", "-0"), Of("number", "-1"), Of("number", "-Infinity"), Of("number", "0"),
    Of("number", "1"), Of("number", "Infinity"), Of("number", "NaN"),
    Of("object", "{}"), Of("string", "a"), Of("string", "ab"), Of("string", "b"),
    Of("undefined", "")>>

Values      == ToSet(ByText)
Undefined   == Of("undefined", "")
NegativeZero == Of("number", "-0")
NonFinite   == {"-Infinity", "Infinity", "NaN"}
Text(v)     == CHOOSE i \in DOMAIN ByText : ByText[i] = v

IsFinite(v) == v.kind = "number" => v.name \notin NonFinite
Numeric     == {"number", "bigint", "bigDecimal"}
IsScalar(v) == v.kind \notin {"undefined", "object"} /\ IsFinite(v)
IsRangeComparable(v) == v.kind \in Numeric /\ IsFinite(v)
Prefixed(v, prefix) ==
  v.kind = "string" /\ (v = prefix \/ <<prefix.name, v.name>> = <<"a", "ab">>)

\* Where a number is; -0 and 0 are in one place, although they are two values.
Size(v) ==
  CASE v.name = "-1" -> -1 [] v.name \in {"-0", "0"} -> 0 [] OTHER -> Text(v)

Sign(a, b) == IF a < b THEN -1 ELSE IF a = b THEN 0 ELSE 1

\* What cannot be compared.
Incomparable == 2

CompareFilter(l, r) ==
  IF l.kind = r.kind /\ l.kind \in Numeric \union {"string"} /\ IsFinite(l) /\ IsFinite(r)
  THEN Sign(Size(l), Size(r))
  ELSE Incomparable

Rank(v) ==
  CASE v.kind \in {"undefined", "null"} -> 0
    [] v.kind = "boolean" -> 1
    [] v.kind \in Numeric -> 2
    [] v.kind = "string" -> 3
    [] v.kind = "object" -> 5

CompareQuery(l, r) ==
  IF Rank(l) # Rank(r) THEN Sign(Rank(l), Rank(r))
  ELSE IF CompareFilter(l, r) # Incomparable THEN CompareFilter(l, r)
  ELSE Sign(Text(l), Text(r))
-------------------------------------------------------------------------------
(* Fields. *)

KindsOf(field)   == {IF m = "bigintLiteral" THEN "bigint" ELSE m : m \in field}
RangeKinds(field) == KindsOf(field) \intersect Numeric
IsNumeric(field) == KindsOf(field) \subseteq Numeric
IsString(field)  == field = {"string"}
IsObject(field)  == field = {"object"}

\* The kind of the field's column; only one of a single kind is typed.
Column(field) ==
  IF field \in {{k} : k \in Numeric \union {"string"}} THEN CHOOSE k \in field : TRUE
  ELSE "generic"

\* A typed column has nothing where the value is of another kind.
Read(field, v) == IF Column(field) \in {"generic", v.kind} THEN v ELSE Undefined

\* The comparison of a typed column takes a shortcut where both values are its own.
CompareColumn(field, l, r) ==
  IF Column(field) = l.kind /\ Column(field) = r.kind /\ IsFinite(l) /\ IsFinite(r)
  THEN Sign(Size(l), Size(r))
  ELSE CompareQuery(l, r)
-------------------------------------------------------------------------------
(* A clause as a function of the row's value. *)

RangeOperators == {"gt", "gte", "lt", "lte"}
Operators      == RangeOperators \union {"is", "eq", "neq", "in", "startsWith"}

\* A clause has known operators, each with values; `is` stands for a value alone.
WellFormed(clause) ==
  \A op \in DOMAIN clause :
    /\ op \in Operators
    /\ clause[op] \subseteq Values
    /\ op # "in" => \E v \in Values : clause[op] = {v}
    /\ op = "is" => DOMAIN clause = {"is"}

ASSUME QuestionAssumption ==
  /\ CellKeys \subseteq Int
  /\ \A q \in Questions : WellFormed(q.clause)

Has(clause, op)     == op \in DOMAIN clause
Operand(clause, op) == CHOOSE v \in clause[op] : TRUE

InDirection(op, comparison) ==
  CASE op = "gt" -> comparison = 1 [] op = "gte" -> comparison \in {0, 1}
    [] op = "lt" -> comparison = -1 [] op = "lte" -> comparison \in {-1, 0}

\* Values of which one may be asked to be unequal to the other.
EqualityComparable(v, other) ==
  LET type(x) == IF x.kind \in {"null", "object"} THEN "object" ELSE x.kind
  IN  /\ "bigDecimal" \in {v.kind, other.kind} => v.kind = other.kind
      /\ type(v) = type(other) /\ IsFinite(other)

MatchesOperator(op, operands, v) ==
  CASE op \in {"eq", "in"} -> v \in operands /\ (op = "in" => Undefined \notin operands)
    [] op = "neq" -> \A x \in operands : EqualityComparable(v, x) /\ v # x
    [] op = "startsWith" -> \A x \in operands : Prefixed(v, x)
    [] op \in RangeOperators -> \A x \in operands : InDirection(op, CompareFilter(v, x))

MatchesScalar(clause, v) ==
  \A op \in DOMAIN clause :
    /\ clause[op] # {Undefined}
    /\ MatchesOperator(op, clause[op], v)

\* An object is compared for equality only; an operator without a value asks nothing.
MatchesObject(clause, v) ==
  LET asks == {op \in DOMAIN clause \intersect {"eq", "neq", "in"} :
                op = "in" \/ clause[op] # {Undefined}}
  IN  /\ asks # {}
      /\ \A op \in asks : IF op = "neq" THEN v \notin clause[op]
                          ELSE MatchesOperator(op, clause[op], v)

Matches(clause, v) ==
  IF DOMAIN clause = {} THEN TRUE
  ELSE IF Has(clause, "is") THEN v # Undefined /\ v \in clause["is"]
  ELSE IF v.kind = "object" THEN MatchesObject(clause, v)
  ELSE MatchesScalar(clause, v)
-------------------------------------------------------------------------------
(* A clause as a plan. *)

\* Queries with operators that a field does not support are refused, and so are
\* objects that are not operators.
Supported(field, clause) ==
  \/ IsObject(field)
  \/ /\ Has(clause, "is") => Operand(clause, "is").kind # "object"
     /\ Has(clause, "startsWith") => IsString(field)
     /\ DOMAIN clause \intersect RangeOperators # {} =>
          IsNumeric(field) /\ Cardinality(RangeKinds(field)) = 1

\* MUTANT of IsRangeValue: any value of the field's numeric kind.
IsRangeValueOfKind(field, v) == RangeKinds(field) = {v.kind}

\* A value that a range filter of the field can be planned with.
IsRangeValue(field, v) ==
  IsRangeComparable(v) /\ RangeKinds(field) = {v.kind}

IsNotEqualValue(field, v) ==
  /\ IsScalar(v)
  /\ IF IsNumeric(field) THEN IsRangeValue(field, v) ELSE IsString(field) /\ v.kind = "string"

\* The operator becomes a filter of the plan.
Planned(field, op, operands) ==
  CASE op \in {"is", "eq", "in"} -> \A x \in operands : IsScalar(x)
    [] op = "neq" -> \A x \in operands : IsNotEqualValue(field, x)
    [] op = "startsWith" -> \A x \in operands : x.kind = "string"
    [] op \in RangeOperators -> \A x \in operands : IsRangeValue(field, x)

PlannedOperators(field, clause) ==
  {op \in DOMAIN clause : ~IsObject(field) /\ Planned(field, op, clause[op])}

\* The plan says all that the clause asks.
CallbackSkippable(field, clause) == PlannedOperators(field, clause) = DOMAIN clause
-------------------------------------------------------------------------------
(* The plan on the columns.  Filters that do not decide alone are lenient. *)

PassesFilter(field, op, operands, v, exact) ==
  CASE op \in {"is", "eq"} -> v \in operands
    [] op = "in"  -> v.kind \notin {"undefined", "object"} /\ v \in operands
    [] op = "neq" -> \A x \in operands :
         /\ v # x
         /\ exact => IF Column(field) = x.kind THEN v # Undefined ELSE EqualityComparable(v, x)
    [] op = "startsWith" -> \A x \in operands : Prefixed(v, x)
    [] op \in RangeOperators -> \A x \in operands :
         IF exact /\ ~IsRangeComparable(x) THEN TRUE
         ELSE IF CompareFilter(v, x) = Incomparable THEN ~exact
         ELSE InDirection(op, CompareFilter(v, x))

PassesPlan(field, clause, v, exact) ==
  \A op \in PlannedOperators(field, clause) :
    PassesFilter(field, op, clause[op], Read(field, v), exact)

\* The row is looked at unless the whole plan is exact, which needs every clause of
\* the query to be.
Selects(field, clause, v, exact) ==
  PassesPlan(field, clause, v, exact) /\ (exact \/ Matches(clause, v))
-------------------------------------------------------------------------------
PredicateInit ==
  /\ asked \in {q \in Questions : Supported(q.field, q.clause)}
  /\ cells = [k \in {} |-> Undefined]

\* A row is stored, or replaced.
PutCell(k, v) ==
  /\ v.kind \in KindsOf(asked.field)
  /\ cells' = [j \in DOMAIN cells \union {k} |-> IF j = k THEN v ELSE cells[j]]
  /\ UNCHANGED asked

PredicateNext == \E k \in CellKeys, v \in Values : PutCell(k, v)

PredicateSpec == PredicateInit /\ [][PredicateNext]_predicateVars
-------------------------------------------------------------------------------
\* In the order of the field, ties in the order of keys, row a comes before row b.
RowBefore(a, b) ==
  LET comparison == CompareColumn(asked.field, Read(asked.field, cells[a]),
                                  Read(asked.field, cells[b]))
  IN  comparison = -1 \/ (comparison = 0 /\ a < b)

\* No rows come one before the other in a circle.
Linear(keys) ==
  \A a, b, c \in keys : RowBefore(a, b) /\ RowBefore(b, c) => RowBefore(a, c)

\* What the storage decides and orders by the columns is what the query's own
\* functions say of the rows: a plan that need not look at a row accepts exactly what
\* the clause asks, one that must loses no row; the shortcuts of typed columns compare
\* as values do; and, negative zero aside, rows have one order
\* (raw-predicate-plan.ts TopicRawPredicatePlan, topic-slot-predicate.ts).
StorageDecidesAsQueries ==
  /\ \A k \in DOMAIN cells, exact \in {FALSE, CallbackSkippable(asked.field, asked.clause)} :
       Selects(asked.field, asked.clause, cells[k], exact) <=> Matches(asked.clause, cells[k])
  /\ \A a, b \in DOMAIN cells :
       CompareColumn(asked.field, Read(asked.field, cells[a]), Read(asked.field, cells[b]))
         = CompareQuery(cells[a], cells[b])
  /\ NegativeZero \notin {cells[k] : k \in DOMAIN cells} => Linear(DOMAIN cells)

\* Rows are ordered deterministically: for any rows there is one order
\* (docs/query-semantics.md).
OrderedDeterministically == Linear(DOMAIN cells)
===============================================================================
