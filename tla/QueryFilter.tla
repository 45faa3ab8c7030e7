----------------------------- MODULE QueryFilter -----------------------------
(* How a where-object of sqlite3orm becomes a WHERE clause with host         *)
(* parameters, and what SQLite makes of the clause for a row.  Definitions   *)
(* only; RowAccess uses them.                                                *)
EXTENDS Integers, Sequences, FiniteSets

CONSTANTS
    Columns,     \* the mapped properties that are not the key
    FilterKeys,  \* those of them that are named like a member of Filter
    Stored,      \* values of columns, Null among them
    Null         \* null and undefined

-----------------------------------------------------------------------------
\* Where-objects

\* A where-object is the list of the conditions it is made of, in the order in
\* which the translation is done with them: each one after those that it
\* consists of, which it gives by their places, and the whole at the end.
Predicate(p, op, v) == [kind |-> "predicate", prop |-> p, op |-> op, value |-> v]
Where(subs) == [kind |-> "predicates", subs |-> subs]
Condition(op, subs) == [kind |-> op, subs |-> subs]

\* isNull: false is isNotNull, and the other way round; these take no values
Operator(p) ==
    CASE p.op = "isNull" -> IF p.value THEN "isNull" ELSE "isNotNull"
      [] p.op = "isNotNull" -> IF p.value THEN "isNotNull" ELSE "isNull"
      [] OTHER -> p.op
Values(p) ==
    CASE p.op \in {"isNull", "isNotNull"} -> <<>>
      [] p.op \in {"isIn", "isNotIn", "isBetween", "isNotBetween"} -> p.value
      [] OTHER -> <<p.value>>

Predicates(w) == {k \in 1..Len(w) : w[k].kind = "predicate"}

IsCondition(w, k) ==
    /\ w[k].kind \in {"predicates", "not", "and", "or"} /\ w[k].subs \subseteq 1..k - 1
    /\ w[k].kind = "not" => \E j \in 1..k - 1 : w[k].subs = {j}
    /\ \A j \in w[k].subs : j \in Predicates(w) <=> w[k].kind = "predicates"
IsWhere(w) ==
    /\ Len(w) \in Nat \ {0} /\ DOMAIN w = 1..Len(w)
    /\ \A k \in Predicates(w) : Values(w[k]) \in Seq(Stored)
    /\ \A k \in 1..Len(w) \ Predicates(w) : IsCondition(w, k)
    /\ Len(w) \notin Predicates(w)

-----------------------------------------------------------------------------
\* SQLite's logic with three truth values

Truth(b) == IF b THEN "true" ELSE "false"
Negation(t) == CASE t = "true" -> "false" [] t = "false" -> "true" [] t = "null" -> "null"
Conjunction(S) == IF "false" \in S THEN "false" ELSE IF "null" \in S THEN "null" ELSE "true"
Disjunction(S) == Negation(Conjunction({Negation(t) : t \in S}))

Compare(op, x, y) ==
    IF Null \in {x, y} THEN "null"
    ELSE Truth(CASE op = "eq" -> x = y [] op = "neq" -> x # y
                 [] op = "lt" -> x < y [] op = "lte" -> x <= y
                 [] op = "gt" -> x > y [] op = "gte" -> x >= y)

\* an operator of a predicate, applied to a column and its values
Holds(op, x, args) ==
    CASE op = "isNull" -> Truth(x = Null)
      [] op = "isNotNull" -> Truth(x # Null)
      [] op = "isIn" -> Disjunction({Compare("eq", x, args[k]) : k \in 1..Len(args)})
      [] op = "isNotIn" -> Conjunction({Compare("neq", x, args[k]) : k \in 1..Len(args)})
      [] op = "isBetween" -> Conjunction({Compare("gte", x, args[1]), Compare("lte", x, args[2])})
      [] op = "isNotBetween" -> Disjunction({Compare("lt", x, args[1]), Compare("gt", x, args[2])})
      [] OTHER -> Compare(op, x, args[1])

Joined(op, truths) ==
    CASE op = "not" -> Negation(CHOOSE t \in truths : TRUE)
      [] op = "or" -> Disjunction(truths)
      [] OTHER -> Conjunction(truths)

-----------------------------------------------------------------------------
\* The translation: clauses and the host parameters they use

Empty == [op |-> "empty"]

\* mutant: one name per property
HostParameterByProperty(prop, params) == <<prop, 1>>

\* setHostParameter: the first name for this property that is not in use
HostParameter(prop, params) ==
    LET free == {n \in 1..Cardinality(DOMAIN params) + 1 : <<prop, n>> \notin DOMAIN params}
    IN <<prop, CHOOSE n \in free : \A k \in free : n <= k>>
SetHostParameter(prop, params, v) ==
    [n \in DOMAIN params \cup {HostParameter(prop, params)} |->
        IF n = HostParameter(prop, params) THEN v ELSE params[n]]

\* QueryPropertyPredicate.toSql: every value is bound to a name of its own
Binding(prop, values, params) ==
    LET bound[k \in 0..Len(values)] ==
            IF k = 0 THEN params ELSE SetHostParameter(prop, bound[k - 1], values[k])
    IN bound
PredicateSql(r, p) ==
    LET bound == Binding(p.prop, Values(p), r.params)
    IN [sql |-> Append(r.sql, [op |-> "holds", by |-> Operator(p), prop |-> p.prop,
                               names |-> [k \in 1..Len(Values(p)) |-> HostParameter(p.prop, bound[k - 1])]]),
        params |-> bound[Len(Values(p))]]

\* parts that are empty are left out; what has no parts is empty itself
Clause(kind, parts) ==
    IF parts = {} THEN Empty ELSE [op |-> IF kind = "predicates" THEN "and" ELSE kind, parts |-> parts]
ConditionSql(r, c) ==
    [r EXCEPT !.sql = Append(@, Clause(c.kind, {j \in c.subs : r.sql[j] # Empty}))]

\* the clauses of all conditions
Translating(w, params) ==
    LET done[k \in 0..Len(w)] ==
            IF k = 0 THEN [sql |-> <<>>, params |-> params]
            ELSE IF k \in Predicates(w) THEN PredicateSql(done[k - 1], w[k])
            ELSE ConditionSql(done[k - 1], w[k])
    IN done
toSql(w, params) == Translating(w, params)[Len(w)]

\* a property that is not mapped, or an empty list
Throws(w) ==
    \E k \in Predicates(w) :
        w[k].prop \notin Columns \/ (w[k].op \in {"isIn", "isNotIn"} /\ w[k].value = <<>>)

Evaluate(sql, params, row) ==
    LET truth[k \in 1..Len(sql)] ==
            LET c == sql[k] IN
            IF c = Empty THEN "true"
            ELSE IF c.op = "holds"
            THEN Holds(c.by, row[c.prop], [i \in 1..Len(c.names) |-> params[c.names[i]]])
            ELSE Joined(c.op, {truth[j] : j \in c.parts})
    IN truth

\* isFilter: predicates on a property with such a name are taken for a Filter,
\* which has no where
IsFilter(w) ==
    w[Len(w)].kind = "predicates" /\ \E k \in w[Len(w)].subs : w[k].prop \in FilterKeys

\* getWhereClause(toFilter(w)), run on a row
Selects(w, params, row) ==
    IsFilter(w) \/ LET r == toSql(w, params) IN Evaluate(r.sql, r.params, row)[Len(w)] = "true"

-----------------------------------------------------------------------------
\* What the documentation says a where-object means

\* a condition without predicates says nothing
Saying(w) ==
    LET said[k \in 0..Len(w)] ==
            IF k = 0 THEN {}
            ELSE said[k - 1] \cup {i \in {k} : k \in Predicates(w) \/ w[k].subs \cap said[k - 1] # {}}
    IN said
Says(w) == Saying(w)[Len(w)]

Meanings(w, row) ==
    LET said == Says(w)
        truth[k \in 1..Len(w)] ==
            IF k \notin said THEN "true"
            ELSE IF k \in Predicates(w) THEN Holds(Operator(w[k]), row[w[k].prop], Values(w[k]))
            ELSE Joined(w[k].kind, {truth[j] : j \in w[k].subs \cap said})
    IN truth
Means(w, row) == Meanings(w, row)[Len(w)]
=============================================================================
