---------------------------- MODULE MCRowAccess ----------------------------
(* A table with the columns "a", which has a default, and "limit", whose     *)
(* property is named like a member of Filter.                                *)
EXTENDS RowAccess, TLC

MCDefault == ("a" :> 2) @@ ("limit" :> Null)
Model(i, x, y) == (Key :> i) @@ ("a" :> x) @@ ("limit" :> y) @@ ("of" :> 0)
MCNewModels == {Model(Absent, 1, 1), Model(2, Absent, 2)}
A(op, v) == Predicate("a", op, v)
MCWheres ==
    {<<A("eq", 1), Where({1})>>, <<Predicate("limit", "gte", 2), Where({1})>>,
     <<A("lt", 2), Where({1}), Condition("and", {}),
       A("gt", 1), Predicate("limit", "isNull", FALSE), Where({4, 5}), Condition("or", {2, 3, 6})>>,
     <<Predicate("limit", "isNotIn", <<1, 2>>), Where({1}), Condition("not", {2})>>,
     <<A("isIn", <<>>), Where({1})>>}
=============================================================================
