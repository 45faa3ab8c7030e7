--------------------------- MODULE MCMetaRegistry ---------------------------
(* Declarations for the metadata: a table "T" with a key and a date, mapped   *)
(* in full or in part, with options that agree, complete or conflict.         *)
EXTENDS MetaRegistry, TLC

CONSTANTS T, id, id2, date, n1

Prop(c, key, type) ==
    [col |-> c, isIdentity |-> key, type |-> type, dbtype |-> Undef, isJson |-> Undef,
     dateInMilliSeconds |-> Undef, fk |-> Undef, index |-> Undef]
Fk(c) == [name |-> n1, table |-> T, ref |-> c]
Class(w, a, props) == [name |-> T, withoutRowId |-> w, autoIncrement |-> a, props |-> props]

Key == Prop(id, TRUE, "NUMBER")
Date == Prop(date, FALSE, "DATE")
Dates ==
    {Date, [Date EXCEPT !.dateInMilliSeconds = TRUE], [Date EXCEPT !.dbtype = "TEXT"],
     [Date EXCEPT !.isJson = TRUE, !.dateInMilliSeconds = FALSE],
     [Date EXCEPT !.index = [name |-> n1, isUnique |-> TRUE], !.fk = Fk(id)],
     [Date EXCEPT !.fk = Fk(id2)]}

MCDeclarations ==
    {Class(Undef, Undef, <<Key, d>>) : d \in Dates}
    \cup {Class(w, a, <<Key>>) : w \in {Undef, TRUE}, a \in {Undef, TRUE, FALSE}}
    \cup {Class(TRUE, Undef, <<Date, Key>>), Class(Undef, TRUE, <<Date>>),
          Class(Undef, Undef, <<Prop(date, TRUE, "NUMBER"), Key>>),
          Class(Undef, Undef, <<Key, Prop(id2, TRUE, "NUMBER")>>),
          Class(Undef, Undef, <<[Key EXCEPT !.dbtype = "TEXT"]>>),
          Class(Undef, Undef, <<[Key EXCEPT !.index = [name |-> n1, isUnique |-> FALSE]],
                               [Date EXCEPT !.index = [name |-> n1, isUnique |-> TRUE]]>>),
          Class(Undef, Undef, <<[Key EXCEPT !.fk = Fk(id)], [Date EXCEPT !.fk = Fk(id2)]>>)}

Sym == Permutations(Models)
=============================================================================
