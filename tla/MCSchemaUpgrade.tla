-------------------------- MODULE MCSchemaUpgrade --------------------------
(* Instances of SchemaUpgrade for TLC: a parent and a child table.          *)
EXTENDS SchemaUpgrade

CONSTANTS u1, u2, parent, child, id, a, added, dropped, i1, i2, r1

TwoUpgraders == {u1, u2}
OneUpgrader == {u1}
BothTables == {parent, child}
FourCols == {id, a, added, dropped}
TwoIndexes == {i1, i2}
OneRow == {r1}

Def(cols, refs, idx) ==
    [NoTable EXCEPT !.cols = cols, !.strict = {id}, !.key = {id}, !.refs = refs,
                    !.idx = idx]
Filled(s) == [s EXCEPT !.cells = {r1} \X s.cols]

Version2 == [t \in {parent, child} |->
    IF t = parent THEN Def({id, a, added}, {}, {<<i1, a>>})
    ELSE Def({id, a, added}, {Live(parent)}, {<<i2, a>>})]

\* a database of another version
File(p, c) == [n \in Names |-> IF n = Live(parent) THEN p
                               ELSE IF n = Live(child) THEN c ELSE NoTable]

\* the parent is recreated (a column is dropped), the child altered
DropsInParent == File(Def({id, a, dropped}, {}, {}),
                      Filled(Def({id, a}, {Live(parent)}, {<<i2, id>>})))
\* the child is recreated (a foreign key is added), the parent altered
LinksChild == File(Filled(Def({id, a}, {}, {<<i1, id>>})),
                   Def({id, a, dropped}, {}, {<<i2, a>>}))
Empty == File(NoTable, NoTable)

AllStarts == {Empty, DropsInParent, LinksChild}
Plain == [keep |-> FALSE, force |-> FALSE]
AllOptions == {Plain, [Plain EXCEPT !.keep = TRUE], [Plain EXCEPT !.force = TRUE]}
PlainOnly == {Plain}
ParentFirst == <<parent, child>>
ChildFirst == <<child, parent>>

\* What ResolvedIsActual is proved for holds of the databases that are checked.
ASSUME UpgradableHere == Order = ParentFirst => Upgradable
=============================================================================
