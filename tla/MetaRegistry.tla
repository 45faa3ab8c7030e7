---------------------------- MODULE MetaRegistry ----------------------------
(* The metadata of sqlite3orm.  Classes are mapped to tables by decorators;  *)
(* several classes may share a table, whose definition is merged from what   *)
(* they declare.  A class is defined in one synchronous step: its property   *)
(* decorators, then MetaModel.init, which throws on a conflict and leaves    *)
(* behind what it has merged until then.                                     *)
EXTENDS Naturals, Sequences, FiniteSets

CONSTANTS
    Models, Tables, Cols,
    ConstraintNames,  \* names of foreign keys and of indexes
    Declarations,     \* what a class may declare, see Declaration
    Undef             \* an option that is not given

Opt(S) == S \cup {Undef}
Affinities == {"INTEGER", "REAL", "TEXT"}
\* without the type UNKNOWN, and without conversions a property brings itself
PropertyTypes == {"BOOLEAN", "DATE", "NUMBER", "STRING"}

Property ==
    [col : Cols, isIdentity : BOOLEAN, type : PropertyTypes,
     dbtype : Opt(Affinities), isJson : Opt(BOOLEAN), dateInMilliSeconds : Opt(BOOLEAN),
     fk : Opt([name : ConstraintNames, table : Tables, ref : Cols]),
     index : Opt([name : ConstraintNames, isUnique : Opt(BOOLEAN)])]
Declaration ==
    [name : Tables, withoutRowId : Opt(BOOLEAN), autoIncrement : Opt(BOOLEAN),
     props : Seq(Property)]

ASSUME RegistryAssumption == \A d \in Declarations : d \in Declaration /\ d.props # <<>>

VARIABLES
    tables,              \* mapNameToTable
    decl,                \* what the initialised models have declared
    transform,           \* the conversions their properties use
    qmCache,             \* the foreign keys in the cache of their query models
    tried,               \* the models that need no more be defined
    dateInMilliSeconds,  \* Schema.dateInMilliSeconds
    debris,              \* history: tables in which a failed definition left something
    blind                \* history: tables whose options were set by a class without key

vars == <<tables, decl, transform, qmCache, tried, dateInMilliSeconds, debris, blind>>

NoTable == [registered |-> FALSE]
NewTable ==
    [registered |-> TRUE, withoutRowId |-> Undef, autoIncrement |-> Undef,
     fields |-> [c \in Cols |-> Undef], rowIdField |-> Undef, autoIncrementField |-> Undef,
     fks |-> [n \in ConstraintNames |-> Undef], indexes |-> [n \in ConstraintNames |-> Undef],
     models |-> {}]

Registered == {t \in Tables : tables[t].registered}
Live == {m \in Models : decl[m] # Undef}
TableOf(m) == tables[decl[m].name]
PropsOf(d) == {d.props[k] : k \in 1..Len(d.props)}

TypeOK ==
    /\ \A t \in Registered : DOMAIN tables[t] = DOMAIN NewTable /\ tables[t].models \subseteq Models
    /\ \A m \in Models : decl[m] \in Opt(Declarations)
    /\ tried \subseteq Models /\ dateInMilliSeconds \in BOOLEAN
    /\ debris \subseteq Tables /\ blind \subseteq Tables

Init ==
    /\ tables = [t \in Tables |-> NoTable]
    /\ decl = [m \in Models |-> Undef]
    /\ transform = [m \in Models |-> Undef]
    /\ qmCache = [m \in Models |-> Undef]
    /\ tried = {} /\ dateInMilliSeconds = FALSE /\ debris = {} /\ blind = {}

-----------------------------------------------------------------------------
\* Merging declarations

\* mutant: the last value wins, and nobody is told
NoClash(old, new) == FALSE

\* an option may be given by several classes, but only with one value
Clash(old, new) == Undef \notin {old, new} /\ old # new

\* the options of a record are merged in order, up to the first that conflicts
MergeFails(names, old, new) == \E k \in 1..Len(names) : Clash(old[names[k]], new[names[k]])
Merged(names, old, new) ==
    [n \in DOMAIN old |->
        IF \E k \in 1..Len(names) :
              names[k] = n /\ new[n] # Undef
              /\ \A j \in 1..k : ~Clash(old[names[j]], new[names[j]])
        THEN new[n] ELSE old[n]]

TableOptions == <<"withoutRowId", "autoIncrement">>
FieldOptions == <<"dbtype", "isJson", "dateInMilliSeconds">>

\* setDbDefaultType
DbDefaultType(p) ==
    CASE p.type \in {"BOOLEAN", "DATE"} -> "INTEGER"
      [] p.type = "NUMBER" -> IF p.isIdentity THEN "INTEGER" ELSE "REAL"
      [] OTHER -> "TEXT"

Field ==
    [isIdentity : BOOLEAN, default : Affinities, dbtype : Opt(Affinities),
     isJson : Opt(BOOLEAN), dateInMilliSeconds : Opt(BOOLEAN)]
NewField(p) ==
    [isIdentity |-> p.isIdentity, default |-> DbDefaultType(p), dbtype |-> p.dbtype,
     isJson |-> p.isJson, dateInMilliSeconds |-> p.dateInMilliSeconds]
TypeAffinity(f) == IF f.dbtype = Undef THEN f.default ELSE f.dbtype

IdentityFields(tab) == {c \in Cols : tab.fields[c] # Undef /\ tab.fields[c].isIdentity}

\* the key column that is an alias of the rowid
RowIdAlias(tab) ==
    IF tab.withoutRowId # TRUE /\ Cardinality(IdentityFields(tab)) = 1
    THEN LET c == CHOOSE c \in IdentityFields(tab) : TRUE
         IN IF TypeAffinity(tab.fields[c]) = "INTEGER" THEN c ELSE Undef
    ELSE Undef

SetRowId(tab) ==
    [tab EXCEPT !.rowIdField = RowIdAlias(tab),
                !.autoIncrementField =
                    IF tab.autoIncrement = TRUE THEN RowIdAlias(tab) ELSE Undef]

AddFails(tab, p) ==
    LET f == tab.fields[p.col] IN
    f # Undef /\ (f.isIdentity # p.isIdentity \/ MergeFails(FieldOptions, f, p))
\* mutant: the rowid is settled by new columns only
AddFieldOnce(tab, p) ==
    LET f == tab.fields[p.col]
        g == IF f = Undef THEN NewField(p)
             ELSE IF f.isIdentity # p.isIdentity THEN f ELSE Merged(FieldOptions, f, p)
        new == [tab EXCEPT !.fields[p.col] = g]
    IN IF g.isIdentity /\ f = Undef THEN SetRowId(new) ELSE new

\* getOrAddTableField
AddField(tab, p) ==
    LET f == tab.fields[p.col]
        g == IF f = Undef THEN NewField(p)
             ELSE IF f.isIdentity # p.isIdentity THEN f ELSE Merged(FieldOptions, f, p)
        new == [tab EXCEPT !.fields[p.col] = g]
    IN IF g.isIdentity /\ ~AddFails(tab, p) THEN SetRowId(new) ELSE new

\* MetaProperty.init: the conversion is chosen once, from the field as it is now
TransformOf(f, type) ==
    LET text == TypeAffinity(f) = "TEXT"
        ms == IF f.dateInMilliSeconds = Undef THEN dateInMilliSeconds ELSE f.dateInMilliSeconds
    IN CASE f.isJson = TRUE -> "json"
         [] f.isJson # TRUE /\ type = "BOOLEAN" -> IF text THEN "booleanText" ELSE "booleanNumber"
         [] f.isJson # TRUE /\ type = "DATE" ->
                IF text THEN "dateText" ELSE IF ms THEN "dateMilliseconds" ELSE "dateSeconds"
         [] f.isJson # TRUE /\ type = "NUMBER" -> IF text THEN "numberText" ELSE "numberDefault"
         [] f.isJson # TRUE /\ type = "STRING" -> IF text THEN "stringDefault" ELSE "stringNumber"

\* two properties of one class that do not agree on a constraint they share
LocalClash(d, k) ==
    \E j \in 1..k - 1 :
        LET p == d.props[j] q == d.props[k] IN
        \/ /\ Undef \notin {p.fk, q.fk} /\ p.fk.name = q.fk.name /\ p.fk.table # q.fk.table
        \/ /\ Undef \notin {p.index, q.index} /\ p.index.name = q.index.name
           /\ Clash(p.index.isUnique, q.index.isUnique)

\* the constraints of a class, in the order it declares their columns
FKDefinition(d, n) ==
    LET of == SelectSeq(d.props, LAMBDA p : p.fk # Undef /\ p.fk.name = n)
    IN [table |-> of[1].fk.table, fields |-> [k \in 1..Len(of) |-> <<of[k].col, of[k].fk.ref>>]]
IDXDefinition(d, n) ==
    LET of == SelectSeq(d.props, LAMBDA p : p.index # Undef /\ p.index.name = n)
    IN [unique |-> \E k \in 1..Len(of) : of[k].index.isUnique = TRUE,
        cols |-> [k \in 1..Len(of) |-> of[k].col]]

\* Undef is none of the values it stands in for
ASSUME UndefAssumption ==
    /\ Undef \notin Declarations /\ Undef \notin Field
    /\ \A d \in Declarations : \A p \in PropsOf(d) :
          /\ p.fk # Undef => FKDefinition(d, p.fk.name) # Undef
          /\ p.index # Undef => IDXDefinition(d, p.index.name) # Undef

\* addIDXDefinition and addFKDefinition, up to the first conflict
Step(acc, ok, tab) == IF ~acc.ok THEN acc ELSE [ok |-> ok, tab |-> tab]
AddIndex(d, acc, p) ==
    IF p.index = Undef THEN acc
    ELSE LET n == p.index.name IN
         Step(acc, acc.tab.indexes[n] \in {Undef, IDXDefinition(d, n)},
              IF acc.tab.indexes[n] = Undef
              THEN [acc.tab EXCEPT !.indexes[n] = IDXDefinition(d, n)] ELSE acc.tab)
\* mutant: the last definition of a foreign key wins
AddFKReplacing(d, acc, p) ==
    IF p.fk = Undef \/ ~acc.ok THEN acc
    ELSE [acc EXCEPT !.tab.fks[p.fk.name] = FKDefinition(d, p.fk.name)]

AddFK(d, acc, p) ==
    IF p.fk = Undef THEN acc
    ELSE LET n == p.fk.name IN
         Step(acc, acc.tab.fks[n] \in {Undef, FKDefinition(d, n)},
              IF acc.tab.fks[n] = Undef
              THEN [acc.tab EXCEPT !.fks[n] = FKDefinition(d, n)] ELSE acc.tab)

\* getOrAddTable
GetOrAddTable(d) ==
    LET old == IF d.name \in Registered THEN tables[d.name] ELSE NewTable
    IN [ok |-> ~MergeFails(TableOptions, old, d), tab |-> Merged(TableOptions, old, d)]

\* init goes over the properties three times: their fields, indexes, foreign keys
InitStep(d, acc, k) ==
    LET n == Len(d.props) IN
    IF k <= n THEN Step(acc, ~AddFails(acc.tab, d.props[k]) /\ ~LocalClash(d, k),
                        AddField(acc.tab, d.props[k]))
    ELSE IF k <= 2 * n THEN AddIndex(d, acc, d.props[k - n])
    ELSE AddFK(d, acc, d.props[k - 2 * n])

Initialising(d) ==
    LET reached[k \in 0..3 * Len(d.props)] ==
            IF k = 0 THEN GetOrAddTable(d) ELSE InitStep(d, reached[k - 1], k)
    IN reached
Initialised(d) == Initialising(d)[3 * Len(d.props)]

\* the conversions a class gets: those of its properties as they are initialised
Transforms(d) ==
    LET reached == Initialising(d) IN
    [k \in 1..Len(d.props) |->
        TransformOf(reached[k].tab.fields[d.props[k].col], d.props[k].type)]

-----------------------------------------------------------------------------
\* Operations

\* does a definition change what decides about the rowid without settling it anew
Unsettled(d, ok) ==
    LET sets == d.withoutRowId # Undef \/ d.autoIncrement # Undef
        keys == {p \in PropsOf(d) : p.isIdentity}
    IN IF ok THEN sets /\ keys = {} ELSE sets \/ \E p \in keys : p.dbtype # Undef

Define(m, d) ==
    LET r == Initialised(d) IN
    /\ m \notin tried /\ tried' = tried \cup {m}
    /\ tables' = [tables EXCEPT ![d.name] =
                     IF r.ok THEN [r.tab EXCEPT !.models = @ \cup {m}] ELSE r.tab]
    /\ IF r.ok THEN /\ decl' = [decl EXCEPT ![m] = d]
                    /\ transform' = [transform EXCEPT ![m] = Transforms(d)]
               ELSE UNCHANGED <<decl, transform>>
    /\ debris' = IF r.ok THEN debris ELSE debris \cup {d.name}
    /\ blind' = IF Unsettled(d, r.ok) THEN blind \cup {d.name} ELSE blind
    /\ UNCHANGED <<qmCache, dateInMilliSeconds>>

\* mutant: the table stays
DestroyKeeping(m) ==
    /\ m \in Live
    /\ tables' = [tables EXCEPT ![decl[m].name].models = @ \ {m}]
    /\ decl' = [decl EXCEPT ![m] = Undef] /\ transform' = [transform EXCEPT ![m] = Undef]
    /\ UNCHANGED <<qmCache, tried, dateInMilliSeconds, debris, blind>>

Destroy(m) ==
    LET t == decl[m].name
        rest == tables[t].models \ {m}
    IN /\ m \in Live
       /\ tables' = [tables EXCEPT ![t] = IF rest = {} THEN NoTable ELSE [@ EXCEPT !.models = rest]]
       /\ decl' = [decl EXCEPT ![m] = Undef] /\ transform' = [transform EXCEPT ![m] = Undef]
       /\ debris' = IF rest = {} THEN debris \ {t} ELSE debris
       /\ blind' = IF rest = {} THEN blind \ {t} ELSE blind
       /\ UNCHANGED <<qmCache, tried, dateInMilliSeconds>>

\* buildCache: the foreign keys all of whose columns the class maps
Predicates(m) ==
    LET tab == TableOf(m)
        mapped == {p.col : p \in PropsOf(decl[m])}
        cols(n) == {tab.fks[n].fields[k][1] : k \in 1..Len(tab.fks[n].fields)}
    IN [n \in {n \in ConstraintNames : tab.fks[n] # Undef /\ cols(n) \subseteq mapped} |-> tab.fks[n]]

\* the first data access object of a class fills the cache, for ever
NewDAO(m) ==
    /\ m \in Live /\ qmCache[m] = Undef
    /\ qmCache' = [qmCache EXCEPT ![m] = Predicates(m)]
    /\ UNCHANGED <<tables, decl, transform, tried, dateInMilliSeconds, debris, blind>>

SetDateInMilliSeconds ==
    /\ dateInMilliSeconds' = ~dateInMilliSeconds
    /\ UNCHANGED <<tables, decl, transform, qmCache, tried, debris, blind>>

Next ==
    \/ \E m \in Models : Destroy(m) \/ NewDAO(m)
    \/ \E m \in Models, d \in Declarations : Define(m, d)
    \/ SetDateInMilliSeconds

Spec == Init /\ [][Next]_vars

-----------------------------------------------------------------------------
\* Properties

\* A table is registered exactly as long as a class is mapped to it, so that a
\* name can be used again with other settings once its classes are destroyed;
\* only a definition that has thrown leaves a table that belongs to nobody.
TablesInUse ==
    /\ \A m \in Live : decl[m].name \in Registered /\ m \in TableOf(m).models
    /\ \A t \in Registered : tables[t].models = {} => t \in debris

\* Whatever the classes of a table have declared, in whatever order, and
\* whichever definitions have failed or been destroyed in between: every option
\* a living class has given is the one the table has, and so are its keys.
DeclarationsHold ==
    \A m \in Live : LET d == decl[m] tab == TableOf(m) IN
        /\ \A k \in 1..2 : d[TableOptions[k]] \in {Undef, tab[TableOptions[k]]}
        /\ \A p \in PropsOf(d) :
              /\ tab.fields[p.col].isIdentity = p.isIdentity
              /\ \A k \in 1..3 : p[FieldOptions[k]] \in {Undef, tab.fields[p.col][FieldOptions[k]]}
              /\ p.fk # Undef => tab.fks[p.fk.name] = FKDefinition(d, p.fk.name)
              /\ p.index # Undef => tab.indexes[p.index.name] = IDXDefinition(d, p.index.name)

\* The rowid field of a table is its only key column, if that is an INTEGER and
\* the table has rowids, and the autoincrement field follows it; inserts take
\* the id of the new row from there.  Options given by a class that does not
\* map the key (or by one that fails) do not reach them.
RowIdFits ==
    \A t \in Registered \ blind : tables[t] = SetRowId(tables[t])

\* What a class has cached of a foreign key is what its table has, whatever other
\* classes have added to it since.
CacheIsCurrent ==
    \A m \in Live : qmCache[m] # Undef =>
        \A n \in DOMAIN qmCache[m] : TableOf(m).fks[n] = qmCache[m][n]

\* Does not hold: a foreign key that another class adds to the table afterwards
\* is not in the cache, although a class that fills its cache later has it.
CacheIsComplete == \A m \in Live : qmCache[m] \in {Undef, Predicates(m)}

\* Classes that map a column to properties of the same type convert its values
\* in the same way.
SharedFormat ==
    \A m1, m2 \in Live : decl[m1].name = decl[m2].name =>
        \A j \in 1..Len(decl[m1].props), k \in 1..Len(decl[m2].props) :
            LET p == decl[m1].props[j] q == decl[m2].props[k] IN
            p.col = q.col /\ p.type = q.type => transform[m1][j] = transform[m2][k]
=============================================================================
