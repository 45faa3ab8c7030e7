------------------------ MODULE MetaRegistryProofs ------------------------
(* Proofs about the metadata registry: whatever classes are defined, in       *)
(* whatever order, and whichever definitions fail or are destroyed, a table   *)
(* has all that its living classes have declared.                             *)
EXTENDS MetaRegistry, TLAPS, FiniteSetTheorems, WellFoundedInduction

-----------------------------------------------------------------------------
\* Recursion

\* What holds for 0, and for k + 1 if for k, holds up to N.
LEMMA UpTo ==
    ASSUME NEW N \in Nat, NEW S, 0 \in S, \A k \in 0..N - 1 : k \in S => k + 1 \in S
    PROVE  0..N \subseteq S
<1> DEFINE B == {k \in 0..N : k \notin S}
           R == OpToRel(<, Nat)
<1> SUFFICES ASSUME B # {} PROVE FALSE
  OBVIOUS
<1>1. IsWellFoundedOn(R, Nat)
  BY NatLessThanWellFounded
<1>2. B \in SUBSET Nat /\ B # {}
  OBVIOUS
<1>3. PICK m \in B : \A k \in B : ~(<<k, m>> \in R)
  <2> HIDE DEF B, R
  <2> QED
    BY <1>1, <1>2, WFMin
<1>4. m \in 0..N /\ m # 0 /\ m \notin S
  BY <1>3
<1>5. m - 1 \in 0..N - 1 /\ m - 1 \in 0..N /\ m - 1 + 1 = m
  BY <1>4
<1>6. m - 1 \in B
  BY <1>4, <1>5
<1>7. m \in Nat /\ m - 1 \in Nat /\ m - 1 < m
  BY <1>4, <1>5
<1>8. <<m - 1, m>> \in R
  <2> HIDE DEF B
  <2> QED
    BY <1>7 DEF OpToRel
<1> QED
  BY <1>3, <1>6, <1>8

\* How far the initialisation of a class is after each of its steps.
InitLen(d) == 3 * Len(d.props)

Run(d, N, f) ==
    f = [k \in 0..N |-> IF k = 0 THEN GetOrAddTable(d) ELSE InitStep(d, f[k - 1], k)]

\* There is such a run, however many steps it has: a recursive function is a
\* function.
LEMMA RunExists ==
    ASSUME NEW d, NEW N \in Nat
    PROVE  \E f : Run(d, N, f)
<1> DEFINE S == {n \in Nat : \E f : Run(d, n, f)}
<1>1. 0 \in S
  <2> DEFINE f == [k \in 0..0 |-> GetOrAddTable(d)]
  <2>1. f = [k \in 0..0 |-> IF k = 0 THEN GetOrAddTable(d) ELSE InitStep(d, f[k - 1], k)]
    OBVIOUS
  <2> QED
    BY <2>1 DEF Run
<1>2. ASSUME NEW n \in 0..N - 1, n \in S PROVE n + 1 \in S
  <2>1. PICK f : Run(d, n, f)
    BY <1>2
  <2> DEFINE last == InitStep(d, f[n], n + 1)
             g == [k \in 0..n + 1 |-> IF k = n + 1 THEN last ELSE f[k]]
  <2>2. \A k \in 0..n : g[k] = f[k]
    OBVIOUS
  <2>3. ASSUME NEW k \in 0..n + 1
        PROVE  g[k] = IF k = 0 THEN GetOrAddTable(d) ELSE InitStep(d, g[k - 1], k)
    <3>1. CASE k = n + 1
      <4>1. g[k] = last /\ k # 0 /\ k - 1 = n /\ g[k - 1] = f[n]
        BY <3>1
      <4> QED
        BY <3>1, <4>1
    <3>2. CASE k \in 0..n
      <4>1. f[k] = IF k = 0 THEN GetOrAddTable(d) ELSE InitStep(d, f[k - 1], k)
        BY <2>1, <3>2 DEF Run
      <4>2. k # 0 => k - 1 \in 0..n
        BY <3>2
      <4> QED
        BY <2>2, <3>2, <4>1, <4>2
    <3> QED
      BY <3>1, <3>2
  <2>4. Run(d, n + 1, g)
    <3>1. g = [k \in 0..n + 1 |-> g[k]]
      OBVIOUS
    <3> HIDE DEF g
    <3> QED
      BY <2>3, <3>1 DEF Run
  <2> QED
    BY <2>4
<1> HIDE DEF S
<1>3. N \in S
  BY <1>1, <1>2, UpTo
<1> QED
  BY <1>3 DEF S

\* So the initialisation of a class does begin with getOrAddTable and goes on
\* step by step.
LEMMA InitialisingIs ==
    ASSUME NEW d, Len(d.props) \in Nat
    PROVE  /\ Initialising(d)[0] = GetOrAddTable(d)
           /\ \A k \in 1..InitLen(d) :
                 Initialising(d)[k] = InitStep(d, Initialising(d)[k - 1], k)
<1> DEFINE N == 3 * Len(d.props)
<1>1. N \in Nat
  OBVIOUS
<1>2. PICK f : Run(d, N, f)
  BY <1>1, RunExists
<1> DEFINE h == Initialising(d)
<1>3. h = [k \in 0..N |-> IF k = 0 THEN GetOrAddTable(d) ELSE InitStep(d, h[k - 1], k)]
  BY <1>2 DEF Initialising, Run
<1> HIDE DEF h
<1> QED
  BY <1>1, <1>3, SMTT(30) DEF h, InitLen

-----------------------------------------------------------------------------
\* Tables and fields

\* A registered table.
Shape(tab) ==
    /\ tab = [registered |-> TRUE, withoutRowId |-> tab.withoutRowId,
              autoIncrement |-> tab.autoIncrement, fields |-> tab.fields,
              rowIdField |-> tab.rowIdField, autoIncrementField |-> tab.autoIncrementField,
              fks |-> tab.fks, indexes |-> tab.indexes, models |-> tab.models]
    /\ tab.fields \in [Cols -> Opt(Field)]
    /\ tab.fks = [n \in ConstraintNames |-> tab.fks[n]]
    /\ tab.indexes = [n \in ConstraintNames |-> tab.indexes[n]]

\* An option that has been given stays as it is.
Stands(old, new) == old # Undef => new = old

FieldStands(f, g) ==
    /\ f.isIdentity = g.isIdentity /\ f.default = g.default
    /\ Stands(f.dbtype, g.dbtype) /\ Stands(f.isJson, g.isJson)
    /\ Stands(f.dateInMilliSeconds, g.dateInMilliSeconds)

\* A table y has all that the table x has.
Extends(x, y) ==
    /\ Stands(x.withoutRowId, y.withoutRowId) /\ Stands(x.autoIncrement, y.autoIncrement)
    /\ \A c \in Cols : x.fields[c] # Undef =>
          y.fields[c] # Undef /\ FieldStands(x.fields[c], y.fields[c])
    /\ \A n \in ConstraintNames : /\ Stands(x.fks[n], y.fks[n])
                                  /\ Stands(x.indexes[n], y.indexes[n])

\* The field g has what the property p says.
Agrees(p, g) ==
    /\ g.isIdentity = p.isIdentity
    /\ p.dbtype \in {Undef, g.dbtype} /\ p.isJson \in {Undef, g.isJson}
    /\ p.dateInMilliSeconds \in {Undef, g.dateInMilliSeconds}
Maps(tab, p) == tab.fields[p.col] # Undef /\ Agrees(p, tab.fields[p.col])

\* Adding to a table twice is adding to it.
LEMMA ExtendsTransitive ==
    ASSUME NEW x, NEW y, NEW z, Extends(x, y), Extends(y, z)
    PROVE  Extends(x, z)
<1>1. Stands(x.withoutRowId, z.withoutRowId) /\ Stands(x.autoIncrement, z.autoIncrement)
  BY DEF Extends, Stands
<1>2. \A c \in Cols : x.fields[c] # Undef =>
          z.fields[c] # Undef /\ FieldStands(x.fields[c], z.fields[c])
  BY DEF Extends, FieldStands, Stands
<1>3. \A n \in ConstraintNames : /\ Stands(x.fks[n], z.fks[n])
                                 /\ Stands(x.indexes[n], z.indexes[n])
  BY DEF Extends, Stands
<1> QED
  BY <1>1, <1>2, <1>3 DEF Extends

\* Doing nothing is adding to it, too.
LEMMA ExtendsItself == ASSUME NEW x PROVE Extends(x, x)
BY DEF Extends, FieldStands, Stands

\* A field that agrees with a property still does when something is added.
LEMMA AgreesStill ==
    ASSUME NEW x, NEW y, Extends(x, y), NEW p \in Property, Maps(x, p)
    PROVE  Maps(y, p)
<1>1. p.col \in Cols
  BY DEF Property
<1> QED
  BY <1>1 DEF Maps, Agrees, Extends, FieldStands, Stands

\* What merging makes of an option.
MergedOption(names, old, new, n) ==
    IF \E k \in 1..Len(names) :
          names[k] = n /\ new[n] # Undef
          /\ \A j \in 1..k : ~Clash(old[names[j]], new[names[j]])
    THEN new[n] ELSE old[n]

\* An option stands, is not changed by one that is not given, and is the one that
\* is given, unless merging fails.
LEMMA OptionMerged ==
    ASSUME NEW names, Len(names) \in Nat, NEW old, NEW new, NEW n,
           NEW k \in 1..Len(names), names[k] = n
    PROVE  LET v == MergedOption(names, old, new, n) IN
           /\ Stands(old[n], v) /\ v \in {old[n], new[n]}
           /\ new[n] = Undef => v = old[n]
           /\ ~MergeFails(names, old, new) => new[n] \in {Undef, v}
<1> DEFINE v == MergedOption(names, old, new, n)
<1>1. CASE \E i \in 1..Len(names) :
              names[i] = n /\ new[n] # Undef
              /\ \A j \in 1..i : ~Clash(old[names[j]], new[names[j]])
  <2>1. v = new[n] /\ new[n] # Undef
    BY <1>1 DEF MergedOption
  <2>2. ~Clash(old[n], new[n])
    BY <1>1
  <2> QED
    BY <2>1, <2>2 DEF Stands, Clash
<1>2. CASE ~ \E i \in 1..Len(names) :
              names[i] = n /\ new[n] # Undef
              /\ \A j \in 1..i : ~Clash(old[names[j]], new[names[j]])
  <2>1. v = old[n]
    BY <1>2 DEF MergedOption
  <2>2. ASSUME ~MergeFails(names, old, new) PROVE new[n] = Undef
    <3>1. \A j \in 1..k : j \in 1..Len(names)
      OBVIOUS
    <3>2. \A j \in 1..k : ~Clash(old[names[j]], new[names[j]])
      BY <2>2, <3>1 DEF MergeFails
    <3> QED
      BY <1>2, <3>2
  <2> QED
    BY <2>1, <2>2 DEF Stands
<1> QED
  BY <1>1, <1>2

\* Merged in terms of MergedOption.
LEMMA MergedIs ==
    ASSUME NEW names, NEW old, NEW new
    PROVE  Merged(names, old, new) =
               [n \in DOMAIN old |-> MergedOption(names, old, new, n)]
BY DEF Merged, MergedOption

\* Merging leaves all but the options alone.
LEMMA NotAnOption ==
    ASSUME NEW names, NEW old, NEW new, NEW n, \A k \in 1..Len(names) : names[k] # n
    PROVE  MergedOption(names, old, new, n) = old[n]
BY DEF MergedOption

\* The options of a table and of a field.
LEMMA OptionNames ==
    /\ Len(TableOptions) = 2 /\ TableOptions[1] = "withoutRowId"
    /\ TableOptions[2] = "autoIncrement"
    /\ Len(FieldOptions) = 3 /\ FieldOptions[1] = "dbtype" /\ FieldOptions[2] = "isJson"
    /\ FieldOptions[3] = "dateInMilliSeconds"
    /\ \A n : (\A k \in 1..2 : TableOptions[k] # n) <=>
                  n \notin {"withoutRowId", "autoIncrement"}
    /\ \A n : (\A k \in 1..3 : FieldOptions[k] # n) <=>
                  n \notin {"dbtype", "isJson", "dateInMilliSeconds"}
<1>1. /\ Len(TableOptions) = 2 /\ TableOptions[1] = "withoutRowId"
      /\ TableOptions[2] = "autoIncrement"
      /\ Len(FieldOptions) = 3 /\ FieldOptions[1] = "dbtype" /\ FieldOptions[2] = "isJson"
      /\ FieldOptions[3] = "dateInMilliSeconds"
  BY DEF TableOptions, FieldOptions
<1>2. 1..2 = {1, 2} /\ 1..3 = {1, 2, 3}
  OBVIOUS
<1> QED
  BY <1>1, <1>2

\* Merging the options of a table.
LEMMA TableMerged ==
    ASSUME NEW old, Shape(old), NEW d \in Declaration
    PROVE  LET new == Merged(TableOptions, old, d) IN
           /\ Shape(new) /\ Extends(old, new) /\ new.models = old.models
           /\ new.fields = old.fields /\ new.rowIdField = old.rowIdField
           /\ new.autoIncrementField = old.autoIncrementField
           /\ d.withoutRowId = Undef => new.withoutRowId = old.withoutRowId
           /\ d.autoIncrement = Undef => new.autoIncrement = old.autoIncrement
           /\ ~MergeFails(TableOptions, old, d) =>
                 /\ d.withoutRowId \in {Undef, new.withoutRowId}
                 /\ d.autoIncrement \in {Undef, new.autoIncrement}
<1> DEFINE new == Merged(TableOptions, old, d)
           opt(n) == MergedOption(TableOptions, old, d, n)
           w == opt("withoutRowId")
           a == opt("autoIncrement")
           names == {"registered", "withoutRowId", "autoIncrement", "fields", "rowIdField",
                     "autoIncrementField", "fks", "indexes", "models"}
<1>1. DOMAIN old = names
  BY DEF Shape
<1>2. new = [n \in names |-> opt(n)]
  BY <1>1, MergedIs
<1>3. /\ Stands(old["withoutRowId"], w) /\ w \in {old["withoutRowId"], d["withoutRowId"]}
      /\ d["withoutRowId"] = Undef => w = old["withoutRowId"]
      /\ ~MergeFails(TableOptions, old, d) => d["withoutRowId"] \in {Undef, w}
  <2>1. 1 \in 1..Len(TableOptions) /\ Len(TableOptions) \in Nat
        /\ TableOptions[1] = "withoutRowId"
    BY OptionNames
  <2> QED
    BY <2>1, OptionMerged
<1>4. /\ Stands(old["autoIncrement"], a) /\ a \in {old["autoIncrement"], d["autoIncrement"]}
      /\ d["autoIncrement"] = Undef => a = old["autoIncrement"]
      /\ ~MergeFails(TableOptions, old, d) => d["autoIncrement"] \in {Undef, a}
  <2>1. 2 \in 1..Len(TableOptions) /\ Len(TableOptions) \in Nat
        /\ TableOptions[2] = "autoIncrement"
    BY OptionNames
  <2> QED
    BY <2>1, OptionMerged
<1>5. \A n \in names \ {"withoutRowId", "autoIncrement"} : opt(n) = old[n]
  BY OptionNames, NotAnOption
<1> HIDE DEF opt, w, a
<1>6. /\ opt("registered") = TRUE /\ opt("fields") = old.fields
      /\ opt("rowIdField") = old.rowIdField
      /\ opt("autoIncrementField") = old.autoIncrementField
      /\ opt("fks") = old.fks /\ opt("indexes") = old.indexes /\ opt("models") = old.models
      /\ opt("withoutRowId") = w /\ opt("autoIncrement") = a
  BY <1>5 DEF Shape, w, a
<1>7. new = [registered |-> TRUE, withoutRowId |-> w, autoIncrement |-> a,
             fields |-> old.fields, rowIdField |-> old.rowIdField,
             autoIncrementField |-> old.autoIncrementField,
             fks |-> old.fks, indexes |-> old.indexes, models |-> old.models]
  BY <1>2, <1>6
<1> HIDE DEF new
<1>8. /\ new.withoutRowId = w /\ new.autoIncrement = a /\ new.fields = old.fields
      /\ new.rowIdField = old.rowIdField /\ new.autoIncrementField = old.autoIncrementField
      /\ new.fks = old.fks /\ new.indexes = old.indexes /\ new.models = old.models
  BY <1>7
<1>9. Shape(new)
  BY <1>7, <1>8 DEF Shape
<1>10. Extends(old, new)
  BY <1>3, <1>4, <1>8 DEF Extends, FieldStands, Stands
<1> QED
  BY <1>3, <1>4, <1>8, <1>9, <1>10 DEF new

\* Merging the options of a field.
LEMMA FieldMerged ==
    ASSUME NEW f \in Field, NEW p \in Property
    PROVE  LET g == Merged(FieldOptions, f, p) IN
           /\ g \in Field /\ FieldStands(f, g)
           /\ p.dbtype = Undef => g.dbtype = f.dbtype
           /\ ~MergeFails(FieldOptions, f, p) /\ f.isIdentity = p.isIdentity => Agrees(p, g)
<1> DEFINE g == Merged(FieldOptions, f, p)
           opt(n) == MergedOption(FieldOptions, f, p, n)
           t == opt("dbtype")
           j == opt("isJson")
           m == opt("dateInMilliSeconds")
           names == {"isIdentity", "default", "dbtype", "isJson", "dateInMilliSeconds"}
<1>1. DOMAIN f = names
  BY DEF Field
<1>2. g = [n \in names |-> opt(n)]
  BY <1>1, MergedIs
<1>3. /\ Stands(f["dbtype"], t) /\ t \in {f["dbtype"], p["dbtype"]}
      /\ p["dbtype"] = Undef => t = f["dbtype"]
      /\ ~MergeFails(FieldOptions, f, p) => p["dbtype"] \in {Undef, t}
  <2>1. 1 \in 1..Len(FieldOptions) /\ Len(FieldOptions) \in Nat /\ FieldOptions[1] = "dbtype"
    BY OptionNames
  <2> QED
    BY <2>1, OptionMerged
<1>4. /\ Stands(f["isJson"], j) /\ j \in {f["isJson"], p["isJson"]}
      /\ ~MergeFails(FieldOptions, f, p) => p["isJson"] \in {Undef, j}
  <2>1. 2 \in 1..Len(FieldOptions) /\ Len(FieldOptions) \in Nat /\ FieldOptions[2] = "isJson"
    BY OptionNames
  <2> QED
    BY <2>1, OptionMerged
<1>5. /\ Stands(f["dateInMilliSeconds"], m)
      /\ m \in {f["dateInMilliSeconds"], p["dateInMilliSeconds"]}
      /\ ~MergeFails(FieldOptions, f, p) => p["dateInMilliSeconds"] \in {Undef, m}
  <2>1. 3 \in 1..Len(FieldOptions) /\ Len(FieldOptions) \in Nat
        /\ FieldOptions[3] = "dateInMilliSeconds"
    BY OptionNames
  <2> QED
    BY <2>1, OptionMerged
<1>6. opt("isIdentity") = f["isIdentity"] /\ opt("default") = f["default"]
  BY OptionNames, NotAnOption
<1> HIDE DEF opt, t, j, m
<1>7. g = [isIdentity |-> f.isIdentity, default |-> f.default, dbtype |-> t,
           isJson |-> j, dateInMilliSeconds |-> m]
  BY <1>2, <1>6 DEF t, j, m
<1>8. /\ f.isIdentity \in BOOLEAN /\ f.default \in Affinities
      /\ t \in Opt(Affinities) /\ j \in Opt(BOOLEAN) /\ m \in Opt(BOOLEAN)
  BY <1>3, <1>4, <1>5 DEF Field, Property
<1> HIDE DEF g
<1>9. g \in Field
  BY <1>7, <1>8 DEF Field
<1>10. /\ g.isIdentity = f.isIdentity /\ g.default = f.default /\ g.dbtype = t
       /\ g.isJson = j /\ g.dateInMilliSeconds = m
  BY <1>7
<1>11. FieldStands(f, g)
  BY <1>3, <1>4, <1>5, <1>10 DEF FieldStands
<1>12. ~MergeFails(FieldOptions, f, p) /\ f.isIdentity = p.isIdentity => Agrees(p, g)
  BY <1>3, <1>4, <1>5, <1>10 DEF Agrees
<1> QED
  BY <1>3, <1>9, <1>10, <1>11, <1>12 DEF g

\* A new field has what the first property says of it.
LEMMA NewFieldIs ==
    ASSUME NEW p \in Property
    PROVE  NewField(p) \in Field /\ Agrees(p, NewField(p))
<1>1. DbDefaultType(p) \in Affinities
  BY DEF DbDefaultType, Affinities, Property, PropertyTypes
<1> QED
  BY <1>1 DEF NewField, Field, Property, Agrees

-----------------------------------------------------------------------------
\* The rowid field

\* The rowid field of a table is as its fields and options say.
Settled(tab) ==
    /\ tab.rowIdField = RowIdAlias(tab)
    /\ tab.autoIncrementField = IF tab.autoIncrement = TRUE THEN RowIdAlias(tab) ELSE Undef

\* It depends on the keys only.
LEMMA SameAlias ==
    ASSUME NEW x, NEW y, x.withoutRowId = y.withoutRowId,
           IdentityFields(x) = IdentityFields(y),
           \A c \in IdentityFields(x) : TypeAffinity(x.fields[c]) = TypeAffinity(y.fields[c])
    PROVE  RowIdAlias(x) = RowIdAlias(y)
<1> DEFINE keys == IdentityFields(x)
           c == CHOOSE c \in keys : TRUE
           one == x.withoutRowId # TRUE /\ Cardinality(keys) = 1
<1>1. /\ RowIdAlias(x) = IF one THEN IF TypeAffinity(x.fields[c]) = "INTEGER" THEN c ELSE Undef
                         ELSE Undef
      /\ RowIdAlias(y) = IF one THEN IF TypeAffinity(y.fields[c]) = "INTEGER" THEN c ELSE Undef
                         ELSE Undef
  BY DEF RowIdAlias
<1>2. keys # {} => c \in keys
  OBVIOUS
<1>3. keys = {} => Cardinality(keys) = 0
  BY FS_EmptySet
<1>4. one => c \in keys
  <2> HIDE DEF keys, c
  <2> QED
    BY <1>2, <1>3
<1>5. c \in keys => TypeAffinity(x.fields[c]) = TypeAffinity(y.fields[c])
  OBVIOUS
<1> HIDE DEF keys, c, one
<1>6. CASE one
  BY <1>1, <1>4, <1>5, <1>6
<1>7. CASE ~one
  BY <1>1, <1>7
<1> QED
  BY <1>6, <1>7

\* setRowId settles the rowid field, changes nothing else, and nothing at all if
\* it is settled.
LEMMA SetRowIdIs ==
    ASSUME NEW tab, Shape(tab)
    PROVE  LET new == SetRowId(tab) IN
           /\ Shape(new) /\ Settled(new) /\ new.fields = tab.fields
           /\ new.withoutRowId = tab.withoutRowId /\ new.autoIncrement = tab.autoIncrement
           /\ new.fks = tab.fks /\ new.indexes = tab.indexes /\ new.models = tab.models
           /\ Settled(tab) => new = tab
<1> DEFINE new == SetRowId(tab)
           r == RowIdAlias(tab)
           a == IF tab.autoIncrement = TRUE THEN r ELSE Undef
<1>1. new = [tab EXCEPT !.rowIdField = r, !.autoIncrementField = a]
  BY DEF SetRowId
<1> HIDE DEF r, new
<1>2. /\ new.fields = tab.fields /\ new.rowIdField = r /\ new.autoIncrementField = a
      /\ new.withoutRowId = tab.withoutRowId /\ new.autoIncrement = tab.autoIncrement
      /\ new.fks = tab.fks /\ new.indexes = tab.indexes /\ new.models = tab.models
  BY <1>1 DEF Shape
<1>3. new = [registered |-> TRUE, withoutRowId |-> tab.withoutRowId,
              autoIncrement |-> tab.autoIncrement, fields |-> tab.fields,
              rowIdField |-> r, autoIncrementField |-> a,
              fks |-> tab.fks, indexes |-> tab.indexes, models |-> tab.models]
  <2> HIDE DEF a
  <2>1. tab = [registered |-> TRUE, withoutRowId |-> tab.withoutRowId,
               autoIncrement |-> tab.autoIncrement, fields |-> tab.fields,
               rowIdField |-> tab.rowIdField, autoIncrementField |-> tab.autoIncrementField,
               fks |-> tab.fks, indexes |-> tab.indexes, models |-> tab.models]
    BY DEF Shape
  <2>2. DOMAIN new = {"registered", "withoutRowId", "autoIncrement", "fields", "rowIdField",
                      "autoIncrementField", "fks", "indexes", "models"}
        /\ new = [n \in DOMAIN new |-> new[n]]
    BY <1>1, <2>1
  <2>3. new.registered = TRUE
    BY <1>1, <2>1
  <2> HIDE DEF r
  <2> QED
    BY <1>2, <2>2, <2>3
<1>4. Shape(new)
  BY <1>2, <1>3 DEF Shape
<1>5. RowIdAlias(new) = r
  <2>1. IdentityFields(new) = IdentityFields(tab)
    BY <1>2 DEF IdentityFields
  <2> QED
    BY <1>2, <2>1, SameAlias DEF r
<1>6. Settled(new)
  BY <1>2, <1>5 DEF Settled
<1>7. ASSUME Settled(tab) PROVE new = tab
  <2>1. tab.rowIdField = r /\ tab.autoIncrementField = a
    BY <1>7 DEF Settled, r
  <2> QED
    BY <1>2, <1>3, <2>1 DEF Shape
<1> QED
  BY <1>2, <1>4, <1>6, <1>7 DEF new

\* A record with the parts of a table.
Parts == {"registered", "withoutRowId", "autoIncrement", "fields", "rowIdField",
          "autoIncrementField", "fks", "indexes", "models"}
LEMMA PartsOfTable ==
    ASSUME NEW tab, DOMAIN tab = Parts, tab = [n \in DOMAIN tab |-> tab[n]],
           tab.registered = TRUE
    PROVE  tab = [registered |-> TRUE, withoutRowId |-> tab.withoutRowId,
                  autoIncrement |-> tab.autoIncrement, fields |-> tab.fields,
                  rowIdField |-> tab.rowIdField,
                  autoIncrementField |-> tab.autoIncrementField,
                  fks |-> tab.fks, indexes |-> tab.indexes, models |-> tab.models]
BY DEF Parts

\* A registered table is such a record,
LEMMA ShapeFrom ==
    ASSUME NEW tab, DOMAIN tab = Parts, tab = [n \in DOMAIN tab |-> tab[n]],
           tab.registered = TRUE, tab.fields \in [Cols -> Opt(Field)],
           tab.fks = [n \in ConstraintNames |-> tab.fks[n]],
           tab.indexes = [n \in ConstraintNames |-> tab.indexes[n]]
    PROVE  Shape(tab)
<1>1. tab = [registered |-> TRUE, withoutRowId |-> tab.withoutRowId,
             autoIncrement |-> tab.autoIncrement, fields |-> tab.fields,
             rowIdField |-> tab.rowIdField, autoIncrementField |-> tab.autoIncrementField,
             fks |-> tab.fks, indexes |-> tab.indexes, models |-> tab.models]
  BY PartsOfTable
<1> QED
  BY <1>1, Zenon DEF Shape

\* and the other way round.
LEMMA ShapeParts ==
    ASSUME NEW tab, Shape(tab)
    PROVE  DOMAIN tab = Parts /\ tab = [n \in DOMAIN tab |-> tab[n]] /\ tab.registered = TRUE
<1>1. tab = [registered |-> TRUE, withoutRowId |-> tab.withoutRowId,
             autoIncrement |-> tab.autoIncrement, fields |-> tab.fields,
             rowIdField |-> tab.rowIdField, autoIncrementField |-> tab.autoIncrementField,
             fks |-> tab.fks, indexes |-> tab.indexes, models |-> tab.models]
  BY DEF Shape
<1> QED
  BY <1>1 DEF Parts

\* What settles the rowid field of a table, besides its constraints.
LEMMA SettledAlso ==
    ASSUME NEW x, NEW y, Settled(x),
           x.withoutRowId = y.withoutRowId, x.autoIncrement = y.autoIncrement,
           x.rowIdField = y.rowIdField, x.autoIncrementField = y.autoIncrementField,
           IdentityFields(x) = IdentityFields(y),
           \A c \in IdentityFields(x) : TypeAffinity(x.fields[c]) = TypeAffinity(y.fields[c])
    PROVE  Settled(y)
<1>1. RowIdAlias(x) = RowIdAlias(y)
  BY SameAlias
<1> QED
  BY <1>1 DEF Settled

\* What getOrAddTableField makes of the field of a property.
Given(tab, p) ==
    LET f == tab.fields[p.col]
    IN IF f = Undef THEN NewField(p)
       ELSE IF f.isIdentity # p.isIdentity THEN f ELSE Merged(FieldOptions, f, p)

\* It is what the field was, with what the property adds. A type that can be a
\* rowid is only lost where a key gives a type and fails.
LEMMA GivenIs ==
    ASSUME NEW tab, Shape(tab), NEW p \in Property
    PROVE  LET f == tab.fields[p.col]
               g == Given(tab, p)
           IN /\ f \in Opt(Field) /\ g \in Field /\ g # Undef
              /\ f # Undef => f \in Field /\ FieldStands(f, g)
              /\ ~AddFails(tab, p) => Agrees(p, g)
              /\ f # Undef /\ (AddFails(tab, p) => ~(p.isIdentity /\ p.dbtype # Undef)) =>
                    (g.isIdentity /\ ~(p.isIdentity /\ ~AddFails(tab, p))
                        => TypeAffinity(g) = TypeAffinity(f))
<1> DEFINE f == tab.fields[p.col]
           g == Given(tab, p)
<1>1. p.col \in Cols
  BY DEF Property
<1>2. f \in Opt(Field)
  BY <1>1 DEF Shape
<1>3. Undef \notin Field
  BY UndefAssumption
<1>4. CASE f = Undef
  <2>1. g = NewField(p)
    BY <1>4 DEF Given
  <2>2. g \in Field /\ Agrees(p, g)
    BY <2>1, NewFieldIs
  <2> QED
    BY <1>2, <1>3, <1>4, <2>2
<1>5. CASE f # Undef /\ f.isIdentity # p.isIdentity
  <2>1. g = f /\ AddFails(tab, p)
    BY <1>5 DEF Given, AddFails
  <2>2. f \in Field /\ FieldStands(f, f)
    BY <1>2, <1>5 DEF Opt, FieldStands, Stands
  <2> HIDE DEF f, g
  <2> QED
    BY <1>2, <1>3, <2>1, <2>2 DEF f, g
<1>6. CASE f # Undef /\ f.isIdentity = p.isIdentity
  <2>1. f \in Field
    BY <1>2, <1>6 DEF Opt
  <2>2. g = Merged(FieldOptions, f, p) /\ (AddFails(tab, p) <=> MergeFails(FieldOptions, f, p))
    BY <1>6 DEF Given, AddFails
  <2>3. /\ g \in Field /\ FieldStands(f, g)
        /\ p.dbtype = Undef => g.dbtype = f.dbtype
        /\ ~AddFails(tab, p) => Agrees(p, g)
    <3> HIDE DEF f, g
    <3> QED
      BY <1>6, <2>1, <2>2, FieldMerged
  <2>4. p.dbtype = Undef => TypeAffinity(g) = TypeAffinity(f)
    BY <2>3 DEF TypeAffinity, FieldStands
  <2>5. g.isIdentity = p.isIdentity
    BY <1>6, <2>3 DEF FieldStands
  <2> HIDE DEF f, g
  <2> QED
    BY <1>2, <1>3, <1>6, <2>1, <2>3, <2>4, <2>5 DEF f, g
<1> QED
  BY <1>4, <1>5, <1>6

\* A property adds its field to a table, or adds to it, and takes nothing away.
\* Unless it fails for a key whose type it gives, the rowid field stays settled.
LEMMA FieldAdded ==
    ASSUME NEW tab, Shape(tab), NEW p \in Property
    PROVE  LET new == AddField(tab, p) IN
           /\ Shape(new) /\ Extends(tab, new) /\ new.models = tab.models
           /\ ~AddFails(tab, p) => Maps(new, p)
           /\ ~AddFails(tab, p) /\ p.isIdentity => Settled(new)
           /\ Settled(tab) /\ (AddFails(tab, p) => ~(p.isIdentity /\ p.dbtype # Undef))
                 => Settled(new)
<1> DEFINE f == tab.fields[p.col]
           g == Given(tab, p)
           mid == [tab EXCEPT !.fields[p.col] = g]
           fits == AddFails(tab, p) => ~(p.isIdentity /\ p.dbtype # Undef)
           new == AddField(tab, p)
<1>1. p.col \in Cols
  BY DEF Property
<1>2. /\ f \in Opt(Field) /\ g \in Field /\ g # Undef
      /\ f # Undef => f \in Field /\ FieldStands(f, g)
      /\ ~AddFails(tab, p) => Agrees(p, g)
      /\ f # Undef /\ fits =>
            (g.isIdentity /\ ~(p.isIdentity /\ ~AddFails(tab, p))
                => TypeAffinity(g) = TypeAffinity(f))
  BY GivenIs
<1>3. new = IF g.isIdentity /\ ~AddFails(tab, p) THEN SetRowId(mid) ELSE mid
  BY DEF AddField, Given
<1> HIDE DEF g, new
<1>4. /\ mid.fields = [tab.fields EXCEPT ![p.col] = g] /\ mid.models = tab.models
      /\ mid.withoutRowId = tab.withoutRowId /\ mid.autoIncrement = tab.autoIncrement
      /\ mid.rowIdField = tab.rowIdField /\ mid.autoIncrementField = tab.autoIncrementField
      /\ mid.fks = tab.fks /\ mid.indexes = tab.indexes
  BY DEF Shape
<1>5. mid.fields \in [Cols -> Opt(Field)]
  BY <1>1, <1>2, <1>4 DEF Shape, Opt
<1>6. DOMAIN mid = Parts /\ mid = [n \in DOMAIN mid |-> mid[n]] /\ mid.registered = TRUE
  BY ShapeParts DEF Parts
<1>7. /\ mid.fields[p.col] = g
      /\ \A c \in Cols : c # p.col => mid.fields[c] = tab.fields[c]
  BY <1>1, <1>4 DEF Shape
<1> HIDE DEF mid
<1>8. Shape(mid)
  <2>1. /\ mid.fks = [n \in ConstraintNames |-> mid.fks[n]]
        /\ mid.indexes = [n \in ConstraintNames |-> mid.indexes[n]]
    BY <1>4 DEF Shape
  <2> QED
    BY <1>5, <1>6, <2>1, ShapeFrom
<1>9. Extends(tab, mid)
  BY <1>2, <1>4, <1>7 DEF Extends, FieldStands, Stands
<1>10. ~AddFails(tab, p) => Maps(mid, p)
  BY <1>2, <1>7 DEF Maps
<1>11. ASSUME Settled(tab), fits, ~(g.isIdentity /\ ~AddFails(tab, p)) PROVE Settled(mid)
  <2>1. ~(p.isIdentity /\ ~AddFails(tab, p))
    BY <1>2, <1>11 DEF Agrees
  <2>2. f # Undef /\ g.isIdentity => TypeAffinity(g) = TypeAffinity(f)
    BY <1>2, <1>11, <2>1
  <2>3. f = Undef => ~g.isIdentity
    BY <1>11 DEF AddFails
  <2>4. f # Undef => f.isIdentity = g.isIdentity
    BY <1>2 DEF FieldStands
  <2>5. \A c \in Cols : c \in IdentityFields(tab) <=> c \in IdentityFields(mid)
    BY <1>2, <1>7, <2>3, <2>4 DEF IdentityFields
  <2>6. IdentityFields(tab) = IdentityFields(mid)
    BY <2>5 DEF IdentityFields
  <2>7. \A c \in IdentityFields(tab) :
            TypeAffinity(tab.fields[c]) = TypeAffinity(mid.fields[c])
    <3> SUFFICES ASSUME NEW c \in IdentityFields(tab)
                 PROVE  TypeAffinity(tab.fields[c]) = TypeAffinity(mid.fields[c])
      OBVIOUS
    <3>1. c \in Cols /\ tab.fields[c] # Undef /\ tab.fields[c].isIdentity
      BY DEF IdentityFields
    <3>2. CASE c = p.col
      BY <1>7, <2>2, <2>4, <3>1, <3>2
    <3>3. CASE c # p.col
      BY <1>7, <3>1, <3>3
    <3> QED
      BY <3>2, <3>3
  <2> QED
    BY <1>4, <1>11, <2>6, <2>7, SettledAlso
<1>12. CASE g.isIdentity /\ ~AddFails(tab, p)
  <2>1. new = SetRowId(mid)
    BY <1>3, <1>12
  <2>2. /\ Shape(new) /\ Settled(new) /\ new.fields = mid.fields
        /\ new.withoutRowId = mid.withoutRowId /\ new.autoIncrement = mid.autoIncrement
        /\ new.fks = mid.fks /\ new.indexes = mid.indexes /\ new.models = mid.models
    BY <1>8, <2>1, SetRowIdIs
  <2>3. Extends(tab, new)
    BY <1>9, <2>2 DEF Extends
  <2>4. Maps(new, p)
    BY <1>10, <1>12, <2>2 DEF Maps
  <2> QED
    BY <1>4, <2>2, <2>3, <2>4 DEF new
<1>13. CASE ~(g.isIdentity /\ ~AddFails(tab, p))
  <2>1. new = mid
    BY <1>3, <1>13
  <2>2. ~(p.isIdentity /\ ~AddFails(tab, p))
    BY <1>2, <1>13 DEF Agrees
  <2> QED
    BY <1>4, <1>8, <1>9, <1>10, <1>11, <1>13, <2>1, <2>2 DEF new
<1> QED
  BY <1>12, <1>13

\* An index or a foreign key adds to a table and leaves the rest as it is.
Besides(x, y) ==
    /\ Shape(y) /\ Extends(x, y) /\ y.models = x.models
    /\ y.withoutRowId = x.withoutRowId /\ y.autoIncrement = x.autoIncrement
    /\ y.fields = x.fields /\ y.rowIdField = x.rowIdField
    /\ y.autoIncrementField = x.autoIncrementField

\* It leaves the rowid field settled.
LEMMA BesidesSettled ==
    ASSUME NEW x, NEW y, Besides(x, y), Settled(x)
    PROVE  Settled(y)
<1>1. IdentityFields(x) = IdentityFields(y)
  BY DEF Besides, IdentityFields
<1>2. \A c \in IdentityFields(x) : TypeAffinity(x.fields[c]) = TypeAffinity(y.fields[c])
  BY DEF Besides
<1>3. /\ x.withoutRowId = y.withoutRowId /\ x.autoIncrement = y.autoIncrement
      /\ x.rowIdField = y.rowIdField /\ x.autoIncrementField = y.autoIncrementField
  BY DEF Besides
<1> QED
  BY <1>1, <1>2, <1>3, SettledAlso

\* So does nothing.
LEMMA BesidesItself == ASSUME NEW x, Shape(x) PROVE Besides(x, x)
BY ExtendsItself DEF Besides

\* addIDXDefinition adds an index to a table.
LEMMA IndexAdded ==
    ASSUME NEW tab, Shape(tab), NEW n \in ConstraintNames, tab.indexes[n] = Undef, NEW v
    PROVE  LET new == [tab EXCEPT !.indexes[n] = v] IN
           Besides(tab, new) /\ new.indexes[n] = v
<1> DEFINE new == [tab EXCEPT !.indexes[n] = v]
<1>1. /\ new.indexes = [tab.indexes EXCEPT ![n] = v] /\ new.models = tab.models
      /\ new.withoutRowId = tab.withoutRowId /\ new.autoIncrement = tab.autoIncrement
      /\ new.rowIdField = tab.rowIdField /\ new.autoIncrementField = tab.autoIncrementField
      /\ new.fks = tab.fks /\ new.fields = tab.fields
  BY DEF Shape
<1>2. DOMAIN new = Parts /\ new = [i \in DOMAIN new |-> new[i]] /\ new.registered = TRUE
  BY ShapeParts DEF Parts
<1> HIDE DEF new
<1>3. /\ new.indexes = [i \in ConstraintNames |-> new.indexes[i]]
      /\ new.indexes[n] = v
      /\ \A i \in ConstraintNames : i # n => new.indexes[i] = tab.indexes[i]
  BY <1>1 DEF Shape
<1>4. Shape(new)
  <2>1. /\ new.fields \in [Cols -> Opt(Field)]
        /\ new.fks = [i \in ConstraintNames |-> new.fks[i]]
    BY <1>1 DEF Shape
  <2> QED
    BY <1>2, <1>3, <2>1, ShapeFrom
<1>5. Extends(tab, new)
  BY <1>1, <1>3 DEF Extends, FieldStands, Stands
<1> QED
  BY <1>1, <1>3, <1>4, <1>5 DEF Besides, new

\* addFKDefinition adds a foreign key.
LEMMA FKAdded ==
    ASSUME NEW tab, Shape(tab), NEW n \in ConstraintNames, tab.fks[n] = Undef, NEW v
    PROVE  LET new == [tab EXCEPT !.fks[n] = v] IN
           Besides(tab, new) /\ new.fks[n] = v
<1> DEFINE new == [tab EXCEPT !.fks[n] = v]
<1>1. /\ new.fks = [tab.fks EXCEPT ![n] = v] /\ new.models = tab.models
      /\ new.withoutRowId = tab.withoutRowId /\ new.autoIncrement = tab.autoIncrement
      /\ new.rowIdField = tab.rowIdField /\ new.autoIncrementField = tab.autoIncrementField
      /\ new.indexes = tab.indexes /\ new.fields = tab.fields
  BY DEF Shape
<1>2. DOMAIN new = Parts /\ new = [i \in DOMAIN new |-> new[i]] /\ new.registered = TRUE
  BY ShapeParts DEF Parts
<1> HIDE DEF new
<1>3. /\ new.fks = [i \in ConstraintNames |-> new.fks[i]]
      /\ new.fks[n] = v
      /\ \A i \in ConstraintNames : i # n => new.fks[i] = tab.fks[i]
  BY <1>1 DEF Shape
<1>4. Shape(new)
  <2>1. /\ new.fields \in [Cols -> Opt(Field)]
        /\ new.indexes = [i \in ConstraintNames |-> new.indexes[i]]
    BY <1>1 DEF Shape
  <2> QED
    BY <1>2, <1>3, <2>1, ShapeFrom
<1>5. Extends(tab, new)
  BY <1>1, <1>3 DEF Extends, FieldStands, Stands
<1> QED
  BY <1>1, <1>3, <1>4, <1>5 DEF Besides, new

-----------------------------------------------------------------------------
\* The initialisation of a class

\* What is in the table once the first k steps of initialising a class have been
\* done.
Holds(d, k, tab) ==
    LET n == Len(d.props) IN
    /\ d.withoutRowId \in {Undef, tab.withoutRowId}
    /\ d.autoIncrement \in {Undef, tab.autoIncrement}
    /\ \A j \in 1..n : LET p == d.props[j] IN
          /\ j <= k => Maps(tab, p)
          /\ n + j <= k /\ p.index # Undef =>
                tab.indexes[p.index.name] = IDXDefinition(d, p.index.name)
          /\ 2 * n + j <= k /\ p.fk # Undef =>
                tab.fks[p.fk.name] = FKDefinition(d, p.fk.name)

\* What a class may declare.
LEMMA Declared ==
    ASSUME NEW d \in Declarations
    PROVE  /\ d \in Declaration /\ Len(d.props) \in Nat
           /\ \A j \in 1..Len(d.props) :
                 /\ d.props[j] \in Property /\ d.props[j] \in PropsOf(d)
                 /\ d.props[j].index # Undef =>
                       /\ d.props[j].index.name \in ConstraintNames
                       /\ IDXDefinition(d, d.props[j].index.name) # Undef
                 /\ d.props[j].fk # Undef =>
                       /\ d.props[j].fk.name \in ConstraintNames
                       /\ FKDefinition(d, d.props[j].fk.name) # Undef
<1>1. d \in Declaration
  BY RegistryAssumption
<1>2. d.props \in Seq(Property)
  BY <1>1 DEF Declaration
<1>3. Len(d.props) \in Nat /\ \A j \in 1..Len(d.props) : d.props[j] \in Property
  BY <1>2
<1>4. \A j \in 1..Len(d.props) : d.props[j] \in PropsOf(d)
  BY DEF PropsOf
<1>5. \A p \in Property : /\ p.index # Undef => p.index.name \in ConstraintNames
                          /\ p.fk # Undef => p.fk.name \in ConstraintNames
  BY DEF Property, Opt
<1> QED
  BY <1>1, <1>3, <1>4, <1>5, UndefAssumption

\* What is in a table stays, whatever is added.
LEMMA HoldsStill ==
    ASSUME NEW d \in Declarations, NEW k \in Nat, NEW x, NEW y, Extends(x, y), Holds(d, k, x)
    PROVE  Holds(d, k, y)
<1> DEFINE n == Len(d.props)
<1>1. d.withoutRowId \in {Undef, y.withoutRowId} /\ d.autoIncrement \in {Undef, y.autoIncrement}
  BY DEF Holds, Extends, Stands
<1>2. ASSUME NEW j \in 1..n
      PROVE  LET p == d.props[j] IN
             /\ j <= k => Maps(y, p)
             /\ n + j <= k /\ p.index # Undef =>
                   y.indexes[p.index.name] = IDXDefinition(d, p.index.name)
             /\ 2 * n + j <= k /\ p.fk # Undef =>
                   y.fks[p.fk.name] = FKDefinition(d, p.fk.name)
  <2> DEFINE p == d.props[j]
  <2>1. /\ p \in Property
        /\ p.index # Undef =>
              p.index.name \in ConstraintNames /\ IDXDefinition(d, p.index.name) # Undef
        /\ p.fk # Undef =>
              p.fk.name \in ConstraintNames /\ FKDefinition(d, p.fk.name) # Undef
    BY Declared
  <2>2. /\ j <= k => Maps(x, p)
        /\ n + j <= k /\ p.index # Undef =>
              x.indexes[p.index.name] = IDXDefinition(d, p.index.name)
        /\ 2 * n + j <= k /\ p.fk # Undef =>
              x.fks[p.fk.name] = FKDefinition(d, p.fk.name)
    BY DEF Holds
  <2>3. \A i \in ConstraintNames : /\ Stands(x.fks[i], y.fks[i])
                                   /\ Stands(x.indexes[i], y.indexes[i])
    BY DEF Extends
  <2> HIDE DEF p, n
  <2>4. j <= k => Maps(y, p)
    BY <2>1, <2>2, AgreesStill
  <2>5. n + j <= k /\ p.index # Undef =>
            y.indexes[p.index.name] = IDXDefinition(d, p.index.name)
    BY <2>1, <2>2, <2>3 DEF Stands
  <2>6. 2 * n + j <= k /\ p.fk # Undef =>
            y.fks[p.fk.name] = FKDefinition(d, p.fk.name)
    BY <2>1, <2>2, <2>3 DEF Stands
  <2> QED
    BY <2>4, <2>5, <2>6 DEF p, n
<1> QED
  BY <1>1, <1>2 DEF Holds

\* What decides about the rowid: the options of a table, keys that give a type,
\* and whether a key has been gone over in k steps.
NoOption(d) == d.withoutRowId = Undef /\ d.autoIncrement = Undef
TypedKey(p) == p.isIdentity /\ p.dbtype # Undef
KeySeen(d, k) == \E j \in 1..Len(d.props) : j <= k /\ d.props[j].isIdentity

\* Where k steps of initialising the class of d bring a table that was old.
Reached(d, old, k, acc) ==
    /\ Shape(acc.tab) /\ Extends(old, acc.tab) /\ acc.tab.models = old.models
    /\ acc.ok => Holds(d, k, acc.tab)
    /\ acc.ok /\ KeySeen(d, k) => Settled(acc.tab)
    /\ Settled(old) /\ NoOption(d) /\ (acc.ok \/ \A p \in PropsOf(d) : ~TypedKey(p))
          => Settled(acc.tab)

\* The table a definition begins with.
OldTable(d) == IF d.name \in Registered THEN tables[d.name] ELSE NewTable

\* getOrAddTable is where the initialisation starts.
LEMMA Start ==
    ASSUME NEW d \in Declarations, Shape(OldTable(d))
    PROVE  Reached(d, OldTable(d), 0, GetOrAddTable(d))
<1> DEFINE old == OldTable(d)
           acc == GetOrAddTable(d)
           n == Len(d.props)
<1>1. acc = [ok |-> ~MergeFails(TableOptions, old, d), tab |-> Merged(TableOptions, old, d)]
  BY DEF GetOrAddTable, OldTable
<1>2. d \in Declaration /\ n \in Nat
  BY Declared
<1> HIDE DEF acc
<1>3. acc.tab = Merged(TableOptions, old, d) /\ (acc.ok <=> ~MergeFails(TableOptions, old, d))
  BY <1>1
<1> HIDE DEF old
<1>4. LET new == acc.tab IN
      /\ Shape(new) /\ Extends(old, new) /\ new.models = old.models
      /\ new.fields = old.fields /\ new.rowIdField = old.rowIdField
      /\ new.autoIncrementField = old.autoIncrementField
      /\ d.withoutRowId = Undef => new.withoutRowId = old.withoutRowId
      /\ d.autoIncrement = Undef => new.autoIncrement = old.autoIncrement
      /\ acc.ok => /\ d.withoutRowId \in {Undef, new.withoutRowId}
                   /\ d.autoIncrement \in {Undef, new.autoIncrement}
  BY <1>2, <1>3, TableMerged DEF old
<1>5. \A j \in 1..n : ~(j <= 0) /\ ~(n + j <= 0) /\ ~(2 * n + j <= 0)
  BY <1>2
<1>6. acc.ok => Holds(d, 0, acc.tab)
  BY <1>4, <1>5 DEF Holds
<1>7. ~KeySeen(d, 0)
  BY <1>5 DEF KeySeen
<1>8. ASSUME Settled(old), NoOption(d) PROVE Settled(acc.tab)
  <2>1. IdentityFields(old) = IdentityFields(acc.tab)
    BY <1>4 DEF IdentityFields
  <2>2. /\ old.withoutRowId = acc.tab.withoutRowId /\ old.autoIncrement = acc.tab.autoIncrement
        /\ old.rowIdField = acc.tab.rowIdField
        /\ old.autoIncrementField = acc.tab.autoIncrementField
        /\ \A c \in IdentityFields(old) :
              TypeAffinity(old.fields[c]) = TypeAffinity(acc.tab.fields[c])
    BY <1>4, <1>8 DEF NoOption
  <2> QED
    BY <1>8, <2>1, <2>2, SettledAlso
<1> QED
  BY <1>4, <1>6, <1>7, <1>8 DEF Reached, acc, old

\* A step that only adds a constraint.
LEMMA ConstraintStep ==
    ASSUME NEW d \in Declarations, NEW old, NEW k \in Nat, k > Len(d.props), NEW acc, NEW new,
           Reached(d, old, k - 1, acc), acc.ok, Besides(acc.tab, new.tab),
           new.ok => Holds(d, k, new.tab)
    PROVE  Reached(d, old, k, new)
<1>1. /\ Shape(acc.tab) /\ Extends(old, acc.tab) /\ acc.tab.models = old.models
      /\ KeySeen(d, k - 1) => Settled(acc.tab)
      /\ Settled(old) /\ NoOption(d) => Settled(acc.tab)
  BY DEF Reached
<1>2. Shape(new.tab) /\ Extends(acc.tab, new.tab) /\ new.tab.models = acc.tab.models
  BY DEF Besides
<1>3. Extends(old, new.tab)
  BY <1>1, <1>2, ExtendsTransitive
<1>4. Settled(acc.tab) => Settled(new.tab)
  BY BesidesSettled
<1>5. KeySeen(d, k) => KeySeen(d, k - 1)
  <2>1. Len(d.props) \in Nat
    BY Declared
  <2>2. \A j \in 1..Len(d.props) : j <= k - 1
    BY <2>1
  <2> QED
    BY <2>2 DEF KeySeen
<1> QED
  BY <1>1, <1>2, <1>3, <1>4, <1>5 DEF Reached

\* Nothing is done any more once a step has failed.
LEMMA FailedStep ==
    ASSUME NEW d, NEW old, NEW k, NEW acc, Reached(d, old, k - 1, acc), ~acc.ok
    PROVE  InitStep(d, acc, k) = acc /\ Reached(d, old, k, acc)
<1>1. InitStep(d, acc, k) = acc
  BY DEF InitStep, Step, AddIndex, AddFK
<1>2. Reached(d, old, k, acc)
  BY DEF Reached
<1> QED
  BY <1>1, <1>2

\* A step that goes over the field of a property.
LEMMA FieldStep ==
    ASSUME NEW d \in Declarations, NEW old, NEW k \in 1..Len(d.props), NEW acc,
           Reached(d, old, k - 1, acc), acc.ok
    PROVE  Reached(d, old, k, InitStep(d, acc, k))
<1> DEFINE n == Len(d.props)
           p == d.props[k]
           tab == acc.tab
           new == AddField(tab, p)
           next == InitStep(d, acc, k)
           ok == ~AddFails(tab, p) /\ ~LocalClash(d, k)
<1>1. n \in Nat /\ k <= n /\ p \in Property /\ p \in PropsOf(d)
  BY Declared
<1>2. next = [ok |-> ok, tab |-> new]
  BY <1>1 DEF InitStep, Step
<1> HIDE DEF next
<1>3. next.tab = new /\ (next.ok <=> ok)
  BY <1>2
<1>4. /\ Shape(tab) /\ Extends(old, tab) /\ tab.models = old.models /\ Holds(d, k - 1, tab)
      /\ KeySeen(d, k - 1) => Settled(tab)
      /\ Settled(old) /\ NoOption(d) => Settled(tab)
  BY DEF Reached
<1>5. /\ Shape(new) /\ Extends(tab, new) /\ new.models = tab.models
      /\ ~AddFails(tab, p) => Maps(new, p)
      /\ ~AddFails(tab, p) /\ p.isIdentity => Settled(new)
      /\ Settled(tab) /\ (AddFails(tab, p) => ~(p.isIdentity /\ p.dbtype # Undef))
            => Settled(new)
  <2> HIDE DEF tab, p
  <2> QED
    BY <1>1, <1>4, FieldAdded
<1> HIDE DEF new, ok
<1>6. Extends(old, new)
  BY <1>4, <1>5, ExtendsTransitive
<1>7. ok => ~AddFails(tab, p)
  BY DEF ok
<1>8. ok => Holds(d, k, new)
  <2>1. k - 1 \in Nat
    OBVIOUS
  <2>2. Holds(d, k - 1, new)
    BY <1>4, <1>5, <2>1, HoldsStill
  <2>3. \A j \in 1..n : /\ j <= k => j <= k - 1 \/ j = k
                        /\ ~(n + j <= k) /\ ~(2 * n + j <= k)
    BY <1>1
  <2>4. ok => Maps(new, p)
    BY <1>5, <1>7
  <2> HIDE DEF tab
  <2> QED
    BY <2>2, <2>3, <2>4 DEF Holds
<1>9. ok /\ KeySeen(d, k) => Settled(new)
  <2>1. KeySeen(d, k) => KeySeen(d, k - 1) \/ p.isIdentity
    <3>1. \A j \in 1..n : j <= k => j <= k - 1 \/ j = k
      BY <1>1
    <3> QED
      BY <3>1 DEF KeySeen
  <2> HIDE DEF tab, p
  <2> QED
    BY <1>4, <1>5, <1>7, <2>1
<1>10. Settled(old) /\ NoOption(d) /\ (ok \/ \A q \in PropsOf(d) : ~TypedKey(q))
          => Settled(new)
  <2> HIDE DEF tab, p
  <2> QED
    BY <1>1, <1>4, <1>5, <1>7 DEF TypedKey
<1> HIDE DEF tab, p
<1> QED
  BY <1>3, <1>4, <1>5, <1>6, <1>8, <1>9, <1>10 DEF Reached, next, tab

\* What the steps before hold, and the constraint of the last.
LEMMA HoldsNext ==
    ASSUME NEW d \in Declarations, NEW k \in 1..InitLen(d), k > Len(d.props),
           NEW tab, Holds(d, k - 1, tab),
           k <= 2 * Len(d.props) => LET p == d.props[k - Len(d.props)] IN
               p.index # Undef => tab.indexes[p.index.name] = IDXDefinition(d, p.index.name),
           k > 2 * Len(d.props) => LET p == d.props[k - 2 * Len(d.props)] IN
               p.fk # Undef => tab.fks[p.fk.name] = FKDefinition(d, p.fk.name)
    PROVE  Holds(d, k, tab)
<1> DEFINE n == Len(d.props)
<1>1. n \in Nat /\ k \in Nat
  BY Declared DEF InitLen
<1>2. ASSUME NEW j \in 1..n
      PROVE  LET p == d.props[j] IN
             /\ j <= k => Maps(tab, p)
             /\ n + j <= k /\ p.index # Undef =>
                   tab.indexes[p.index.name] = IDXDefinition(d, p.index.name)
             /\ 2 * n + j <= k /\ p.fk # Undef =>
                   tab.fks[p.fk.name] = FKDefinition(d, p.fk.name)
  <2> DEFINE p == d.props[j]
  <2>1. /\ j <= k - 1 => Maps(tab, p)
        /\ n + j <= k - 1 /\ p.index # Undef =>
              tab.indexes[p.index.name] = IDXDefinition(d, p.index.name)
        /\ 2 * n + j <= k - 1 /\ p.fk # Undef =>
              tab.fks[p.fk.name] = FKDefinition(d, p.fk.name)
    BY DEF Holds
  <2>2. j <= k - 1
    BY <1>1
  <2>3. n + j <= k => n + j <= k - 1 \/ (k <= 2 * n /\ k - n = j)
    BY <1>1
  <2>4. 2 * n + j <= k => 2 * n + j <= k - 1 \/ (k > 2 * n /\ k - 2 * n = j)
    BY <1>1
  <2>5. k <= 2 * n /\ k - n = j /\ p.index # Undef =>
            tab.indexes[p.index.name] = IDXDefinition(d, p.index.name)
    OBVIOUS
  <2>6. k > 2 * n /\ k - 2 * n = j /\ p.fk # Undef =>
            tab.fks[p.fk.name] = FKDefinition(d, p.fk.name)
    OBVIOUS
  <2> HIDE DEF p, n
  <2> QED
    BY <2>1, <2>2, <2>3, <2>4, <2>5, <2>6 DEF p
<1>3. d.withoutRowId \in {Undef, tab.withoutRowId} /\ d.autoIncrement \in {Undef, tab.autoIncrement}
  BY DEF Holds
<1> QED
  BY <1>2, <1>3 DEF Holds

\* A step that goes over the index of a property.
LEMMA IndexStep ==
    ASSUME NEW d \in Declarations, NEW old, NEW k \in 1..InitLen(d), NEW acc,
           k > Len(d.props), k <= 2 * Len(d.props),
           Reached(d, old, k - 1, acc), acc.ok
    PROVE  Reached(d, old, k, InitStep(d, acc, k))
<1> DEFINE n == Len(d.props)
           j == k - n
           p == d.props[j]
           tab == acc.tab
           i == p.index.name
           v == IDXDefinition(d, i)
           new == InitStep(d, acc, k)
<1>1. n \in Nat /\ k \in Nat /\ k - 1 \in Nat /\ j \in 1..n /\ ~(k <= n)
  BY Declared DEF InitLen
<1>2. p.index # Undef => i \in ConstraintNames /\ v # Undef
  BY <1>1, Declared
<1>3. new = AddIndex(d, acc, p)
  BY <1>1 DEF InitStep
<1>4. Shape(tab) /\ Holds(d, k - 1, tab)
  BY DEF Reached
<1>5. Besides(acc.tab, new.tab)
      /\ (new.ok => (p.index # Undef => new.tab.indexes[i] = v))
  <2>1. CASE p.index = Undef
    <3>1. new = acc
      BY <1>3, <2>1 DEF AddIndex
    <3> QED
      BY <1>4, <2>1, <3>1, BesidesItself
  <2>2. CASE p.index # Undef
    <3> DEFINE to == IF tab.indexes[i] = Undef THEN [tab EXCEPT !.indexes[i] = v] ELSE tab
               ok == tab.indexes[i] \in {Undef, v}
    <3>1. new = [ok |-> ok, tab |-> to]
      BY <1>3, <2>2 DEF AddIndex, Step
    <3>2. CASE tab.indexes[i] = Undef
      <4>1. to = [tab EXCEPT !.indexes[i] = v]
        BY <3>2
      <4>2. Besides(tab, to) /\ to.indexes[i] = v
        <5> HIDE DEF tab, i, v, to
        <5> QED
          BY <1>2, <1>4, <2>2, <3>2, <4>1, IndexAdded
      <4> HIDE DEF new, to, ok
      <4> QED
        BY <3>1, <4>2
    <3>3. CASE tab.indexes[i] # Undef
      <4>1. to = tab /\ (ok => to.indexes[i] = v)
        BY <3>3
      <4>2. Besides(tab, tab)
        BY <1>4, BesidesItself
      <4> HIDE DEF new, to, ok
      <4> QED
        BY <3>1, <4>1, <4>2
    <3> QED
      BY <3>2, <3>3
  <2> QED
    BY <2>1, <2>2
<1>6. new.ok => Holds(d, k, new.tab)
  <2> SUFFICES ASSUME new.ok PROVE Holds(d, k, new.tab)
    OBVIOUS
  <2>1. Holds(d, k - 1, new.tab)
    BY <1>1, <1>4, <1>5, HoldsStill DEF Besides
  <2>2. ~(k > 2 * n)
    BY <1>1
  <2> HIDE DEF new
  <2> QED
    BY <1>5, <2>1, <2>2, HoldsNext
<1> HIDE DEF new
<1>7. Reached(d, old, k, new)
  BY <1>1, <1>5, <1>6, ConstraintStep
<1> QED
  BY <1>7 DEF new

\* A step that goes over the foreign key of a property.
LEMMA FKStep ==
    ASSUME NEW d \in Declarations, NEW old, NEW k \in 1..InitLen(d), NEW acc,
           k > 2 * Len(d.props), Reached(d, old, k - 1, acc), acc.ok
    PROVE  Reached(d, old, k, InitStep(d, acc, k))
<1> DEFINE n == Len(d.props)
           j == k - 2 * n
           p == d.props[j]
           tab == acc.tab
           i == p.fk.name
           v == FKDefinition(d, i)
           new == InitStep(d, acc, k)
<1>1. n \in Nat /\ k \in Nat /\ k - 1 \in Nat /\ j \in 1..n /\ ~(k <= n) /\ ~(k <= 2 * n)
      /\ k > n
  BY Declared DEF InitLen
<1>2. p.fk # Undef => i \in ConstraintNames /\ v # Undef
  BY <1>1, Declared
<1>3. new = AddFK(d, acc, p)
  BY <1>1 DEF InitStep
<1>4. Shape(tab) /\ Holds(d, k - 1, tab)
  BY DEF Reached
<1>5. Besides(acc.tab, new.tab)
      /\ (new.ok => (p.fk # Undef => new.tab.fks[i] = v))
  <2>1. CASE p.fk = Undef
    <3>1. new = acc
      BY <1>3, <2>1 DEF AddFK
    <3> QED
      BY <1>4, <2>1, <3>1, BesidesItself
  <2>2. CASE p.fk # Undef
    <3> DEFINE to == IF tab.fks[i] = Undef THEN [tab EXCEPT !.fks[i] = v] ELSE tab
               ok == tab.fks[i] \in {Undef, v}
    <3>1. new = [ok |-> ok, tab |-> to]
      BY <1>3, <2>2 DEF AddFK, Step
    <3>2. CASE tab.fks[i] = Undef
      <4>1. to = [tab EXCEPT !.fks[i] = v]
        BY <3>2
      <4>2. Besides(tab, to) /\ to.fks[i] = v
        <5> HIDE DEF tab, i, v, to
        <5> QED
          BY <1>2, <1>4, <2>2, <3>2, <4>1, FKAdded
      <4> HIDE DEF new, to, ok
      <4> QED
        BY <3>1, <4>2
    <3>3. CASE tab.fks[i] # Undef
      <4>1. to = tab /\ (ok => to.fks[i] = v)
        BY <3>3
      <4>2. Besides(tab, tab)
        BY <1>4, BesidesItself
      <4> HIDE DEF new, to, ok
      <4> QED
        BY <3>1, <4>1, <4>2
    <3> QED
      BY <3>2, <3>3, SMTT(30)
  <2> QED
    BY <2>1, <2>2
<1>6. new.ok => Holds(d, k, new.tab)
  <2> SUFFICES ASSUME new.ok PROVE Holds(d, k, new.tab)
    OBVIOUS
  <2>1. Holds(d, k - 1, new.tab)
    BY <1>1, <1>4, <1>5, HoldsStill DEF Besides
  <2> HIDE DEF new
  <2> QED
    BY <1>1, <1>5, <2>1, HoldsNext
<1> HIDE DEF new
<1>7. Reached(d, old, k, new)
  BY <1>1, <1>5, <1>6, ConstraintStep
<1> QED
  BY <1>7 DEF new

\* Where the initialisation of a class ends, by induction over its steps.
LEMMA InitialisedReached ==
    ASSUME NEW d \in Declarations, Shape(OldTable(d))
    PROVE  Reached(d, OldTable(d), InitLen(d), Initialised(d))
<1> DEFINE n == Len(d.props)
           N == InitLen(d)
           old == OldTable(d)
           reached == Initialising(d)
           S == {k \in Nat : Reached(d, old, k, reached[k])}
<1>1. n \in Nat /\ N \in Nat /\ N = 3 * n
  BY Declared DEF InitLen
<1>2. reached[0] = GetOrAddTable(d)
      /\ \A k \in 1..N : reached[k] = InitStep(d, reached[k - 1], k)
  BY <1>1, InitialisingIs
<1> HIDE DEF reached
<1>3. Reached(d, old, 0, reached[0])
  BY <1>2, Start
<1> HIDE DEF N, old, n
<1>4. 0 \in S
  BY <1>3
<1>5. ASSUME NEW i \in 0..N - 1, i \in S PROVE i + 1 \in S
  <2> DEFINE k == i + 1
             acc == reached[i]
  <2>1. k \in 1..N /\ k \in Nat /\ k - 1 = i
    BY <1>1
  <2>2. Reached(d, old, k - 1, acc)
    BY <1>5, <2>1
  <2>3. reached[k] = InitStep(d, acc, k)
    BY <1>2, <2>1
  <2>4. /\ k <= n => k \in 1..n
        /\ ~(k <= n) => k > n
        /\ ~(k <= 2 * n) => k > 2 * n
    BY <1>1, <2>1
  <2>0. SUFFICES Reached(d, old, k, InitStep(d, acc, k))
    BY <2>1, <2>3
  <2> HIDE DEF k, acc
  <2>5. CASE ~acc.ok
    BY <2>2, <2>5, FailedStep
  <2>6. CASE acc.ok /\ k <= n
    BY <2>2, <2>4, <2>6, FieldStep DEF n
  <2>7. CASE acc.ok /\ ~(k <= n) /\ k <= 2 * n
    BY <2>1, <2>2, <2>4, <2>7, IndexStep DEF n, N
  <2>8. CASE acc.ok /\ ~(k <= n) /\ ~(k <= 2 * n)
    BY <2>1, <2>2, <2>4, <2>8, FKStep DEF n, N
  <2> QED
    BY <2>5, <2>6, <2>7, <2>8
<1> HIDE DEF S
<1>6. N \in S
  BY <1>1, <1>4, <1>5, UpTo
<1>7. Initialised(d) = reached[N]
  BY <1>1 DEF Initialised, reached, n
<1> QED
  BY <1>6, <1>7 DEF S, N, old

-----------------------------------------------------------------------------
\* The invariant

\* The registry has tables, and the rest is typed.
TablesShaped ==
    /\ DOMAIN tables = Tables /\ tables = [t \in DOMAIN tables |-> tables[t]]
    /\ \A t \in Tables : \/ tables[t] = NoTable
                         \/ /\ Shape(tables[t])
                            /\ tables[t].models \subseteq Models
    /\ decl \in [Models -> Opt(Declarations)]
    /\ DOMAIN qmCache = Models /\ qmCache = [m \in DOMAIN qmCache |-> qmCache[m]]
    /\ tried \subseteq Models /\ dateInMilliSeconds \in BOOLEAN
    /\ debris \subseteq Tables /\ blind \subseteq Tables

\* A class is defined once: one that has not been tried is not alive and has no cache.
DefinedOnce ==
    /\ Live \subseteq tried
    /\ \A m \in Models \ tried : qmCache[m] = Undef

\* All that the living classes declare is in their tables.
LiveHold == \A m \in Live : Holds(decl[m], InitLen(decl[m]), TableOf(m))

\* The rowid field of a table is settled unless its options were set blindly.
RowIdsSettled == \A t \in Registered \ blind : Settled(tables[t])

\* A cache holds foreign keys that there are, so that they stay.
CacheHolds ==
    \A m \in Live : qmCache[m] # Undef =>
        \A n \in DOMAIN qmCache[m] :
            n \in ConstraintNames /\ qmCache[m][n] # Undef /\ TableOf(m).fks[n] = qmCache[m][n]

\* The inductive invariant.
MInv ==
    /\ TablesShaped /\ DefinedOnce /\ TablesInUse
    /\ LiveHold /\ RowIdsSettled /\ CacheHolds

\* What is registered is a table.
LEMMA RegisteredShaped ==
    ASSUME TablesShaped, NEW t \in Tables
    PROVE  /\ t \in Registered <=> tables[t].registered
           /\ t \in Registered => Shape(tables[t]) /\ tables[t].models \subseteq Models
           /\ t \notin Registered => tables[t] = NoTable
<1>1. NoTable.registered = FALSE
  BY DEF NoTable
<1>2. t \in Registered <=> tables[t].registered
  BY DEF Registered
<1>3. Shape(tables[t]) => tables[t].registered = TRUE
  BY ShapeParts
<1> QED
  BY <1>1, <1>2, <1>3 DEF TablesShaped

\* What the invariant says of a living class.
LEMMA LiveShaped ==
    ASSUME MInv, NEW m \in Live
    PROVE  /\ m \in Models /\ m \in tried /\ decl[m] \in Declarations
           /\ decl[m].name \in Registered /\ decl[m].name \in Tables
           /\ m \in TableOf(m).models /\ Shape(TableOf(m)) /\ InitLen(decl[m]) \in Nat
<1>1. m \in Models /\ decl[m] # Undef /\ m \in tried
  BY DEF MInv, DefinedOnce, Live
<1>2. decl[m] \in Declarations
  BY <1>1 DEF MInv, TablesShaped, Opt
<1>3. decl[m].name \in Registered /\ m \in TableOf(m).models
  BY DEF MInv, TablesInUse
<1>4. decl[m].name \in Tables
  BY <1>3 DEF Registered
<1>5. Shape(TableOf(m))
  BY <1>3, <1>4, RegisteredShaped DEF MInv, TableOf
<1>6. InitLen(decl[m]) \in Nat
  BY <1>2, Declared DEF InitLen
<1> QED
  BY <1>1, <1>2, <1>3, <1>4, <1>5, <1>6

\* Which classes a table belongs to makes no difference to what it has.
LEMMA ModelsChanged ==
    ASSUME NEW tab, Shape(tab), NEW M
    PROVE  LET new == [tab EXCEPT !.models = M] IN
           /\ Shape(new) /\ Extends(tab, new) /\ new.models = M
           /\ Settled(tab) => Settled(new)
<1> DEFINE new == [tab EXCEPT !.models = M]
<1>1. /\ new.models = M
      /\ new.withoutRowId = tab.withoutRowId /\ new.autoIncrement = tab.autoIncrement
      /\ new.rowIdField = tab.rowIdField /\ new.autoIncrementField = tab.autoIncrementField
      /\ new.indexes = tab.indexes /\ new.fields = tab.fields /\ new.fks = tab.fks
  BY DEF Shape
<1>2. DOMAIN new = Parts /\ new = [i \in DOMAIN new |-> new[i]] /\ new.registered = TRUE
  BY ShapeParts DEF Parts
<1> HIDE DEF new
<1>3. Shape(new)
  <2>1. /\ new.fields \in [Cols -> Opt(Field)]
        /\ new.fks = [i \in ConstraintNames |-> new.fks[i]]
        /\ new.indexes = [i \in ConstraintNames |-> new.indexes[i]]
    BY <1>1 DEF Shape
  <2> QED
    BY <1>2, <2>1, ShapeFrom
<1>4. Extends(tab, new)
  BY <1>1 DEF Extends, FieldStands, Stands
<1>5. IdentityFields(tab) = IdentityFields(new)
  BY <1>1 DEF IdentityFields
<1>6. \A c \in IdentityFields(tab) : TypeAffinity(tab.fields[c]) = TypeAffinity(new.fields[c])
  BY <1>1
<1>7. Settled(tab) => Settled(new)
  BY <1>1, <1>5, <1>6, SettledAlso
<1> QED
  BY <1>1, <1>3, <1>4, <1>7 DEF new

\* A new table has nothing that could be unsettled.
LEMMA NewTableIs == Shape(NewTable) /\ NewTable.models = {} /\ Settled(NewTable)
<1>1. Shape(NewTable) /\ NewTable.models = {}
  BY DEF NewTable, Shape, Opt
<1>2. /\ NewTable.rowIdField = Undef /\ NewTable.autoIncrementField = Undef
      /\ \A c \in Cols : NewTable.fields[c] = Undef
  BY DEF NewTable
<1>3. IdentityFields(NewTable) = {}
  BY <1>2 DEF IdentityFields
<1>4. Cardinality(IdentityFields(NewTable)) # 1
  BY <1>3, FS_EmptySet
<1>5. RowIdAlias(NewTable) = Undef
  BY <1>4 DEF RowIdAlias
<1> QED
  BY <1>1, <1>2, <1>5 DEF Settled

\* The table a definition leaves.
DefinedTable(m, d) ==
    LET r == Initialised(d) IN IF r.ok THEN [r.tab EXCEPT !.models = @ \cup {m}] ELSE r.tab

\* It has all that was there before, what the class declares if it succeeds, and
\* a settled rowid field where the code settles it.
LEMMA DefinedTableIs ==
    ASSUME TablesShaped, NEW m \in Models, NEW d \in Declarations
    PROVE  LET old == OldTable(d)
               new == DefinedTable(m, d)
               ok == Initialised(d).ok
           IN /\ d.name \in Tables /\ Shape(old) /\ Shape(new) /\ Extends(old, new)
              /\ old.models \subseteq Models
              /\ d.name \notin Registered => old = NewTable
              /\ ok => new.models = old.models \cup {m} /\ Holds(d, InitLen(d), new)
              /\ ~ok => new.models = old.models
              /\ Settled(old) /\ ~Unsettled(d, ok) => Settled(new)
<1> DEFINE old == OldTable(d)
           new == DefinedTable(m, d)
           r == Initialised(d)
           ok == r.ok
           N == InitLen(d)
           n == Len(d.props)
<1>1. d.name \in Tables /\ n \in Nat /\ N \in Nat /\ N = 3 * n
      /\ (\A j \in 1..n : d.props[j] \in PropsOf(d)) /\ PropsOf(d) = {d.props[j] : j \in 1..n}
  BY Declared DEF InitLen, Declaration, PropsOf
<1>2. /\ Shape(old) /\ old.models \subseteq Models
      /\ d.name \notin Registered => old = NewTable
  BY <1>1, NewTableIs, RegisteredShaped DEF OldTable
<1>3. Reached(d, old, N, r)
  BY <1>2, InitialisedReached
<1>4. new = IF ok THEN [r.tab EXCEPT !.models = r.tab.models \cup {m}] ELSE r.tab
  BY DEF DefinedTable
<1> HIDE DEF old, new, r, ok, N, n
<1>5. /\ Shape(r.tab) /\ Extends(old, r.tab) /\ r.tab.models = old.models
      /\ ok => Holds(d, N, r.tab)
      /\ ok /\ KeySeen(d, N) => Settled(r.tab)
      /\ Settled(old) /\ NoOption(d) /\ (ok \/ \A p \in PropsOf(d) : ~TypedKey(p))
            => Settled(r.tab)
  BY <1>3 DEF Reached, ok
<1>6. KeySeen(d, N) <=> \E p \in PropsOf(d) : p.isIdentity
  <2>1. \A j \in 1..n : j <= N
    BY <1>1
  <2> QED
    BY <1>1, <2>1 DEF KeySeen, n
<1>7. Settled(old) /\ ~Unsettled(d, ok) => Settled(r.tab)
  BY <1>5, <1>6 DEF Unsettled, NoOption, TypedKey
<1>8. CASE ok
  <2>1. /\ Shape(new) /\ Extends(r.tab, new) /\ new.models = r.tab.models \cup {m}
        /\ Settled(r.tab) => Settled(new)
    BY <1>4, <1>5, <1>8, ModelsChanged
  <2>2. Extends(old, new) /\ Holds(d, N, new)
    BY <1>1, <1>5, <1>8, <2>1, ExtendsTransitive, HoldsStill
  <2> QED
    BY <1>1, <1>2, <1>5, <1>7, <1>8, <2>1, <2>2 DEF old, new, r, ok, N
<1>9. CASE ~ok
  <2>1. new = r.tab
    BY <1>4, <1>9
  <2> QED
    BY <1>1, <1>2, <1>5, <1>7, <1>9, <2>1 DEF old, new, r, ok, N
<1> QED
  BY <1>8, <1>9

\* Nothing is registered at the start.
LEMMA InitMInv == ASSUME Init PROVE MInv
<1>1. Live = {} /\ Registered = {}
  BY DEF Init, Live, Registered, NoTable
<1>2. TablesShaped
  BY DEF Init, TablesShaped, Opt
<1>3. DefinedOnce
  BY <1>1 DEF Init, DefinedOnce
<1> QED
  BY <1>1, <1>2, <1>3 DEF MInv, TablesInUse, LiveHold, RowIdsSettled, CacheHolds

\* MetaModel.init keeps the invariant, whether it succeeds or throws.
LEMMA DefineMInv ==
    ASSUME MInv, NEW m \in Models, NEW d \in Declarations, Define(m, d)
    PROVE  MInv'
<1> DEFINE t == d.name
           old == OldTable(d)
           new == DefinedTable(m, d)
           ok == Initialised(d).ok
<1>1. /\ t \in Tables /\ Shape(old) /\ Shape(new) /\ Extends(old, new)
      /\ old.models \subseteq Models
      /\ t \notin Registered => old = NewTable
      /\ ok => new.models = old.models \cup {m} /\ Holds(d, InitLen(d), new)
      /\ ~ok => new.models = old.models
      /\ Settled(old) /\ ~Unsettled(d, ok) => Settled(new)
  BY DefinedTableIs DEF MInv
<1>2. /\ m \notin tried /\ tried' = tried \cup {m}
      /\ tables' = [tables EXCEPT ![t] = new]
      /\ IF ok THEN decl' = [decl EXCEPT ![m] = d] ELSE decl' = decl
      /\ debris' = IF ok THEN debris ELSE debris \cup {t}
      /\ blind' = IF Unsettled(d, ok) THEN blind \cup {t} ELSE blind
      /\ qmCache' = qmCache /\ dateInMilliSeconds' = dateInMilliSeconds
  BY DEF Define, DefinedTable
<1>3. t \in Registered => old = tables[t]
  BY DEF OldTable
<1> HIDE DEF t, old, new, ok
<1>4. TablesShaped /\ DefinedOnce /\ TablesInUse /\ LiveHold /\ RowIdsSettled /\ CacheHolds
  BY DEF MInv
<1>5. /\ DOMAIN tables' = Tables /\ tables' = [s \in DOMAIN tables' |-> tables'[s]]
      /\ tables'[t] = new
      /\ \A s \in Tables : s # t => tables'[s] = tables[s]
  BY <1>1, <1>2, <1>4 DEF TablesShaped
<1>6. new.registered = TRUE /\ NewTable.models = {} /\ Settled(NewTable)
      /\ new.models \subseteq Models
  BY <1>1, ShapeParts, NewTableIs
<1>7. TablesShaped'
  <2>1. \A s \in Tables : \/ tables'[s] = NoTable
                          \/ (Shape(tables'[s]) /\ tables'[s].models \subseteq Models)
    BY <1>1, <1>4, <1>5, <1>6 DEF TablesShaped
  <2>2. decl' \in [Models -> Opt(Declarations)]
    BY <1>2, <1>4 DEF TablesShaped, Opt
  <2>3. /\ DOMAIN qmCache' = Models /\ qmCache' = [i \in DOMAIN qmCache' |-> qmCache'[i]]
        /\ tried' \subseteq Models /\ dateInMilliSeconds' \in BOOLEAN
        /\ debris' \subseteq Tables /\ blind' \subseteq Tables
    BY <1>1, <1>2, <1>4 DEF TablesShaped
  <2> QED
    BY <1>5, <2>1, <2>2, <2>3 DEF TablesShaped
<1>8. m \notin Live /\ d # Undef
  BY <1>2, <1>4, UndefAssumption DEF DefinedOnce
\* who is alive, and what has become of its table
<1>9. /\ \A i \in Live : i \in Live' /\ decl'[i] = decl[i]
      /\ \A i \in Live' : i \in Live \/ (i = m /\ ok /\ decl'[i] = d)
  <2>1. decl \in [Models -> Opt(Declarations)]
    BY <1>4 DEF TablesShaped
  <2>2. CASE ok
    <3>1. decl' = [decl EXCEPT ![m] = d]
      BY <1>2, <2>2
    <3>2. decl'[m] = d /\ \A i \in Models : i # m => decl'[i] = decl[i]
      BY <2>1, <3>1
    <3> QED
      BY <1>8, <2>2, <3>2 DEF Live
  <2>3. CASE ~ok
    <3>1. decl' = decl
      BY <1>2, <2>3
    <3> QED
      BY <3>1 DEF Live
  <2> QED
    BY <2>2, <2>3
<1>10. ASSUME NEW i \in Live
       PROVE  /\ decl[i].name \in Tables
              /\ tables'[decl[i].name].registered = TRUE
              /\ Extends(TableOf(i), tables'[decl[i].name])
              /\ i \in tables'[decl[i].name].models
  <2>1. /\ decl[i].name \in Registered /\ decl[i].name \in Tables
        /\ i \in TableOf(i).models /\ Shape(TableOf(i))
    BY LiveShaped
  <2>2. CASE decl[i].name = t
    <3>1. TableOf(i) = old /\ tables'[decl[i].name] = new
      BY <1>3, <1>5, <2>1, <2>2 DEF TableOf
    <3> QED
      BY <1>1, <1>6, <2>1, <3>1
  <2>3. CASE decl[i].name # t
    <3>1. tables'[decl[i].name] = TableOf(i)
      BY <1>5, <2>1, <2>3 DEF TableOf
    <3> QED
      BY <2>1, <3>1, ExtendsItself, ShapeParts
  <2> QED
    BY <2>2, <2>3
<1>11. DefinedOnce'
  <2>1. Live' \subseteq tried'
    BY <1>2, <1>4, <1>9 DEF DefinedOnce
  <2>2. \A i \in Models \ tried' : qmCache'[i] = Undef
    BY <1>2, <1>4 DEF DefinedOnce
  <2> QED
    BY <2>1, <2>2 DEF DefinedOnce
<1>12. TablesInUse'
  <2>1. ASSUME NEW i \in Live'
        PROVE  decl'[i].name \in Registered' /\ i \in tables'[decl'[i].name].models
    <3>1. CASE i \in Live
      BY <1>9, <1>10, <3>1 DEF Registered
    <3>2. CASE i = m /\ ok /\ decl'[i] = d
      <4>1. decl'[i].name = t /\ i \in new.models
        BY <1>1, <3>2 DEF t
      <4> QED
        BY <1>1, <1>5, <1>6, <4>1 DEF Registered
    <3> QED
      BY <1>9, <3>1, <3>2
  <2>2. ASSUME NEW s \in Registered', tables'[s].models = {}
        PROVE  s \in debris'
    <3>1. CASE s = t
      BY <1>1, <1>2, <1>5, <2>2, <3>1
    <3>2. CASE s # t
      <4>1. s \in Tables /\ tables'[s] = tables[s]
        BY <1>5, <3>2 DEF Registered
      <4>2. s \in Registered
        BY <4>1 DEF Registered
      <4>3. s \in debris
        BY <1>4, <2>2, <4>1, <4>2 DEF TablesInUse
      <4> QED
        BY <1>2, <4>3
    <3> QED
      BY <3>1, <3>2
  <2> QED
    BY <2>1, <2>2 DEF TablesInUse, TableOf
<1>13. LiveHold'
  <2> SUFFICES ASSUME NEW i \in Live'
               PROVE  Holds(decl'[i], InitLen(decl'[i]), tables'[decl'[i].name])
    BY DEF LiveHold, TableOf, InitLen
  <2>1. CASE i \in Live
    <3>1. decl[i] \in Declarations /\ InitLen(decl[i]) \in Nat
      BY <2>1, LiveShaped
    <3>2. Holds(decl[i], InitLen(decl[i]), TableOf(i))
      BY <1>4, <2>1 DEF LiveHold
    <3>3. Extends(TableOf(i), tables'[decl[i].name])
      BY <1>10, <2>1
    <3>4. Holds(decl[i], InitLen(decl[i]), tables'[decl[i].name])
      BY <3>1, <3>2, <3>3, HoldsStill
    <3> QED
      BY <1>9, <2>1, <3>4
  <2>2. CASE i = m /\ ok /\ decl'[i] = d
    BY <1>1, <1>5, <2>2 DEF t
  <2> QED
    BY <1>9, <2>1, <2>2
<1>14. RowIdsSettled'
  <2> SUFFICES ASSUME NEW s \in Tables, tables'[s].registered, s \notin blind'
               PROVE  Settled(tables'[s])
    BY DEF RowIdsSettled, Registered, Settled, RowIdAlias, IdentityFields
  <2>1. s \notin blind
    BY <1>2
  <2>2. CASE s = t
    <3>1. ~Unsettled(d, ok)
      BY <1>2, <2>2
    <3>2. Settled(old)
      <4>1. CASE t \in Registered
        BY <1>3, <1>4, <2>1, <2>2, <4>1 DEF RowIdsSettled
      <4>2. CASE t \notin Registered
        BY <1>1, <1>6, <4>2
      <4> QED
        BY <4>1, <4>2
    <3> QED
      BY <1>1, <1>5, <2>2, <3>1, <3>2
  <2>3. CASE s # t
    <3>1. tables'[s] = tables[s] /\ s \in Registered
      BY <1>5, <2>3 DEF Registered
    <3>2. Settled(tables[s])
      BY <1>4, <2>1, <3>1 DEF RowIdsSettled
    <3> QED
      BY <3>1, <3>2
  <2> QED
    BY <2>2, <2>3
<1>15. CacheHolds'
  <2> SUFFICES ASSUME NEW i \in Live', qmCache'[i] # Undef, NEW n \in DOMAIN qmCache'[i]
               PROVE  /\ n \in ConstraintNames /\ qmCache'[i][n] # Undef
                      /\ tables'[decl'[i].name].fks[n] = qmCache'[i][n]
    BY DEF CacheHolds, TableOf
  <2>1. i \in Live
    BY <1>2, <1>4, <1>9 DEF DefinedOnce
  <2>2. /\ n \in ConstraintNames /\ qmCache[i][n] # Undef
        /\ TableOf(i).fks[n] = qmCache[i][n]
    BY <1>2, <1>4, <2>1 DEF CacheHolds
  <2>3. Stands(TableOf(i).fks[n], tables'[decl[i].name].fks[n])
    BY <1>10, <2>1, <2>2 DEF Extends
  <2> QED
    BY <1>2, <1>9, <2>1, <2>2, <2>3 DEF Stands
<1> QED
  BY <1>7, <1>11, <1>12, <1>13, <1>14, <1>15 DEF MInv

\* MetaModel.destroy keeps it: the table goes with its last class.
LEMMA DestroyMInv ==
    ASSUME MInv, NEW m \in Models, Destroy(m)
    PROVE  MInv'
<1> DEFINE t == decl[m].name
           old == tables[t]
           rest == old.models \ {m}
           kept == [old EXCEPT !.models = rest]
           new == IF rest = {} THEN NoTable ELSE kept
<1>1. /\ m \in Live
      /\ tables' = [tables EXCEPT ![t] = new]
      /\ decl' = [decl EXCEPT ![m] = Undef]
      /\ debris' = IF rest = {} THEN debris \ {t} ELSE debris
      /\ blind' = IF rest = {} THEN blind \ {t} ELSE blind
      /\ qmCache' = qmCache /\ tried' = tried /\ dateInMilliSeconds' = dateInMilliSeconds
  BY DEF Destroy
<1>2. TablesShaped /\ DefinedOnce /\ TablesInUse /\ LiveHold /\ RowIdsSettled /\ CacheHolds
  BY DEF MInv
<1>3. t \in Registered /\ t \in Tables /\ Shape(old) /\ rest \subseteq Models
  <2>1. t \in Registered /\ t \in Tables
    BY <1>1, LiveShaped
  <2> QED
    BY <1>2, <2>1, RegisteredShaped
<1>4. /\ Shape(kept) /\ Extends(old, kept) /\ kept.models = rest
      /\ Settled(old) => Settled(kept)
  <2> HIDE DEF old, rest
  <2> QED
    BY <1>3, ModelsChanged
<1>5. kept.registered = TRUE /\ NoTable.registered = FALSE
  BY <1>4, ShapeParts DEF NoTable
<1> HIDE DEF t, kept, new
<1>6. /\ DOMAIN tables' = Tables /\ tables' = [s \in DOMAIN tables' |-> tables'[s]]
      /\ tables'[t] = new
      /\ \A s \in Tables : s # t => tables'[s] = tables[s]
  BY <1>1, <1>2, <1>3 DEF TablesShaped
<1>7. /\ rest = {} => new = NoTable
      /\ rest # {} => new = kept
  BY DEF new
<1> HIDE DEF rest, old
<1>8. TablesShaped'
  <2>1. \A s \in Tables : \/ tables'[s] = NoTable
                          \/ (Shape(tables'[s]) /\ tables'[s].models \subseteq Models)
    BY <1>2, <1>3, <1>4, <1>6, <1>7 DEF TablesShaped
  <2>2. decl' \in [Models -> Opt(Declarations)]
    BY <1>1, <1>2 DEF TablesShaped, Opt
  <2>3. /\ DOMAIN qmCache' = Models /\ qmCache' = [i \in DOMAIN qmCache' |-> qmCache'[i]]
        /\ tried' \subseteq Models /\ dateInMilliSeconds' \in BOOLEAN
        /\ debris' \subseteq Tables /\ blind' \subseteq Tables
    BY <1>1, <1>2 DEF TablesShaped
  <2> QED
    BY <1>6, <2>1, <2>2, <2>3 DEF TablesShaped
<1>9. \A i \in Live' : i \in Live /\ i # m /\ decl'[i] = decl[i]
  <2>1. decl \in [Models -> Opt(Declarations)]
    BY <1>2 DEF TablesShaped
  <2>2. decl'[m] = Undef /\ \A i \in Models : i # m => decl'[i] = decl[i]
    BY <1>1, <2>1
  <2> QED
    BY <2>2 DEF Live
<1>10. ASSUME NEW i \in Live'
       PROVE  /\ decl[i].name \in Tables
              /\ tables'[decl[i].name].registered = TRUE
              /\ Extends(TableOf(i), tables'[decl[i].name])
              /\ i \in tables'[decl[i].name].models
  <2>1. /\ decl[i].name \in Registered /\ decl[i].name \in Tables
        /\ i \in TableOf(i).models /\ Shape(TableOf(i)) /\ i # m
    BY <1>9, LiveShaped
  <2>2. CASE decl[i].name = t
    <3>1. TableOf(i) = old
      BY <2>2 DEF TableOf, old
    <3>2. i \in rest
      BY <2>1, <3>1 DEF rest
    <3>3. tables'[decl[i].name] = kept
      BY <1>6, <1>7, <2>2, <3>2
    <3> QED
      BY <1>4, <1>5, <2>1, <3>1, <3>2, <3>3
  <2>3. CASE decl[i].name # t
    <3>1. tables'[decl[i].name] = TableOf(i)
      BY <1>6, <2>1, <2>3 DEF TableOf
    <3> QED
      BY <2>1, <3>1, ExtendsItself, ShapeParts
  <2> QED
    BY <2>2, <2>3
<1>11. DefinedOnce'
  BY <1>1, <1>2, <1>9 DEF DefinedOnce
<1>12. TablesInUse'
  <2>1. ASSUME NEW i \in Live'
        PROVE  decl'[i].name \in Registered' /\ i \in tables'[decl'[i].name].models
    BY <1>9, <1>10 DEF Registered
  <2>2. ASSUME NEW s \in Registered', tables'[s].models = {}
        PROVE  s \in debris'
    <3>1. CASE s = t
      <4>1. tables'[s] = new /\ new.registered
        BY <1>6, <3>1 DEF Registered
      <4>2. rest # {} /\ new = kept
        BY <1>5, <1>7, <4>1
      <4> QED
        BY <1>4, <2>2, <4>1, <4>2
    <3>2. CASE s # t
      <4>1. s \in Tables /\ tables'[s] = tables[s]
        BY <1>6, <3>2 DEF Registered
      <4>2. s \in Registered
        BY <4>1 DEF Registered
      <4>3. s \in debris
        BY <1>2, <2>2, <4>1, <4>2 DEF TablesInUse
      <4> QED
        BY <1>1, <3>2, <4>3
    <3> QED
      BY <3>1, <3>2
  <2> QED
    BY <2>1, <2>2 DEF TablesInUse, TableOf
<1>13. LiveHold'
  <2> SUFFICES ASSUME NEW i \in Live'
               PROVE  Holds(decl'[i], InitLen(decl'[i]), tables'[decl'[i].name])
    BY DEF LiveHold, TableOf, InitLen
  <2>1. i \in Live /\ decl[i] \in Declarations /\ InitLen(decl[i]) \in Nat
    BY <1>9, LiveShaped
  <2>2. Holds(decl[i], InitLen(decl[i]), TableOf(i))
    BY <1>2, <2>1 DEF LiveHold
  <2>3. Holds(decl[i], InitLen(decl[i]), tables'[decl[i].name])
    BY <1>10, <2>1, <2>2, HoldsStill
  <2> QED
    BY <1>9, <2>3
<1>14. RowIdsSettled'
  <2> SUFFICES ASSUME NEW s \in Tables, tables'[s].registered, s \notin blind'
               PROVE  Settled(tables'[s])
    BY DEF RowIdsSettled, Registered, Settled, RowIdAlias, IdentityFields
  <2>1. CASE s = t
    <3>1. rest # {} /\ tables'[s] = kept
      BY <1>5, <1>6, <1>7, <2>1
    <3>2. s \notin blind
      BY <1>1, <3>1
    <3>3. Settled(old)
      BY <1>2, <1>3, <2>1, <3>2 DEF RowIdsSettled, old
    <3> QED
      BY <1>4, <3>1, <3>3
  <2>2. CASE s # t
    <3>1. tables'[s] = tables[s] /\ s \in Registered /\ s \notin blind
      BY <1>1, <1>6, <2>2 DEF Registered
    <3>2. Settled(tables[s])
      BY <1>2, <3>1 DEF RowIdsSettled
    <3> QED
      BY <3>1, <3>2
  <2> QED
    BY <2>1, <2>2
<1>15. CacheHolds'
  <2> SUFFICES ASSUME NEW i \in Live', qmCache'[i] # Undef, NEW n \in DOMAIN qmCache'[i]
               PROVE  /\ n \in ConstraintNames /\ qmCache'[i][n] # Undef
                      /\ tables'[decl'[i].name].fks[n] = qmCache'[i][n]
    BY DEF CacheHolds, TableOf
  <2>1. /\ n \in ConstraintNames /\ qmCache[i][n] # Undef
        /\ TableOf(i).fks[n] = qmCache[i][n]
    BY <1>1, <1>2, <1>9 DEF CacheHolds
  <2>2. Stands(TableOf(i).fks[n], tables'[decl[i].name].fks[n])
    BY <1>10, <2>1 DEF Extends
  <2> QED
    BY <1>1, <1>9, <2>1, <2>2 DEF Stands
<1> QED
  BY <1>8, <1>11, <1>12, <1>13, <1>14, <1>15 DEF MInv

\* Filling the cache of a query model keeps it.
LEMMA NewDAOMInv ==
    ASSUME MInv, NEW m \in Models, NewDAO(m)
    PROVE  MInv'
<1>1. /\ m \in Live /\ qmCache' = [qmCache EXCEPT ![m] = Predicates(m)]
      /\ tables' = tables /\ decl' = decl /\ tried' = tried
      /\ dateInMilliSeconds' = dateInMilliSeconds /\ debris' = debris /\ blind' = blind
  BY DEF NewDAO
<1>2. TablesShaped /\ DefinedOnce /\ TablesInUse /\ LiveHold /\ RowIdsSettled /\ CacheHolds
  BY DEF MInv
<1>3. /\ DOMAIN qmCache' = Models /\ qmCache' = [i \in DOMAIN qmCache' |-> qmCache'[i]]
      /\ qmCache'[m] = Predicates(m)
      /\ \A i \in Models : i # m => qmCache'[i] = qmCache[i]
  BY <1>1, <1>2 DEF TablesShaped
<1>4. TablesShaped'
  BY <1>1, <1>2, <1>3 DEF TablesShaped
<1>5. Live' = Live /\ Registered' = Registered
  BY <1>1 DEF Live, Registered
<1>6. DefinedOnce'
  <2>1. m \in tried
    BY <1>1, <1>2 DEF DefinedOnce
  <2> QED
    BY <1>1, <1>2, <1>3, <1>5, <2>1 DEF DefinedOnce
<1>7. TablesInUse' /\ LiveHold'
  BY <1>1, <1>2, <1>5 DEF TablesInUse, LiveHold, TableOf
<1>8. RowIdsSettled'
  BY <1>1, <1>2, <1>5 DEF RowIdsSettled
<1>9. CacheHolds'
  <2> SUFFICES ASSUME NEW i \in Live, qmCache'[i] # Undef, NEW n \in DOMAIN qmCache'[i]
               PROVE  /\ n \in ConstraintNames /\ qmCache'[i][n] # Undef
                      /\ TableOf(i).fks[n] = qmCache'[i][n]
    BY <1>1, <1>5 DEF CacheHolds, TableOf
  <2>1. CASE i = m
    BY <1>3, <2>1 DEF Predicates
  <2>2. CASE i # m
    <3>1. i \in Models
      BY DEF Live
    <3> QED
      BY <1>2, <1>3, <2>2, <3>1 DEF CacheHolds
  <2> QED
    BY <2>1, <2>2
<1> QED
  BY <1>4, <1>6, <1>7, <1>8, <1>9 DEF MInv

\* It does not depend on the default for dates.
LEMMA UnchangedMInv ==
    ASSUME MInv, UNCHANGED <<tables, decl, qmCache, tried, debris, blind>>,
           dateInMilliSeconds' \in BOOLEAN
    PROVE  MInv'
<1>1. Live' = Live /\ Registered' = Registered
  BY DEF Live, Registered
<1>2. TablesShaped' /\ DefinedOnce'
  BY <1>1 DEF MInv, TablesShaped, DefinedOnce
<1>3. TablesInUse' /\ LiveHold' /\ RowIdsSettled' /\ CacheHolds'
  BY <1>1 DEF MInv, TablesInUse, LiveHold, RowIdsSettled, CacheHolds, TableOf
<1> QED
  BY <1>2, <1>3 DEF MInv

\* Every step keeps the invariant.
LEMMA StepMInv == MInv /\ [Next]_vars => MInv'
<1> SUFFICES ASSUME MInv, [Next]_vars PROVE MInv'
  OBVIOUS
<1>1. ASSUME NEW m \in Models, Destroy(m) PROVE MInv'
  BY <1>1, DestroyMInv
<1>2. ASSUME NEW m \in Models, NewDAO(m) PROVE MInv'
  BY <1>2, NewDAOMInv
<1>3. ASSUME NEW m \in Models, NEW d \in Declarations, Define(m, d) PROVE MInv'
  BY <1>3, DefineMInv
<1>4. CASE SetDateInMilliSeconds
  BY <1>4, UnchangedMInv DEF SetDateInMilliSeconds
<1>5. CASE UNCHANGED vars
  BY <1>5, UnchangedMInv DEF vars, MInv, TablesShaped
<1> QED
  BY <1>1, <1>2, <1>3, <1>4, <1>5 DEF Next

\* The invariant holds in every state.
LEMMA Invariant == Spec => []MInv
<1>1. Init => MInv
  BY InitMInv
<1> QED
  BY <1>1, StepMInv, PTL DEF Spec

-----------------------------------------------------------------------------
\* What the invariant says

\* The invariant and the properties that follow from it.
LEMMA MInvTypeOK == MInv => TypeOK
<1> SUFFICES ASSUME MInv PROVE TypeOK
  OBVIOUS
<1>1. ASSUME NEW t \in Registered
      PROVE  DOMAIN tables[t] = DOMAIN NewTable /\ tables[t].models \subseteq Models
  <2>1. t \in Tables
    BY DEF Registered
  <2>2. Shape(tables[t]) /\ tables[t].models \subseteq Models
    BY <2>1, RegisteredShaped DEF MInv
  <2> QED
    BY <2>2, NewTableIs, ShapeParts
<1> QED
  BY <1>1 DEF MInv, TablesShaped, TypeOK

\* The declarations of a living class are in its table.
LEMMA MInvDeclarationsHold == MInv => DeclarationsHold
<1> SUFFICES ASSUME MInv, NEW m \in Live
             PROVE  LET d == decl[m] tab == TableOf(m) IN
                    /\ \A k \in 1..2 : d[TableOptions[k]] \in {Undef, tab[TableOptions[k]]}
                    /\ \A p \in PropsOf(d) :
                          /\ tab.fields[p.col].isIdentity = p.isIdentity
                          /\ \A k \in 1..3 : p[FieldOptions[k]] \in
                                {Undef, tab.fields[p.col][FieldOptions[k]]}
                          /\ p.fk # Undef => tab.fks[p.fk.name] = FKDefinition(d, p.fk.name)
                          /\ p.index # Undef =>
                                tab.indexes[p.index.name] = IDXDefinition(d, p.index.name)
  BY DEF DeclarationsHold
<1> DEFINE d == decl[m]
           tab == TableOf(m)
           n == Len(d.props)
           N == InitLen(d)
<1>1. d \in Declarations /\ Holds(d, N, tab)
  BY LiveShaped DEF MInv, LiveHold
<1>2. n \in Nat /\ N = 3 * n
  BY <1>1, Declared DEF InitLen
<1> HIDE DEF d, tab, N
<1>3. ASSUME NEW k \in 1..2
      PROVE  d[TableOptions[k]] \in {Undef, tab[TableOptions[k]]}
  <2>1. d["withoutRowId"] \in {Undef, tab["withoutRowId"]}
        /\ d["autoIncrement"] \in {Undef, tab["autoIncrement"]}
    BY <1>1 DEF Holds
  <2>2. k = 1 \/ k = 2
    OBVIOUS
  <2> QED
    BY <2>1, <2>2, OptionNames
<1>4. ASSUME NEW p \in PropsOf(d)
      PROVE  /\ tab.fields[p.col].isIdentity = p.isIdentity
             /\ \A k \in 1..3 : p[FieldOptions[k]] \in
                   {Undef, tab.fields[p.col][FieldOptions[k]]}
             /\ p.fk # Undef => tab.fks[p.fk.name] = FKDefinition(d, p.fk.name)
             /\ p.index # Undef => tab.indexes[p.index.name] = IDXDefinition(d, p.index.name)
  <2>1. PICK j \in 1..n : p = d.props[j]
    BY DEF PropsOf
  <2>2. j <= N /\ n + j <= N /\ 2 * n + j <= N
    BY <1>2
  <2>3. /\ Maps(tab, p)
        /\ p.index # Undef => tab.indexes[p.index.name] = IDXDefinition(d, p.index.name)
        /\ p.fk # Undef => tab.fks[p.fk.name] = FKDefinition(d, p.fk.name)
    BY <1>1, <2>1, <2>2 DEF Holds
  <2> DEFINE g == tab.fields[p.col]
  <2>4. /\ g.isIdentity = p.isIdentity
        /\ p["dbtype"] \in {Undef, g["dbtype"]} /\ p["isJson"] \in {Undef, g["isJson"]}
        /\ p["dateInMilliSeconds"] \in {Undef, g["dateInMilliSeconds"]}
    BY <2>3 DEF Maps, Agrees
  <2> HIDE DEF g
  <2>5. ASSUME NEW k \in 1..3 PROVE p[FieldOptions[k]] \in {Undef, g[FieldOptions[k]]}
    <3>1. k = 1 \/ k = 2 \/ k = 3
      OBVIOUS
    <3> QED
      BY <2>4, <3>1, OptionNames
  <2> QED
    BY <2>3, <2>4, <2>5 DEF g
<1> QED
  BY <1>3, <1>4 DEF d, tab

\* setRowId would change nothing.
LEMMA MInvRowIdFits == MInv => RowIdFits
<1> SUFFICES ASSUME MInv, NEW t \in Registered \ blind
             PROVE  tables[t] = SetRowId(tables[t])
  BY DEF RowIdFits
<1>1. t \in Tables
  BY DEF Registered
<1>2. Shape(tables[t])
  BY <1>1, RegisteredShaped DEF MInv
<1>3. Settled(tables[t])
  BY DEF MInv, RowIdsSettled
<1> QED
  BY <1>2, <1>3, SetRowIdIs

\* What a cache holds is in the table.
LEMMA MInvCacheIsCurrent == MInv => CacheIsCurrent
BY DEF MInv, CacheHolds, CacheIsCurrent

\* The registry and the declarations have their types.
THEOREM TypeCorrect == Spec => []TypeOK
BY Invariant, MInvTypeOK, PTL

\* A table is registered as long as a class is mapped to it (MetaModel.init and
\* destroy, Schema.getOrAddTable and deleteTable); one of no class is what a
\* failed definition has left.
THEOREM TablesAreInUse == Spec => []TablesInUse
<1>1. MInv => TablesInUse
  BY DEF MInv
<1> QED
  BY <1>1, Invariant, PTL

\* Every option, key and constraint a living class has declared is the one its
\* table has (Table.getOrAddTableField, addFKDefinition, addIDXDefinition), for
\* any classes that share it and however their definitions failed in between.
THEOREM DeclarationsAlwaysHold == Spec => []DeclarationsHold
BY Invariant, MInvDeclarationsHold, PTL

\* The rowid field a table keeps (Table.setRowId) is the one its fields and options
\* call for, unless a class without the key, or one that failed, has set them.
THEOREM RowIdAlwaysFits == Spec => []RowIdFits
BY Invariant, MInvRowIdFits, PTL

\* The foreign keys a query model has cached (QueryModel.buildCache) are those of
\* its table, although the cache is filled once: a foreign key never changes.
THEOREM CacheStaysCurrent == Spec => []CacheIsCurrent
BY Invariant, MInvCacheIsCurrent, PTL
=============================================================================
