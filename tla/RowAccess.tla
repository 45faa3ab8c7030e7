----------------------------- MODULE RowAccess -----------------------------
(* BaseDAO of sqlite3orm: a part of the program reads and writes the rows of *)
(* a table through a model object, which may stand for a row that others     *)
(* have changed or deleted since it was read.  A call binds the values of    *)
(* its object and runs one statement, so it is one step.  QueryFilter says   *)
(* what a where-object selects.                                              *)
EXTENDS QueryFilter, FiniteSetsExt

CONSTANTS
    MaxId,       \* bound on the ids of rows
    MaxBirths,   \* bound on the rows inserted
    Default,     \* the default values of the columns in the database
    ForeignKey,  \* the column that refers to the key of another row
    NewModels,   \* the objects the program creates
    Assigned,    \* the values the program assigns
    Wheres,      \* the where-objects it uses
    InsertModes, \* of BaseDAO.options or of the call
    Absent       \* the object has no such property

Ids == 1..MaxId
Key == "id"
Properties == Columns \cup {Key}

ASSUME RowAccessAssumption ==
    /\ MaxId \in Nat /\ MaxBirths \in Nat
    /\ IsFiniteSet(Columns) /\ \A w \in Wheres : IsWhere(w)
    /\ {Key, "of", "born"} \cap Columns = {} /\ ForeignKey \in Columns
    /\ Default \in [Columns -> Stored] /\ Assigned \cup {Null} \subseteq Stored
    /\ InsertModes \subseteq {"default", "StrictSqlite", "ForceAutoGeneration"}
    /\ Null \notin Ids /\ Absent \notin Ids \cup Stored
    /\ Null \notin [Columns \cup {"born"} -> Stored \cup 1..MaxBirths]
    /\ \A m \in NewModels :
          /\ m \in [Properties \cup {"of"} -> Ids \cup Stored \cup {Absent, 0}]
          /\ m.of = 0 /\ m[Key] \in Ids \cup {Absent}
          /\ \A c \in Columns : m[c] \in Stored \cup {Absent}

VARIABLES
    kind,    \* "autoincrement", "rowid" or "withoutRowId"
    rows,    \* the table; Null where there is no row
    seq,     \* the largest id it ever had (sqlite_sequence)
    model,   \* the object: its properties, and the number of the row it stands for
    births,  \* rows inserted so far; a row carries its number
    chosen,  \* history: has an id been chosen by the program and not by SQLite
    last     \* history: the last call

vars == <<kind, rows, seq, model, births, chosen, last>>

Present == {i \in Ids : rows[i] # Null}
NoCall == [op |-> "none"]

TypeOK ==
    /\ kind \in {"autoincrement", "rowid", "withoutRowId"}
    /\ \A i \in Present : /\ \A c \in Columns : rows[i][c] \in Stored
                          /\ rows[i].born \in 1..births
    /\ (kind = "autoincrement" => Present \subseteq 1..seq) /\ seq \in 0..MaxId /\ births \in 0..MaxBirths
    /\ model[Key] \in Ids \cup {Absent} /\ model.of \in 0..births
    /\ \A c \in Columns : model[c] \in Stored \cup {Absent}
    /\ chosen \in BOOLEAN

Init ==
    /\ kind \in {"autoincrement", "rowid", "withoutRowId"}
    /\ rows = [i \in Ids |-> Null] /\ seq = 0 /\ births = 0
    /\ model \in NewModels
    /\ chosen = FALSE /\ last = NoCall

-----------------------------------------------------------------------------
\* Statements

\* undefined is bound as null
ToDB(v) == IF v = Absent THEN Null ELSE v
Keys(m) == {p \in Properties : m[p] # Absent}

\* the row that INSERT writes: columns that are not named get their default
NewRow(m, keys) ==
    [c \in Columns \cup {"born"} |->
        IF c = "born" THEN births + 1
        ELSE IF c \in keys THEN ToDB(m[c]) ELSE Default[c]]

\* mutant: the ids of deleted rows come back in every table
GeneratedFromRows == 1 + (IF Present = {} THEN 0 ELSE Max(Present))

\* the id SQLite chooses: without AUTOINCREMENT those of deleted rows come back
Generated == 1 + (IF kind = "autoincrement" THEN seq
                  ELSE IF Present = {} THEN 0 ELSE Max(Present))

\* the row an object with this key refers to
RowOf(m) == IF m[Key] \in Present THEN {m[Key]} ELSE {}

Did(op, keys) == [op |-> op, keys |-> keys, of |-> model.of]
Rejected ==
    /\ last' = [op |-> "rejected"]
    /\ UNCHANGED <<kind, rows, seq, model, births, chosen>>

\* mutant: the object is not told
WrittenOnly(id, row, told) ==
    /\ rows' = [rows EXCEPT ![id] = row]
    /\ seq' = (IF kind = "autoincrement" THEN Max({seq, id}) ELSE seq)
    /\ births' = Max({births, row.born}) /\ model' = [model EXCEPT !["of"] = row.born]

\* a row is written under an id, and the object is told of the id
Written(id, row, told) ==
    /\ rows' = [rows EXCEPT ![id] = row]
    /\ seq' = (IF kind = "autoincrement" THEN Max({seq, id}) ELSE seq) /\ births' = Max({births, row.born})
    /\ model' = [p \in DOMAIN model |->
                    IF p = "of" THEN row.born ELSE IF p = Key /\ told THEN id ELSE model[p]]

-----------------------------------------------------------------------------
\* The program

Renew ==
    /\ model' \in NewModels
    /\ last' = NoCall /\ UNCHANGED <<kind, rows, seq, births, chosen>>

SetProperty(p, v) ==
    /\ model' = [model EXCEPT ![p] = v]
    /\ last' = NoCall /\ UNCHANGED <<kind, rows, seq, births, chosen>>

-----------------------------------------------------------------------------
\* insert and insertPartial

\* is a given id dropped, so that SQLite chooses one
DropsId(mode) ==
    /\ kind # "withoutRowId"
    /\ mode = "ForceAutoGeneration" \/ (mode = "default" /\ kind = "autoincrement")

InsertAs(op, keys, given) ==
    LET id == IF given = Null THEN Generated ELSE given IN
    /\ births < MaxBirths /\ id \in Ids
    /\ Written(id, NewRow(model, keys), kind # "withoutRowId")
    /\ chosen' = (chosen \/ given # Null)
    /\ last' = Did(op, keys) /\ UNCHANGED kind

Insert(keys, mode) ==
    LET m == model
        given == IF Key \notin keys \/ m[Key] \notin Ids \/ DropsId(mode) THEN Null ELSE m[Key]
    IN IF given \in Present \/ (given = Null /\ kind = "withoutRowId")
       THEN Rejected
       ELSE InsertAs("insert", keys, given)

\* replace and replacePartial: a row that is there is deleted and written anew;
\* the object is told of the id in tables with AUTOINCREMENT only
Replace(keys) ==
    LET m == model
        given == IF Key \in keys /\ m[Key] \in Ids THEN m[Key] ELSE Null
    IN IF given = Null /\ kind = "withoutRowId" THEN Rejected
       ELSE IF given \in Present
       THEN /\ Written(given, [NewRow(m, keys) EXCEPT !.born = rows[given].born], FALSE)
            /\ last' = Did("replace", keys) /\ UNCHANGED <<kind, chosen>>
       ELSE LET id == IF given = Null THEN Generated ELSE given IN
            /\ births < MaxBirths /\ id \in Ids
            \* a row that comes back under its id is still the same row
            /\ Written(id, IF given # Null /\ m.of # 0
                              THEN [NewRow(m, keys) EXCEPT !.born = m.of] ELSE NewRow(m, keys),
                       kind = "autoincrement")
            /\ chosen' = (chosen \/ (given # Null /\ m.of = 0))
            /\ last' = Did("replace", keys) /\ UNCHANGED kind

-----------------------------------------------------------------------------
\* update, updatePartial and updatePartialAll

\* mutant: the columns that are not named are cleared
SetAllColumns(row, m, keys) == [p \in DOMAIN row |-> IF p \in Columns THEN ToDB(m[p]) ELSE row[p]]

SetColumns(row, m, keys) == [p \in DOMAIN row |-> IF p \in keys THEN ToDB(m[p]) ELSE row[p]]

Update(keys) ==
    LET m == model IN
    IF keys \cap Columns = {} \/ RowOf(m) = {} THEN Rejected
    ELSE /\ rows' = [i \in Ids |-> IF i \in RowOf(m) THEN SetColumns(rows[i], m, keys) ELSE rows[i]]
         /\ last' = Did("update", keys)
         /\ UNCHANGED <<kind, seq, model, births, chosen>>

\* getWhereClause adds its host parameters to those of the new values
Matching(w, params) == {i \in Present : Selects(w, params, rows[i])}

\* a key among the values is bound, but the statement has no such parameter
UpdatePartialAll(w) ==
    LET m == model
        keys == Keys(m)
        found == Matching(w, [n \in {<<p, 0>> : p \in keys} |-> ToDB(m[n[1]])])
    IN IF Key \in keys \/ keys = {} \/ Throws(w) \/ found = {}
       THEN Rejected
       ELSE /\ rows' = [i \in Ids |-> IF i \in found THEN SetColumns(rows[i], m, keys) ELSE rows[i]]
            /\ last' = [op |-> "updatePartialAll", keys |-> keys, of |-> m.of, where |-> w]
            /\ UNCHANGED <<kind, seq, model, births, chosen>>

-----------------------------------------------------------------------------
\* deleteById and deleteAll

Delete ==
    LET m == model IN
    IF RowOf(m) = {} THEN Rejected
    ELSE /\ rows' = [i \in Ids |-> IF i \in RowOf(m) THEN Null ELSE rows[i]]
         /\ last' = Did("delete", {})
         /\ UNCHANGED <<kind, seq, model, births, chosen>>

DeleteAll(w) ==
    LET found == Matching(w, [n \in {} |-> Null]) IN
    IF Throws(w) \/ found = {} THEN Rejected
    ELSE /\ rows' = [i \in Ids |-> IF i \in found THEN Null ELSE rows[i]]
         /\ last' = [op |-> "deleteAll", keys |-> {}, of |-> model.of, where |-> w]
         /\ UNCHANGED <<kind, seq, model, births, chosen>>

-----------------------------------------------------------------------------
\* select, selectById and selectOne

Loaded(i) == [p \in Properties \cup {"of"} |->
    IF p = Key THEN i ELSE IF p = "of" THEN rows[i].born ELSE rows[i][p]]

SelectOf(found) ==
    IF Cardinality(found) # 1 THEN Rejected
    ELSE /\ model' = Loaded(CHOOSE i \in found : TRUE)
         /\ last' = NoCall /\ UNCHANGED <<kind, rows, seq, births, chosen>>

Select == SelectOf(RowOf(model))

SelectOne(w) ==
    LET found == Matching(w, [n \in {} |-> Null]) IN
    SelectOf(IF Throws(w) THEN {} ELSE found)

\* selectParentOf and selectByChild: the statement compares the key with the
\* value that the object has for the foreign key
ParentOf(m) == {i \in Present : i = ToDB(m[ForeignKey])}
SelectParentOf == SelectOf(ParentOf(model))

\* getForeignKeyPredicates, with the key of the object bound by bindForeignParams
ChildrenOf(m) == {i \in Present : rows[i][ForeignKey] \in {m[Key]} \cap Ids}

\* selectAllOf and selectAllChildsOf; a where-object is appended as text that is
\* no SQL
SelectAllOf(filter) ==
    IF filter # {} THEN Rejected
    ELSE /\ last' = [op |-> "selectAllOf", result |-> ChildrenOf(model)]
         /\ UNCHANGED <<kind, rows, seq, model, births, chosen>>

\* countAll and exists
Count(w) ==
    LET found == Matching(w, [n \in {} |-> Null]) IN
    IF Throws(w) THEN Rejected
    ELSE /\ last' = [op |-> "countAll", where |-> w, result |-> Cardinality(found)]
         /\ UNCHANGED <<kind, rows, seq, model, births, chosen>>

-----------------------------------------------------------------------------
\* What others do through objects of their own

OthersInsert ==
    /\ births < MaxBirths /\ kind # "withoutRowId" /\ Generated \in Ids
    /\ births' = births + 1 /\ rows' = [rows EXCEPT ![Generated] = NewRow(model, {})]
    /\ seq' = IF kind = "autoincrement" THEN Generated ELSE seq
    /\ last' = NoCall /\ UNCHANGED <<kind, model, chosen>>

OthersUpdate(i, p, v) ==
    /\ i \in Present /\ rows' = [rows EXCEPT ![i][p] = v]
    /\ last' = NoCall /\ UNCHANGED <<kind, seq, model, births, chosen>>

OthersDelete(i) ==
    /\ i \in Present /\ rows' = [rows EXCEPT ![i] = Null]
    /\ last' = NoCall /\ UNCHANGED <<kind, seq, model, births, chosen>>

Next ==
    \/ Renew
    \/ \E p \in Columns, v \in Assigned : SetProperty(p, v)
    \/ \E keys \in {Properties, Keys(model)} :
          \/ \E mode \in InsertModes : Insert(keys, mode)
          \/ Replace(keys) \/ Update(keys)
    \/ Delete \/ Select \/ SelectParentOf
    \/ \E filter \in {{}, Wheres} : SelectAllOf(filter)
    \/ \E w \in Wheres : UpdatePartialAll(w) \/ DeleteAll(w) \/ SelectOne(w) \/ Count(w)
    \/ OthersInsert
    \/ \E i \in Ids : OthersDelete(i)
    \/ \E i \in Ids, p \in Columns, v \in Assigned : OthersUpdate(i, p, v)

Spec == Init /\ [][Next]_vars

-----------------------------------------------------------------------------
\* Properties

Touched == {i \in Present : rows'[i] # rows[i]}
ById == {"update", "delete", "replace"}
ByWhere == {"updatePartialAll", "deleteAll", "countAll"}

\* In a table with AUTOINCREMENT whose ids are left to SQLite, a call with an
\* object never reaches another row than the one the object was read from or
\* inserted as, however long ago: once that is deleted the call is rejected.
NeverAnotherRow ==
    [][kind = "autoincrement" /\ ~chosen' /\ last'.op \in ById /\ last'.of # 0 =>
          \A i \in Touched : rows[i].born = last'.of]_vars

Meant(w) == {i \in Present : Means(w, rows[i]) = "true"}

\* updatePartialAll and deleteAll reach the rows that match, and no others, and
\* countAll counts them; a where-object that is taken for a Filter is the
\* exception.  selectAllOf finds the rows from which selectParentOf leads back to
\* the object, and no others.
OnlyMatching ==
    [][/\ last'.op \in ByWhere =>
             LET w == last'.where IN
             ~IsFilter(w) =>
                /\ Touched \subseteq Meant(w)
                /\ last'.op = "deleteAll" => Meant(w) \subseteq Touched
                /\ last'.op = "countAll" => last'.result = Cardinality(Meant(w))
       /\ last'.op = "selectAllOf" =>
             \A i \in Present :
                /\ i \in last'.result => ParentOf(Loaded(i)) = RowOf(model)
                /\ RowOf(model) # {} /\ ParentOf(Loaded(i)) = RowOf(model) => i \in last'.result]_vars

\* An update leaves the columns alone that its object does not name, which
\* others may have changed since the object was read.
OthersKept ==
    [][last'.op \in {"update", "updatePartialAll"} =>
          \A i \in Touched, p \in Columns \ last'.keys : rows'[i][p] = rows[i][p]]_vars

\* After a call that writes, the object agrees with the row under its id in all
\* that it names; in a table with AUTOINCREMENT it always has learnt the id.
AnswersHonest ==
    [][last'.op \in {"insert", "replace", "update"} =>
          LET m == model' IN
          /\ kind = "autoincrement" => m[Key] \in Ids
          /\ m[Key] \in Ids =>
                /\ rows'[m[Key]] # Null
                /\ \A p \in last'.keys \cap Columns : rows'[m[Key]][p] = ToDB(m[p])]_vars

\* "on update: all columns mapped to excluded properties are not affected"
ReplaceKeepsOthers ==
    [][last'.op = "replace" =>
          \A i \in Touched, p \in Columns \ last'.keys : rows'[i][p] = rows[i][p]]_vars
=============================================================================
