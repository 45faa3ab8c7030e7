SPECIFICATION Spec
CONSTANTS
    Models = {m1, m2, m3}
    T = T
    id = id
    id2 = id2
    date = date
    n1 = n1
    Tables = {T}
    Cols = {id, id2, date}
    ConstraintNames = {n1}
    Undef = Undef
    Declarations <- MCDeclarations
SYMMETRY Sym
INVARIANTS
    TablesInUse
    DeclarationsHold
    RowIdFits
    CacheIsCurrent
CHECK_DEADLOCK FALSE
