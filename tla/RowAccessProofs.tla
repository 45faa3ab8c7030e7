--------------------------- MODULE RowAccessProofs ---------------------------
(* Machine-checked safety of BaseDAO, for tables of any size, any model      *)
(* objects and values, and any where-objects: first what becomes of a        *)
(* where-object, then what the calls do.                                     *)
EXTENDS RowAccess, FiniteSetTheorems, SequenceTheorems, WellFoundedInduction, TLAPS

-----------------------------------------------------------------------------
\* Numbers, and functions defined by what they are at smaller numbers

\* A set of numbers has a smallest one.
LEMMA SmallestMember ==
    ASSUME NEW S \in SUBSET Nat, S # {}
    PROVE  \E m \in S : \A k \in S : m <= k
<1>1. IsWellFoundedOn(OpToRel(<, Nat), Nat)
  BY NatLessThanWellFounded
<1>2. PICK m \in S : \A k \in S : ~(<<k, m>> \in OpToRel(<, Nat))
  BY <1>1, WFMin
<1>3. m \in Nat
  OBVIOUS
<1>4. \A k \in S : m <= k
  <2> SUFFICES ASSUME NEW k \in S PROVE m <= k
    OBVIOUS
  <2>1. k \in Nat
    OBVIOUS
  <2>2. ~(k < m)
    BY <1>2, <1>3, <2>1 DEF OpToRel
  <2>. QED  BY <1>3, <2>1, <2>2
<1>. QED  BY <1>4

\* Induction, as far as it is needed.
LEMMA UpTo ==
    ASSUME NEW N \in Nat, NEW S, 0 \in S, \A k \in 0..N - 1 : k \in S => k + 1 \in S
    PROVE  0..N \subseteq S
<1> DEFINE B == {k \in 0..N : k \notin S}
<1> SUFFICES ASSUME B # {} PROVE FALSE
  OBVIOUS
<1>1. B \in SUBSET Nat /\ B # {}
  OBVIOUS
<1>2. PICK m \in B : \A k \in B : m <= k
  <2> HIDE DEF B
  <2>. QED  BY <1>1, SmallestMember
<1>3. m \in 0..N /\ m # 0 /\ m \notin S
  BY <1>2
<1>4. m - 1 \in 0..N - 1 /\ m - 1 \in 0..N /\ m - 1 + 1 = m
  BY <1>3
<1>5. m - 1 \in B
  BY <1>3, <1>4
<1>. QED  BY <1>2, <1>4, <1>5

\* A function may be defined by what it is at smaller numbers: G looks back.
LooksBack(G, a, N, X) ==
    /\ G \in [[a..N -> X] \X (a..N) -> X]
    /\ \A f, g \in [a..N -> X] : \A k \in a..N :
          (\A j \in a..k - 1 : f[j] = g[j]) => G[<<f, k>>] = G[<<g, k>>]
IsCourse(f, G, a, N, X) == f \in [a..N -> X] /\ \A k \in a..N : f[k] = G[<<f, k>>]

\* There is a function of this kind, so the ones the model defines are that.
LEMMA CourseExists ==
    ASSUME NEW a \in Nat, NEW N \in Nat, NEW X, X # {}, NEW G, LooksBack(G, a, N, X)
    PROVE  \E f : IsCourse(f, G, a, N, X)
<1> DEFINE Right(f, k) == \A i \in a..N : i < k => f[i] = G[<<f, i>>]
           S == {k \in 0..N + 1 : \E f \in [a..N -> X] : Right(f, k)}
<1>1. N + 1 \in Nat
  OBVIOUS
<1>2. 0 \in S
  <2>1. PICK x \in X : TRUE
    OBVIOUS
  <2> DEFINE f == [i \in a..N |-> x]
  <2>2. f \in [a..N -> X] /\ 0 \in 0..N + 1
    BY <2>1
  <2>3. Right(f, 0)
    OBVIOUS
  <2> HIDE DEF f, Right
  <2>. QED  BY <2>2, <2>3
<1>3. ASSUME NEW k \in 0..(N + 1) - 1, k \in S
      PROVE  k + 1 \in S
  <2>1. PICK f \in [a..N -> X] : Right(f, k)
    BY <1>3
  <2>2. CASE k \notin a..N
    <3>1. Right(f, k + 1)
      BY <2>1, <2>2
    <3>. QED  BY <3>1
  <2>3. CASE k \in a..N
    <3> DEFINE y == G[<<f, k>>]
               g == [f EXCEPT ![k] = y]
    <3>1. y \in X
      BY <2>3 DEF LooksBack
    <3> HIDE DEF y
    <3>2. g \in [a..N -> X] /\ g[k] = y /\ \A i \in a..N : i # k => g[i] = f[i]
      BY <2>3, <3>1
    <3> HIDE DEF g
    <3>3. ASSUME NEW i \in a..N, i < k + 1
          PROVE  g[i] = G[<<g, i>>]
      <4>1. \A j \in a..i - 1 : f[j] = g[j]
        BY <3>2, <3>3
      <4>2. G[<<f, i>>] = G[<<g, i>>]
        BY <3>2, <4>1 DEF LooksBack
      <4>3. CASE i = k
        BY <3>2, <4>2, <4>3 DEF y
      <4>4. CASE i # k
        BY <2>1, <3>2, <3>3, <4>2, <4>4
      <4>. QED  BY <4>3, <4>4
    <3>4. Right(g, k + 1)
      BY <3>3
    <3>. QED  BY <3>2, <3>4
  <2>. QED  BY <2>2, <2>3
<1>4. 0..N + 1 \subseteq S
  <2> HIDE DEF S
  <2>. QED  BY <1>1, <1>2, <1>3, UpTo
<1>5. PICK f \in [a..N -> X] : Right(f, N + 1)
  <2>1. N + 1 \in 0..N + 1
    OBVIOUS
  <2>2. N + 1 \in S
    BY <1>4, <2>1
  <2>. QED  BY <2>2
<1>. QED  BY <1>5 DEF IsCourse

-----------------------------------------------------------------------------
\* Host parameters

Names == Columns \X Nat
Params == {f \in UNION {[D -> Stored] : D \in SUBSET Names} : IsFiniteSet(DOMAIN f)}
More(f, g) == DOMAIN f \subseteq DOMAIN g /\ \A n \in DOMAIN f : g[n] = f[n]

\* A name that is chosen is not in use.
LEMMA FreshName ==
    ASSUME NEW prop, NEW params, IsFiniteSet(DOMAIN params)
    PROVE  /\ HostParameter(prop, params) \notin DOMAIN params
           /\ \E n \in Nat : HostParameter(prop, params) = <<prop, n>>
<1> DEFINE D == DOMAIN params
           c == Cardinality(D)
           free == {n \in 1..c + 1 : <<prop, n>> \notin D}
<1>1. c \in Nat
  BY FS_CardinalityType
<1>2. free # {}
  <2> SUFFICES ASSUME free = {} PROVE FALSE
    OBVIOUS
  <2> DEFINE f == [n \in 1..c + 1 |-> <<prop, n>>]
  <2>1. f \in [1..c + 1 -> D]
    OBVIOUS
  <2>2. IsFiniteSet(1..c + 1) /\ Cardinality(1..c + 1) = c + 1
    BY <1>1, FS_Interval
  <2>3. IsFiniteSet(D) /\ Cardinality(D) < Cardinality(1..c + 1)
    BY <1>1, <2>2, SMTT(30)
  <2>4. \E x, y \in 1..c + 1 : x # y /\ f[x] = f[y]
    <3> DEFINE I == 1..c + 1
    <3>1. f \in [I -> D] /\ IsFiniteSet(I) /\ IsFiniteSet(D) /\ Cardinality(D) < Cardinality(I)
      BY <2>1, <2>2, <2>3
    <3> HIDE DEF f, D, c, I
    <3>2. \E x, y \in I : x # y /\ f[x] = f[y]
      BY <3>1, FS_PigeonHole
    <3>. QED  BY <3>2 DEF I
  <2>. QED  BY <2>4
<1>3. free \in SUBSET Nat
  BY <1>1
<1>4. \E n \in free : \A k \in free : n <= k
  <2> HIDE DEF free
  <2>. QED  BY <1>2, <1>3, SmallestMember
<1> DEFINE m == CHOOSE n \in free : \A k \in free : n <= k
<1>5. m \in free
  <2> HIDE DEF free
  <2>. QED  BY <1>4
<1>6. HostParameter(prop, params) = <<prop, m>>
  BY DEF HostParameter
<1> HIDE DEF m
<1>. QED  BY <1>3, <1>5, <1>6

\* A value is bound to a name of its own.
LEMMA SetHostParameterIs ==
    ASSUME NEW prop \in Columns, NEW params \in Params, NEW v \in Stored
    PROVE  LET n == HostParameter(prop, params)
               q == SetHostParameter(prop, params, v)
           IN q \in Params /\ More(params, q) /\ n \in DOMAIN q /\ n \in Names /\ q[n] = v
<1> DEFINE n == HostParameter(prop, params)
           q == SetHostParameter(prop, params, v)
<1>1. IsFiniteSet(DOMAIN params) /\ DOMAIN params \in SUBSET Names /\ params \in [DOMAIN params -> Stored]
  BY DEF Params
<1>2. n \notin DOMAIN params /\ n \in Names
  BY <1>1, FreshName DEF Names
<1>3. q = [x \in DOMAIN params \cup {n} |-> IF x = n THEN v ELSE params[x]]
  BY DEF SetHostParameter
<1> HIDE DEF n, q
<1>4. DOMAIN q = DOMAIN params \cup {n} /\ q \in [DOMAIN params \cup {n} -> Stored]
  BY <1>1, <1>3
<1>5. IsFiniteSet(DOMAIN q) /\ DOMAIN q \in SUBSET Names
  BY <1>1, <1>2, <1>4, FS_AddElement
<1>6. q \in Params
  BY <1>4, <1>5 DEF Params
<1>7. More(params, q) /\ n \in DOMAIN q /\ q[n] = v
  BY <1>2, <1>3 DEF More
<1>. QED  BY <1>2, <1>6, <1>7 DEF n, q

LEMMA MoreTransitive == \A f, g, h : More(f, g) /\ More(g, h) => More(f, h)
BY DEF More

LEMMA MoreReflexive == \A f : More(f, f)
BY DEF More

\* Values are bound one after the other.
LEMMA BindingIs ==
    ASSUME NEW prop \in Columns, NEW values \in Seq(Stored), NEW params \in Params
    PROVE  LET b == Binding(prop, values, params) IN
           /\ b[0] = params
           /\ \A k \in 1..Len(values) : b[k] = SetHostParameter(prop, b[k - 1], values[k])
           /\ \A k \in 0..Len(values) : b[k] \in Params
<1> DEFINE N == Len(values)
           b == Binding(prop, values, params)
           Step(f, k) == IF k = 0 THEN params ELSE SetHostParameter(prop, f[k - 1], values[k])
           G == [z \in [0..N -> Params] \X (0..N) |-> Step(z[1], z[2])]
<1>1. N \in Nat /\ \A k \in 1..N : values[k] \in Stored
  OBVIOUS
<1>2. ASSUME NEW f \in [0..N -> Params], NEW k \in 0..N
      PROVE  Step(f, k) \in Params
  <2>1. CASE k = 0
    BY <2>1
  <2>2. CASE k # 0
    <3>1. k \in 1..N /\ f[k - 1] \in Params /\ values[k] \in Stored
      BY <1>1, <1>2, <2>2
    <3>. QED  BY <2>2, <3>1, SetHostParameterIs
  <2>. QED  BY <2>1, <2>2
<1> HIDE DEF N
<1>3. G \in [[0..N -> Params] \X (0..N) -> Params] /\ \A f \in [0..N -> Params], k \in 0..N : G[<<f, k>>] = Step(f, k)
  <2> HIDE DEF Step
  <2>. QED  BY <1>2
<1>4. LooksBack(G, 0, N, Params)
  <2> SUFFICES ASSUME NEW f \in [0..N -> Params], NEW g \in [0..N -> Params], NEW k \in 0..N,
                      \A j \in 0..k - 1 : f[j] = g[j]
               PROVE  Step(f, k) = Step(g, k)
    BY <1>3 DEF LooksBack
  <2>1. k # 0 => k - 1 \in 0..k - 1
    BY <1>1
  <2>. QED  BY <2>1
<1> HIDE DEF G
<1>5. PICK f : IsCourse(f, G, 0, N, Params)
  <2>1. 0 \in Nat /\ N \in Nat /\ Params # {}
    BY <1>1
  <2>. QED  BY <1>4, <2>1, CourseExists
<1>6. f = [k \in 0..N |-> IF k = 0 THEN params ELSE SetHostParameter(prop, f[k - 1], values[k])]
  BY <1>3, <1>5 DEF IsCourse
<1>7. b = [k \in 0..N |-> IF k = 0 THEN params ELSE SetHostParameter(prop, b[k - 1], values[k])]
  BY <1>6 DEF Binding, N
<1> HIDE DEF b
<1>8. b[0] = params /\ \A k \in 1..N : b[k] = SetHostParameter(prop, b[k - 1], values[k])
  BY <1>1, <1>7
<1>9. \A k \in 0..N : b[k] \in Params
  <2> DEFINE S == {k \in 0..N : b[k] \in Params}
  <2>1. 0 \in S
    BY <1>1, <1>8
  <2>2. ASSUME NEW k \in 0..N - 1, k \in S
        PROVE  k + 1 \in S
    <3>1. k + 1 \in 1..N /\ (k + 1) - 1 = k /\ k + 1 \in 0..N
      BY <1>1
    <3>2. b[k + 1] = SetHostParameter(prop, b[k], values[k + 1]) /\ values[k + 1] \in Stored /\ b[k] \in Params
      BY <1>1, <1>8, <2>2, <3>1
    <3>. QED  BY <3>1, <3>2, SetHostParameterIs
  <2>3. 0..N \subseteq S
    <3> HIDE DEF S
    <3>. QED  BY <1>1, <2>1, <2>2, UpTo
  <2>. QED  BY <2>3
<1>. QED  BY <1>8, <1>9 DEF b, N

\* What only grows from step to step grows from any step to any later one.
LEMMA Growth ==
    ASSUME NEW N \in Nat, NEW h, \A k \in 1..N : More(h[k - 1], h[k])
    PROVE  \A k \in 0..N : \A j \in 0..k : More(h[j], h[k])
<1> DEFINE S == {k \in 0..N : \A j \in 0..k : More(h[j], h[k])}
<1>1. 0 \in S
  BY MoreReflexive
<1>2. ASSUME NEW k \in 0..N - 1, k \in S
      PROVE  k + 1 \in S
  <2>1. k + 1 \in 1..N /\ (k + 1) - 1 = k /\ k + 1 \in 0..N
    OBVIOUS
  <2>2. More(h[k], h[k + 1])
    BY <2>1
  <2>3. ASSUME NEW j \in 0..k + 1
        PROVE  More(h[j], h[k + 1])
    <3>1. CASE j = k + 1
      BY <3>1, MoreReflexive
    <3>2. CASE j # k + 1
      <4>1. j \in 0..k
        BY <3>2
      <4>2. More(h[j], h[k])
        BY <1>2, <4>1
      <4>. QED  BY <2>2, <4>2, MoreTransitive
    <3>. QED  BY <3>1, <3>2
  <2>. QED  BY <2>1, <2>3
<1>3. 0..N \subseteq S
  <2> HIDE DEF S
  <2>. QED  BY <1>1, <1>2, UpTo
<1>. QED  BY <1>3

\* All values of a predicate are bound, each to the name that was chosen for it.
LEMMA BindingBinds ==
    ASSUME NEW prop \in Columns, NEW values \in Seq(Stored), NEW params \in Params
    PROVE  LET b == Binding(prop, values, params)
               q == b[Len(values)]
           IN /\ q \in Params /\ More(params, q)
              /\ \A k \in 1..Len(values) :
                    LET n == HostParameter(prop, b[k - 1])
                    IN n \in Names /\ n \in DOMAIN q /\ q[n] = values[k]
<1> DEFINE N == Len(values)
           b == Binding(prop, values, params)
           n(k) == HostParameter(prop, b[k - 1])
<1>1. N \in Nat /\ \A k \in 1..N : values[k] \in Stored /\ k - 1 \in 0..N /\ k \in 0..N
  OBVIOUS
<1>2. /\ b[0] = params
      /\ \A k \in 1..N : b[k] = SetHostParameter(prop, b[k - 1], values[k])
      /\ \A k \in 0..N : b[k] \in Params
  BY BindingIs
<1> HIDE DEF b, N
<1>3. ASSUME NEW k \in 1..N
      PROVE  More(b[k - 1], b[k]) /\ n(k) \in DOMAIN b[k] /\ n(k) \in Names /\ b[k][n(k)] = values[k]
  BY <1>1, <1>2, SetHostParameterIs, SMTT(30)
<1>4. \A k \in 0..N : \A j \in 0..k : More(b[j], b[k])
  BY <1>1, <1>3, Growth
<1>5. 0 \in 0..N /\ N \in 0..N /\ \A k \in 0..N : k \in 0..N
  BY <1>1
<1>6. \A k \in 0..N : More(b[k], b[N])
  BY <1>4, <1>5
<1>7. ASSUME NEW k \in 1..N
      PROVE  n(k) \in Names /\ n(k) \in DOMAIN b[N] /\ b[N][n(k)] = values[k]
  <2>1. More(b[k], b[N])
    BY <1>1, <1>6
  <2> HIDE DEF n
  <2>. QED  BY <1>3, <2>1 DEF More
<1>8. b[N] \in Params /\ More(params, b[N])
  BY <1>2, <1>5, <1>6
<1>. QED  BY <1>7, <1>8 DEF b, N

-----------------------------------------------------------------------------
\* Clauses

\* the clauses that may become of the conditions of a where-object
Clauses(w) ==
    {Empty}
    \cup {[op |-> "holds", by |-> Operator(w[k]), prop |-> w[k].prop, names |-> ns] :
              k \in 1..Len(w), ns \in Seq(Names)}
    \cup [op : {"not", "and", "or"}, parts : SUBSET (1..Len(w))]
Progress(w) == [sql : Seq(Clauses(w)), params : Params]

\* a predicate, with its values under their names
Binds(c, p, params) ==
    /\ c # Empty /\ c.op = "holds" /\ c.by = Operator(p) /\ c.prop = p.prop
    /\ Len(c.names) = Len(Values(p))
    /\ \A i \in 1..Len(Values(p)) : c.names[i] \in DOMAIN params /\ params[c.names[i]] = Values(p)[i]

LEMMA BindsLonger ==
    ASSUME NEW c, NEW p, NEW f, NEW g, Binds(c, p, f), More(f, g)
    PROVE  Binds(c, p, g)
BY DEF Binds, More

LEMMA PredicateSqlIs ==
    ASSUME NEW w, IsWhere(w), ~Throws(w), NEW k \in Predicates(w), NEW r \in Progress(w)
    PROVE  LET q == PredicateSql(r, w[k]) IN
           /\ q \in Progress(w) /\ More(r.params, q.params)
           /\ \E c \in Clauses(w) : q.sql = Append(r.sql, c) /\ Binds(c, w[k], q.params)
<1> DEFINE p == w[k]
           b == Binding(p.prop, Values(p), r.params)
           N == Len(Values(p))
           ns == [i \in 1..N |-> HostParameter(p.prop, b[i - 1])]
           c == [op |-> "holds", by |-> Operator(p), prop |-> p.prop, names |-> ns]
           q == PredicateSql(r, p)
<1>1. k \in 1..Len(w) /\ p.prop \in Columns /\ Values(p) \in Seq(Stored) /\ r.params \in Params /\ N \in Nat
  BY DEF IsWhere, Throws, Predicates, Progress
<1>2. q = [sql |-> Append(r.sql, c), params |-> b[N]]
  BY DEF PredicateSql
<1>3. /\ b[N] \in Params /\ More(r.params, b[N])
      /\ \A i \in 1..N :
            LET n == HostParameter(p.prop, b[i - 1])
            IN n \in Names /\ n \in DOMAIN b[N] /\ b[N][n] = Values(p)[i]
  BY <1>1, BindingBinds
<1> HIDE DEF b
<1>4. \A i \in 1..N : ns[i] \in Names /\ ns[i] \in DOMAIN b[N] /\ b[N][ns[i]] = Values(p)[i]
  BY <1>3
<1>5. ns \in Seq(Names) /\ Len(ns) = N
  <2>1. ns \in [1..N -> Names]
    BY <1>4
  <2> HIDE DEF ns
  <2>. QED  BY <1>1, <2>1, SeqDef, LenProperties
<1> HIDE DEF ns, N
<1>6. c \in Clauses(w)
  BY <1>1, <1>5 DEF Clauses
<1>7. c # Empty /\ c.op = "holds" /\ c.by = Operator(p) /\ c.prop = p.prop /\ c.names = ns
  BY DEF Empty
<1> HIDE DEF c
<1>8. Binds(c, p, b[N])
  BY <1>4, <1>5, <1>7 DEF Binds, N
<1>9. Append(r.sql, c) \in Seq(Clauses(w))
  BY <1>6, AppendProperties DEF Progress
<1> HIDE DEF q, p
<1>. QED  BY <1>2, <1>3, <1>6, <1>8, <1>9 DEF Progress, q, p

\* the parts of a condition that are not empty
Parts(c, sql) == {j \in c.subs : sql[j] # Empty}

LEMMA ConditionSqlIs ==
    ASSUME NEW w, IsWhere(w), NEW k \in 1..Len(w), k \notin Predicates(w), NEW r \in Progress(w)
    PROVE  LET q == ConditionSql(r, w[k])
               c == Clause(w[k].kind, Parts(w[k], r.sql))
           IN q \in Progress(w) /\ q.params = r.params /\ c \in Clauses(w) /\ q.sql = Append(r.sql, c)
<1> DEFINE parts == Parts(w[k], r.sql)
           c == Clause(w[k].kind, parts)
           q == ConditionSql(r, w[k])
<1>1. w[k].kind \in {"predicates", "not", "and", "or"} /\ w[k].subs \subseteq 1..k - 1 /\ Len(w) \in Nat
  BY DEF IsWhere, IsCondition
<1>2. parts \in SUBSET (1..Len(w))
  BY <1>1 DEF Parts
<1> HIDE DEF parts
<1>3. c \in Clauses(w)
  <2>1. CASE parts = {}
    BY <2>1 DEF Clause, Clauses
  <2>2. CASE parts # {}
    <3> DEFINE o == IF w[k].kind = "predicates" THEN "and" ELSE w[k].kind
    <3>1. o \in {"not", "and", "or"}
      BY <1>1
    <3>2. c = [op |-> o, parts |-> parts]
      BY <2>2 DEF Clause
    <3> HIDE DEF o
    <3>3. c \in [op : {"not", "and", "or"}, parts : SUBSET (1..Len(w))]
      BY <1>2, <3>1, <3>2
    <3> HIDE DEF c
    <3>. QED  BY <3>3 DEF Clauses
  <2>. QED  BY <2>1, <2>2
<1>4. q = [r EXCEPT !.sql = Append(r.sql, c)]
  BY DEF ConditionSql, parts, Parts
<1> HIDE DEF c, q
<1>5. Append(r.sql, c) \in Seq(Clauses(w))
  BY <1>3, AppendProperties DEF Progress
<1>6. q \in Progress(w) /\ q.params = r.params /\ q.sql = Append(r.sql, c)
  BY <1>4, <1>5 DEF Progress
<1>. QED  BY <1>3, <1>6 DEF q, c, parts

\* The conditions are translated one after the other.
LEMMA TranslatingIs ==
    ASSUME NEW w, IsWhere(w), ~Throws(w), NEW params \in Params
    PROVE  LET t == Translating(w, params) IN
           /\ t[0] = [sql |-> <<>>, params |-> params]
           /\ \A k \in 1..Len(w) :
                 t[k] = IF k \in Predicates(w) THEN PredicateSql(t[k - 1], w[k]) ELSE ConditionSql(t[k - 1], w[k])
           /\ \A k \in 0..Len(w) : t[k] \in Progress(w)
<1> DEFINE N == Len(w)
           X == Progress(w)
           x == [sql |-> <<>>, params |-> params]
           t == Translating(w, params)
           Next1(r, k) == IF k \in Predicates(w) THEN PredicateSql(r, w[k]) ELSE ConditionSql(r, w[k])
           Step(f, k) == IF k = 0 THEN x ELSE Next1(f[k - 1], k)
           G == [z \in [0..N -> X] \X (0..N) |-> Step(z[1], z[2])]
<1>1. N \in Nat
  BY DEF IsWhere
<1>2. x \in X
  BY DEF Progress
<1>3. ASSUME NEW r \in X, NEW k \in 1..N
      PROVE  Next1(r, k) \in X
  <2>1. CASE k \in Predicates(w)
    BY <2>1, PredicateSqlIs
  <2>2. CASE k \notin Predicates(w)
    BY <2>2, ConditionSqlIs
  <2>. QED  BY <2>1, <2>2
<1> HIDE DEF N, X, x, Next1
<1>4. ASSUME NEW f \in [0..N -> X], NEW k \in 0..N
      PROVE  Step(f, k) \in X
  <2>1. k # 0 => k \in 1..N /\ k - 1 \in 0..N
    BY <1>1
  <2>. QED  BY <1>2, <1>3, <2>1
<1>5. G \in [[0..N -> X] \X (0..N) -> X] /\ \A f \in [0..N -> X], k \in 0..N : G[<<f, k>>] = Step(f, k)
  <2> HIDE DEF Step
  <2>. QED  BY <1>4
<1>6. LooksBack(G, 0, N, X)
  <2> SUFFICES ASSUME NEW f \in [0..N -> X], NEW g \in [0..N -> X], NEW k \in 0..N,
                      \A j \in 0..k - 1 : f[j] = g[j]
               PROVE  Step(f, k) = Step(g, k)
    BY <1>5 DEF LooksBack
  <2>1. k # 0 => k - 1 \in 0..k - 1
    BY <1>1
  <2>. QED  BY <2>1
<1> HIDE DEF G
<1>7. PICK f : IsCourse(f, G, 0, N, X)
  <2>1. 0 \in Nat /\ N \in Nat /\ X # {}
    BY <1>1, <1>2
  <2>. QED  BY <1>6, <2>1, CourseExists
<1>8. f = [k \in 0..N |-> IF k = 0 THEN x
                          ELSE IF k \in Predicates(w) THEN PredicateSql(f[k - 1], w[k])
                          ELSE ConditionSql(f[k - 1], w[k])]
  <2>1. f = [k \in 0..N |-> Step(f, k)]
    <3> HIDE DEF Step
    <3>. QED  BY <1>5, <1>7 DEF IsCourse
  <2>. QED  BY <2>1 DEF Next1
<1>9. t = [k \in 0..N |-> IF k = 0 THEN x
                          ELSE IF k \in Predicates(w) THEN PredicateSql(t[k - 1], w[k])
                          ELSE ConditionSql(t[k - 1], w[k])]
  BY <1>8 DEF Translating, N, x
<1> HIDE DEF t
<1>10. t[0] = x /\ \A k \in 1..N : t[k] = Next1(t[k - 1], k)
  BY <1>1, <1>9 DEF Next1
<1>11. \A k \in 0..N : t[k] \in X
  <2> DEFINE S == {k \in 0..N : t[k] \in X}
  <2>1. 0 \in S
    BY <1>1, <1>2, <1>10
  <2>2. ASSUME NEW k \in 0..N - 1, k \in S
        PROVE  k + 1 \in S
    <3>1. k + 1 \in 1..N /\ (k + 1) - 1 = k /\ k + 1 \in 0..N
      BY <1>1
    <3>2. t[k + 1] = Next1(t[k], k + 1) /\ t[k] \in X
      BY <1>10, <2>2, <3>1
    <3>. QED  BY <1>3, <3>1, <3>2
  <2>3. 0..N \subseteq S
    <3> HIDE DEF S
    <3>. QED  BY <1>1, <2>1, <2>2, UpTo
  <2>. QED  BY <2>3
<1>. QED  BY <1>10, <1>11 DEF t, N, x, X, Next1

\* What toSql has made of a where-object.
LEMMA toSqlIs ==
    ASSUME NEW w, IsWhere(w), ~Throws(w), NEW params \in Params
    PROVE  LET r == toSql(w, params) IN
           /\ Len(r.sql) = Len(w)
           /\ \A k \in Predicates(w) : Binds(r.sql[k], w[k], r.params)
           /\ \A k \in 1..Len(w) \ Predicates(w) :
                 r.sql[k] = Clause(w[k].kind, Parts(w[k], r.sql))
<1> DEFINE N == Len(w)
           t == Translating(w, params)
<1>1. N \in Nat
  BY DEF IsWhere
<1>2. /\ t[0] = [sql |-> <<>>, params |-> params]
      /\ \A k \in 1..N :
            t[k] = IF k \in Predicates(w) THEN PredicateSql(t[k - 1], w[k]) ELSE ConditionSql(t[k - 1], w[k])
      /\ \A k \in 0..N : t[k] \in Progress(w)
  BY TranslatingIs
<1>3. toSql(w, params) = t[N]
  BY DEF toSql
<1> HIDE DEF t
<1>4. ASSUME NEW k \in 1..N
      PROVE  /\ More(t[k - 1].params, t[k].params)
             /\ \E c \in Clauses(w) :
                   /\ t[k].sql = Append(t[k - 1].sql, c)
                   /\ k \in Predicates(w) => Binds(c, w[k], t[k].params)
                   /\ k \notin Predicates(w) => c = Clause(w[k].kind, Parts(w[k], t[k - 1].sql))
  <2>1. t[k - 1] \in Progress(w)
    <3>1. k - 1 \in 0..N
      BY <1>1
    <3>. QED  BY <1>2, <3>1
  <2>2. CASE k \in Predicates(w)
    <3>1. t[k] = PredicateSql(t[k - 1], w[k])
      BY <1>2, <2>2
    <3>. QED  BY <2>1, <2>2, <3>1, PredicateSqlIs
  <2>3. CASE k \notin Predicates(w)
    <3>1. t[k] = ConditionSql(t[k - 1], w[k])
      BY <1>2, <2>3
    <3> DEFINE x == Clause(w[k].kind, Parts(w[k], t[k - 1].sql))
    <3>2. t[k].params = t[k - 1].params /\ x \in Clauses(w) /\ t[k].sql = Append(t[k - 1].sql, x)
      <4> DEFINE y == t[k - 1]
      <4>1. y \in Progress(w) /\ k \in 1..Len(w) /\ k \notin Predicates(w) /\ t[k] = ConditionSql(y, w[k])
        BY <2>1, <2>3, <3>1
      <4> HIDE DEF y
      <4>2. /\ ConditionSql(y, w[k]).params = y.params /\ Clause(w[k].kind, Parts(w[k], y.sql)) \in Clauses(w)
            /\ ConditionSql(y, w[k]).sql = Append(y.sql, Clause(w[k].kind, Parts(w[k], y.sql)))
        BY <4>1, ConditionSqlIs
      <4>. QED  BY <4>1, <4>2, ZenonT(30) DEF y
    <3>. QED  BY <2>3, <3>2, MoreReflexive
  <2>. QED  BY <2>2, <2>3
<1>5. PICK c \in [1..N -> Clauses(w)] : \A k \in 1..N :
         /\ t[k].sql = Append(t[k - 1].sql, c[k])
         /\ k \in Predicates(w) => Binds(c[k], w[k], t[k].params)
         /\ k \notin Predicates(w) => c[k] = Clause(w[k].kind, Parts(w[k], t[k - 1].sql))
  <2> DEFINE Right(k, x) ==
         /\ t[k].sql = Append(t[k - 1].sql, x)
         /\ k \in Predicates(w) => Binds(x, w[k], t[k].params)
         /\ k \notin Predicates(w) => x = Clause(w[k].kind, Parts(w[k], t[k - 1].sql))
  <2>1. \A k \in 1..N : \E x \in Clauses(w) : Right(k, x)
    BY <1>4
  <2> DEFINE d == [k \in 1..N |-> CHOOSE x \in Clauses(w) : Right(k, x)]
  <2>2. d \in [1..N -> Clauses(w)] /\ \A k \in 1..N : Right(k, d[k])
    <3> HIDE DEF Right
    <3>. QED  BY <2>1
  <2>. QED  BY <2>2
<1>6. \A k \in 0..N : Len(t[k].sql) = k /\ \A i \in 1..k : t[k].sql[i] = c[i]
  <2> DEFINE S == {k \in 0..N : Len(t[k].sql) = k /\ \A i \in 1..k : t[k].sql[i] = c[i]}
  <2>1. 0 \in S
    BY <1>1, <1>2
  <2>2. ASSUME NEW k \in 0..N - 1, k \in S
        PROVE  k + 1 \in S
    <3>1. k + 1 \in 1..N /\ (k + 1) - 1 = k /\ k + 1 \in 0..N /\ k \in 0..N
      BY <1>1
    <3>2. t[k + 1].sql = Append(t[k].sql, c[k + 1]) /\ c[k + 1] \in Clauses(w) /\ t[k].sql \in Seq(Clauses(w))
      BY <1>2, <1>5, <3>1 DEF Progress
    <3>3. /\ Len(t[k + 1].sql) = Len(t[k].sql) + 1
          /\ \A i \in 1..Len(t[k].sql) : t[k + 1].sql[i] = t[k].sql[i]
          /\ t[k + 1].sql[Len(t[k].sql) + 1] = c[k + 1]
      BY <3>2, AppendProperties
    <3>4. Len(t[k].sql) = k /\ \A i \in 1..k : t[k].sql[i] = c[i]
      BY <2>2
    <3>5. \A i \in 1..k + 1 : i \in 1..k \/ i = k + 1
      BY <3>1
    <3>. QED  BY <3>1, <3>3, <3>4, <3>5
  <2>3. 0..N \subseteq S
    <3> HIDE DEF S
    <3>. QED  BY <1>1, <2>1, <2>2, UpTo
  <2>. QED  BY <2>3
<1>7. \A k \in 1..N : More(t[k].params, t[N].params)
  <2> DEFINE h == [k \in 0..N |-> t[k].params]
  <2>1. \A k \in 1..N : k - 1 \in 0..N /\ k \in 0..N
    BY <1>1
  <2>2. \A k \in 1..N : More(h[k - 1], h[k])
    BY <1>4, <2>1
  <2>3. \A k \in 0..N : \A j \in 0..k : More(h[j], h[k])
    <3> HIDE DEF h
    <3>. QED  BY <1>1, <2>2, Growth
  <2>4. N \in 0..N /\ \A k \in 1..N : k \in 0..N
    BY <1>1
  <2>. QED  BY <2>3, <2>4
<1>8. Len(t[N].sql) = N /\ \A i \in 1..N : t[N].sql[i] = c[i]
  BY <1>1, <1>6
<1>9. ASSUME NEW k \in Predicates(w)
      PROVE  Binds(t[N].sql[k], w[k], t[N].params)
  <2>1. k \in 1..N
    BY DEF Predicates
  <2>. QED  BY <1>5, <1>7, <1>8, <2>1, BindsLonger
<1>10. ASSUME NEW k \in 1..N, k \notin Predicates(w)
       PROVE  t[N].sql[k] = Clause(w[k].kind, Parts(w[k], t[N].sql))
  <2>1. w[k].subs \subseteq 1..k - 1
    BY <1>10 DEF IsWhere, IsCondition
  <2>2. \A j \in 1..k - 1 : t[k - 1].sql[j] = c[j] /\ t[N].sql[j] = c[j]
    <3>1. k - 1 \in 0..N /\ \A j \in 1..k - 1 : j \in 1..N
      BY <1>1
    <3>. QED  BY <1>6, <1>8, <3>1
  <2>3. Parts(w[k], t[k - 1].sql) = Parts(w[k], t[N].sql)
    BY <2>1, <2>2 DEF Parts
  <2>. QED  BY <1>5, <1>8, <1>10, <2>3
<1>. QED  BY <1>3, <1>8, <1>9, <1>10 DEF N

-----------------------------------------------------------------------------
\* What is said, and what it means

\* The set Says(w) is closed: a condition says something if one of its own does.
LEMMA SaysIs ==
    ASSUME NEW w, IsWhere(w)
    PROVE  /\ Says(w) \subseteq 1..Len(w)
           /\ \A k \in 1..Len(w) : k \in Says(w) <=> k \in Predicates(w) \/ w[k].subs \cap Says(w) # {}
<1> DEFINE N == Len(w)
           X == SUBSET (1..N)
           t == Saying(w)
           Own(S, k) == {i \in {k} : k \in Predicates(w) \/ w[k].subs \cap S # {}}
           Step(f, k) == IF k = 0 THEN {} ELSE f[k - 1] \cup Own(f[k - 1], k)
           G == [z \in [0..N -> X] \X (0..N) |-> Step(z[1], z[2])]
<1>1. N \in Nat /\ {} \in X
  BY DEF IsWhere
<1>2. ASSUME NEW S \in X, NEW k \in 1..N
      PROVE  S \cup Own(S, k) \in X
  OBVIOUS
<1> HIDE DEF N, X, Own
<1>3. ASSUME NEW f \in [0..N -> X], NEW k \in 0..N
      PROVE  Step(f, k) \in X
  <2>1. k # 0 => k \in 1..N /\ k - 1 \in 0..N
    BY <1>1
  <2>. QED  BY <1>1, <1>2, <2>1
<1>4. G \in [[0..N -> X] \X (0..N) -> X] /\ \A f \in [0..N -> X], k \in 0..N : G[<<f, k>>] = Step(f, k)
  <2> HIDE DEF Step
  <2>. QED  BY <1>3
<1>5. LooksBack(G, 0, N, X)
  <2>1. ASSUME NEW f \in [0..N -> X], NEW g \in [0..N -> X], NEW k \in 0..N,
               \A j \in 0..k - 1 : f[j] = g[j]
        PROVE  Step(f, k) = Step(g, k)
    <3>1. k # 0 => k - 1 \in 0..k - 1
      BY <1>1
    <3>. QED  BY <2>1, <3>1
  <2> HIDE DEF Step
  <2>. QED  BY <1>4, <2>1 DEF LooksBack
<1> HIDE DEF G
<1>6. PICK f : IsCourse(f, G, 0, N, X)
  <2>1. 0 \in Nat /\ N \in Nat /\ X # {}
    BY <1>1
  <2>. QED  BY <1>5, <2>1, CourseExists
<1>7. f = [k \in 0..N |-> Step(f, k)]
  <2> HIDE DEF Step
  <2>. QED  BY <1>4, <1>6 DEF IsCourse
<1>8. t = [k \in 0..N |-> Step(t, k)]
  BY <1>7, ZenonT(30) DEF Saying, N, Own
<1> HIDE DEF t
<1>9. t[0] = {} /\ \A k \in 1..N : t[k] = t[k - 1] \cup Own(t[k - 1], k)
  BY <1>1, <1>8
<1> DEFINE S == {k \in 0..N : /\ t[k] \subseteq 1..k
                              /\ \A i \in 1..k : i \in t[k] <=> i \in Predicates(w) \/ w[i].subs \cap t[k] # {}}
<1>10. 0 \in S
  BY <1>1, <1>9
<1>11. ASSUME NEW k \in 0..N - 1, k \in S
       PROVE  k + 1 \in S
  <2>1. k + 1 \in 1..N /\ (k + 1) - 1 = k /\ k + 1 \in 0..N /\ k \in Nat
    BY <1>1
  <2>2. t[k + 1] = t[k] \cup Own(t[k], k + 1)
    BY <1>9, <2>1
  <2>3. /\ t[k] \subseteq 1..k
        /\ \A i \in 1..k : i \in t[k] <=> i \in Predicates(w) \/ w[i].subs \cap t[k] # {}
    BY <1>11
  <2>4. /\ Own(t[k], k + 1) \subseteq {k + 1}
        /\ k + 1 \in Own(t[k], k + 1) <=> k + 1 \in Predicates(w) \/ w[k + 1].subs \cap t[k] # {}
    BY DEF Own
  <2>5. \A i \in 1..k + 1 : i \notin Predicates(w) => w[i].subs \subseteq 1..k /\ w[i].subs \subseteq 1..i - 1
    <3> SUFFICES ASSUME NEW i \in 1..k + 1, i \notin Predicates(w)
                 PROVE  w[i].subs \subseteq 1..k /\ w[i].subs \subseteq 1..i - 1
      OBVIOUS
    <3>1. i \in 1..Len(w)
      BY <1>1, <2>1 DEF N
    <3>2. w[i].subs \subseteq 1..i - 1
      BY <3>1 DEF IsWhere, IsCondition
    <3>3. 1..i - 1 \subseteq 1..k
      BY <2>1
    <3>. QED  BY <3>2, <3>3
  <2>6. t[k + 1] \subseteq 1..k + 1
    <3>1. 1..k \subseteq 1..k + 1 /\ k + 1 \in 1..k + 1
      BY <2>1
    <3>. QED  BY <2>2, <2>3, <2>4, <3>1
  <2>7. k + 1 \notin 1..k /\ \A i \in 1..k + 1 : i \in 1..k \/ i = k + 1
    BY <2>1
  <2> DEFINE m == k + 1
  <2> HIDE DEF m, Own
  <2>8. ASSUME NEW i \in 1..m
        PROVE  i \in t[m] <=> i \in Predicates(w) \/ w[i].subs \cap t[m] # {}
    <3>1. t[m] = t[k] \cup Own(t[k], m) /\ Own(t[k], m) \subseteq {m} /\ m \notin 1..k /\ (i \in 1..k \/ i = m)
      BY <2>2, <2>4, <2>7 DEF m
    <3>2. i \notin Predicates(w) => w[i].subs \subseteq 1..k
      BY <2>5 DEF m
    <3>3. i \notin Predicates(w) => w[i].subs \cap t[m] = w[i].subs \cap t[k]
      BY <3>1, <3>2
    <3>4. CASE i = m
      <4>1. m \in t[m] <=> m \in Own(t[k], m)
        BY <2>3, <3>1
      <4>. QED  BY <2>4, <3>3, <3>4, <4>1 DEF m
    <3>5. CASE i # m
      <4>1. i \in 1..k /\ (i \in t[m] <=> i \in t[k])
        BY <3>1, <3>5
      <4>. QED  BY <2>3, <3>3, <4>1
    <3>. QED  BY <3>4, <3>5
  <2>. QED  BY <2>1, <2>6, <2>8 DEF m
<1>12. 0..N \subseteq S
  <2> HIDE DEF S
  <2>. QED  BY <1>1, <1>10, <1>11, UpTo
<1>13. Says(w) = t[N] /\ N \in 0..N
  BY <1>1 DEF Says, t, N
<1>. QED  BY <1>12, <1>13 DEF N

\* What has become of a condition and of its parts.
LEMMA ClauseIs ==
    ASSUME NEW o \in {"predicates", "not", "and", "or"}, NEW parts
    PROVE  LET c == Clause(o, parts) IN
           /\ parts = {} => c = Empty
           /\ parts # {} => /\ c # Empty /\ c.op # "holds" /\ c.parts = parts
                            /\ c.op = IF o = "predicates" THEN "and" ELSE o
<1>1. CASE parts = {}
  BY <1>1 DEF Clause
<1>2. CASE parts # {}
  <2> DEFINE joined == IF o = "predicates" THEN "and" ELSE o
  <2>1. joined \in {"not", "and", "or"}
    OBVIOUS
  <2>2. Clause(o, parts) = [op |-> joined, parts |-> parts]
    BY <1>2 DEF Clause
  <2> HIDE DEF joined
  <2>3. Empty.op = "empty" /\ [op |-> joined, parts |-> parts].op = joined
    BY DEF Empty
  <2>4. [op |-> joined, parts |-> parts] # Empty
    BY <2>1, <2>3
  <2>. QED  BY <1>2, <2>1, <2>2, <2>4 DEF joined
<1>. QED  BY <1>1, <1>2

\* A clause is empty exactly if the condition says nothing.
LEMMA EmptyOrSaid ==
    ASSUME NEW w, IsWhere(w), ~Throws(w), NEW params \in Params, NEW k \in 1..Len(w)
    PROVE  toSql(w, params).sql[k] # Empty <=> k \in Says(w)
<1> DEFINE N == Len(w)
           sql == toSql(w, params).sql
           Right(i) == sql[i] # Empty <=> i \in Says(w)
           S == {j \in 0..N : \A i \in 1..j : Right(i)}
<1>1. N \in Nat
  BY DEF IsWhere
<1>2. 0 \in S
  BY <1>1
<1>3. ASSUME NEW j \in 0..N - 1, j \in S
      PROVE  j + 1 \in S
  <2>1. j + 1 \in 1..N /\ j + 1 \in 0..N /\ (j + 1) - 1 = j /\ \A i \in 1..j + 1 : i \in 1..j \/ i = j + 1
    BY <1>1
  <2> DEFINE m == j + 1
  <2>2. Right(m)
    <3>1. CASE m \in Predicates(w)
      <4>1. Binds(sql[m], w[m], toSql(w, params).params) /\ m \in Says(w)
        BY <2>1, <3>1, toSqlIs, SaysIs
      <4>. QED  BY <4>1 DEF Binds
    <3>2. CASE m \notin Predicates(w)
      <4>1. sql[m] = Clause(w[m].kind, Parts(w[m], sql))
        BY <2>1, <3>2, toSqlIs
      <4>2. m \in Says(w) <=> w[m].subs \cap Says(w) # {}
        BY <2>1, <3>2, SaysIs
      <4>3. w[m].subs \subseteq 1..j
        BY <2>1, <3>2 DEF IsWhere, IsCondition
      <4>4. \A i \in 1..j : Right(i)
        BY <1>3
      <4>5. Parts(w[m], sql) = w[m].subs \cap Says(w)
        <5> HIDE DEF sql, m
        <5>. QED  BY <4>3, <4>4 DEF Parts
      <4>6. sql[m] # Empty <=> Parts(w[m], sql) # {}
        <5>1. w[m].kind \in {"predicates", "not", "and", "or"}
          BY <2>1, <3>2 DEF IsWhere, IsCondition
        <5> HIDE DEF sql, m
        <5>. QED  BY <4>1, <5>1, ClauseIs
      <4>. QED  BY <4>2, <4>5, <4>6
    <3>. QED  BY <3>1, <3>2
  <2> HIDE DEF Right
  <2>. QED  BY <1>3, <2>1, <2>2
<1>4. 0..N \subseteq S
  <2> HIDE DEF S
  <2>. QED  BY <1>1, <1>2, <1>3, UpTo
<1>5. N \in S
  BY <1>1, <1>4
<1>. QED  BY <1>5

\* Three truth values, and no others.
Three == {"true", "false", "null"}
Image(f, S) == {f[j] : j \in S}

LEMMA LogicInThree ==
    /\ \A t \in Three : Negation(t) \in Three
    /\ \A S : Conjunction(S) \in Three /\ Disjunction(S) \in Three
    /\ \A op, x, y : Compare(op, x, y) \in Three
<1>1. \A t \in Three : Negation(t) \in Three
  BY DEF Three, Negation
<1>2. \A S : Conjunction(S) \in Three
  BY DEF Three, Conjunction
<1>3. \A S : Disjunction(S) \in Three
  BY <1>1, <1>2 DEF Disjunction
<1>4. \A b : Truth(b) \in Three
  BY DEF Truth, Three
<1>5. \A op, x, y : Compare(op, x, y) \in Three
  <2> SUFFICES ASSUME NEW op, NEW x, NEW y PROVE Compare(op, x, y) \in Three
    OBVIOUS
  <2>1. \E b : Compare(op, x, y) \in {"null", Truth(b)}
    BY DEF Compare
  <2>. QED  BY <1>4, <2>1 DEF Three
<1>. QED  BY <1>1, <1>2, <1>3, <1>5

LEMMA HoldsInThree == \A op, x, args : Holds(op, x, args) \in Three
<1> SUFFICES ASSUME NEW op, NEW x, NEW args PROVE Holds(op, x, args) \in Three
  OBVIOUS
<1>1. Truth(x = Null) \in Three /\ Truth(x # Null) \in Three
  BY DEF Truth, Three
<1>. QED  BY <1>1, LogicInThree DEF Holds

LEMMA JoinedInThree ==
    ASSUME NEW op, NEW S \in SUBSET Three, S # {}
    PROVE  Joined(op, S) \in Three
<1>1. (CHOOSE t \in S : TRUE) \in Three
  OBVIOUS
<1>. QED  BY <1>1, LogicInThree DEF Joined

\* The parts of a condition come before it.
LEMMA PartsBefore ==
    ASSUME NEW w, IsWhere(w), NEW k \in 1..Len(w), k \notin Predicates(w), NEW sql
    PROVE  Parts(w[k], sql) \subseteq 1..k - 1 /\ w[k].kind \in {"predicates", "not", "and", "or"}
BY DEF IsWhere, IsCondition, Parts

\* What a condition makes of the truths of its parts.
Kind(c) == IF c.kind = "predicates" THEN "and" ELSE c.kind

\* truths of the conditions, each from those of its own
Follows(w, e, row) ==
    /\ \A k \in Says(w) :
          IF k \in Predicates(w) THEN e[k] = Holds(Operator(w[k]), row[w[k].prop], Values(w[k]))
          ELSE e[k] = Joined(Kind(w[k]), Image(e, w[k].subs \cap Says(w)))
    /\ \A k \in 1..Len(w) : k \notin Says(w) => e[k] = "true"

\* A clause is true as its operator says.
LEMMA EvaluateIs ==
    ASSUME NEW w, IsWhere(w), ~Throws(w), NEW params \in Params, NEW row
    PROVE  LET r == toSql(w, params)
               e == Evaluate(r.sql, r.params, row)
           IN Follows(w, e, row)
<1> DEFINE N == Len(w)
           r == toSql(w, params)
           sql == r.sql
           e == Evaluate(r.sql, r.params, row)
           args(c) == [i \in 1..Len(c.names) |-> r.params[c.names[i]]]
           Step(f, k) == IF sql[k] = Empty THEN "true"
                         ELSE IF sql[k].op = "holds" THEN Holds(sql[k].by, row[sql[k].prop], args(sql[k]))
                         ELSE Joined(sql[k].op, Image(f, sql[k].parts))
           G == [z \in [1..N -> Three] \X (1..N) |-> Step(z[1], z[2])]
<1>1. N \in Nat /\ Len(sql) = N /\ Predicates(w) \subseteq 1..N
  BY toSqlIs DEF IsWhere, Predicates
<1>2. \A k \in 1..N : sql[k] # Empty <=> k \in Says(w)
  BY EmptyOrSaid
<1>3. ASSUME NEW k \in 1..N, k \notin Predicates(w), k \in Says(w)
      PROVE  /\ sql[k] # Empty /\ sql[k].op # "holds" /\ sql[k].op = Kind(w[k])
             /\ sql[k].parts = w[k].subs \cap Says(w)
             /\ sql[k].parts # {} /\ sql[k].parts \subseteq 1..k - 1
  <2>1. sql[k] = Clause(w[k].kind, Parts(w[k], sql)) /\ sql[k] # Empty
    BY <1>2, <1>3, toSqlIs
  <2>2. Parts(w[k], sql) \subseteq 1..k - 1 /\ w[k].kind \in {"predicates", "not", "and", "or"}
    BY <1>3, PartsBefore
  <2>3. Parts(w[k], sql) = w[k].subs \cap Says(w)
    <3>1. w[k].subs \subseteq 1..N
      BY <1>1, <1>3 DEF IsWhere, IsCondition
    <3> HIDE DEF sql, N
    <3>. QED  BY <1>2, <3>1 DEF Parts
  <2> DEFINE P == Parts(w[k], sql)
             c == Clause(w[k].kind, P)
  <2>4. /\ P = {} => c = Empty
        /\ P # {} => c.op # "holds" /\ c.parts = P /\ c.op = Kind(w[k])
    <3> HIDE DEF P
    <3>. QED  BY <2>2, ClauseIs DEF Kind
  <2> HIDE DEF c
  <2>5. c = sql[k] /\ P = w[k].subs \cap Says(w) /\ P \subseteq 1..k - 1 /\ sql[k] # Empty
    BY <2>1, <2>2, <2>3 DEF c
  <2> HIDE DEF sql, P
  <2>. QED  BY <2>4, <2>5
<1>4. ASSUME NEW k \in Predicates(w)
      PROVE  /\ sql[k] # Empty /\ sql[k].op = "holds" /\ sql[k].by = Operator(w[k]) /\ sql[k].prop = w[k].prop
             /\ args(sql[k]) = Values(w[k])
  <2>1. Binds(sql[k], w[k], r.params)
    BY toSqlIs
  <2>2. Values(w[k]) \in Seq(Stored)
    BY DEF IsWhere
  <2> HIDE DEF sql, r
  <2>3. Len(sql[k].names) = Len(Values(w[k])) /\ \A i \in 1..Len(Values(w[k])) : r.params[sql[k].names[i]] = Values(w[k])[i]
    BY <2>1 DEF Binds
  <2>4. args(sql[k]) = [i \in 1..Len(Values(w[k])) |-> Values(w[k])[i]]
    BY <2>3
  <2>5. Values(w[k]) = [i \in 1..Len(Values(w[k])) |-> Values(w[k])[i]]
    BY <2>2
  <2>. QED  BY <2>1, <2>4, <2>5 DEF Binds
<1> HIDE DEF sql, r, N, args
<1>5. ASSUME NEW f \in [1..N -> Three], NEW k \in 1..N
      PROVE  Step(f, k) \in Three
  <2>1. CASE sql[k] = Empty
    BY <2>1 DEF Three
  <2>2. CASE sql[k] # Empty /\ k \in Predicates(w)
    BY <1>4, <2>2, HoldsInThree
  <2>3. CASE sql[k] # Empty /\ k \notin Predicates(w)
    <3>1. /\ sql[k].op # "holds" /\ sql[k].parts # {} /\ sql[k].parts \subseteq 1..k - 1
      BY <1>2, <1>3, <2>3
    <3>2. sql[k].parts \subseteq 1..N
      BY <1>1, <3>1
    <3>3. Image(f, sql[k].parts) \in SUBSET Three /\ Image(f, sql[k].parts) # {}
      BY <3>1, <3>2 DEF Image
    <3>. QED  BY <2>3, <3>1, <3>3, JoinedInThree
  <2>. QED  BY <2>1, <2>2, <2>3
<1>6. G \in [[1..N -> Three] \X (1..N) -> Three] /\ \A f \in [1..N -> Three], k \in 1..N : G[<<f, k>>] = Step(f, k)
  <2> HIDE DEF Step
  <2>. QED  BY <1>5
<1>7. LooksBack(G, 1, N, Three)
  <2>1. ASSUME NEW f \in [1..N -> Three], NEW g \in [1..N -> Three], NEW k \in 1..N,
               \A j \in 1..k - 1 : f[j] = g[j]
        PROVE  Step(f, k) = Step(g, k)
    <3>1. CASE k \in Predicates(w) \/ k \notin Says(w)
      BY <1>2, <1>4, <3>1
    <3>2. CASE k \notin Predicates(w) /\ k \in Says(w)
      <4>1. sql[k].parts \subseteq 1..k - 1
        BY <1>3, <3>2
      <4>2. Image(f, sql[k].parts) = Image(g, sql[k].parts)
        BY <2>1, <4>1 DEF Image
      <4>. QED  BY <4>2
    <3>. QED  BY <3>1, <3>2
  <2> HIDE DEF Step
  <2>. QED  BY <1>6, <2>1 DEF LooksBack
<1> HIDE DEF G
<1>8. PICK f : IsCourse(f, G, 1, N, Three)
  <2>1. 1 \in Nat /\ N \in Nat /\ Three # {}
    BY <1>1 DEF Three
  <2>. QED  BY <1>7, <2>1, CourseExists
<1>9. f = [k \in 1..N |-> Step(f, k)]
  <2> HIDE DEF Step
  <2>. QED  BY <1>6, <1>8 DEF IsCourse
<1>10. e = [k \in 1..Len(sql) |-> Step(e, k)]
  <2>1. f = [k \in 1..Len(sql) |-> Step(f, k)]
    <3> HIDE DEF Step
    <3>. QED  BY <1>1, <1>9
  <2>. QED  BY <2>1, ZenonT(30) DEF Evaluate, sql, args, Image
<1> HIDE DEF e
<1>11. \A k \in 1..N : e[k] = Step(e, k)
  <2> HIDE DEF Step
  <2>. QED  BY <1>1, <1>10
<1>12. ASSUME NEW k \in Says(w)
       PROVE  IF k \in Predicates(w) THEN e[k] = Holds(Operator(w[k]), row[w[k].prop], Values(w[k]))
              ELSE e[k] = Joined(Kind(w[k]), Image(e, w[k].subs \cap Says(w)))
  <2>1. k \in 1..N /\ e[k] = Step(e, k)
    BY <1>11, SaysIs DEF N
  <2>2. CASE k \in Predicates(w)
    BY <1>4, <2>1, <2>2
  <2>3. CASE k \notin Predicates(w)
    BY <1>3, <2>1, <2>3
  <2>. QED  BY <2>2, <2>3
<1>13. \A k \in 1..N : k \notin Says(w) => e[k] = "true"
  BY <1>2, <1>11
<1>. QED  BY <1>12, <1>13 DEF Follows, e, r, N

\* What the reference makes of a condition.
LEMMA MeaningsIs ==
    ASSUME NEW w, IsWhere(w), NEW row
    PROVE  LET m == Meanings(w, row) IN
           \A k \in 1..Len(w) :
              m[k] = IF k \notin Says(w) THEN "true"
                     ELSE IF k \in Predicates(w) THEN Holds(Operator(w[k]), row[w[k].prop], Values(w[k]))
                     ELSE Joined(w[k].kind, Image(m, w[k].subs \cap Says(w)))
<1> DEFINE N == Len(w)
           m == Meanings(w, row)
           Step(f, k) == IF k \notin Says(w) THEN "true"
                         ELSE IF k \in Predicates(w) THEN Holds(Operator(w[k]), row[w[k].prop], Values(w[k]))
                         ELSE Joined(w[k].kind, Image(f, w[k].subs \cap Says(w)))
           G == [z \in [1..N -> Three] \X (1..N) |-> Step(z[1], z[2])]
<1>1. N \in Nat
  BY DEF IsWhere
<1>2. ASSUME NEW k \in 1..N, k \notin Predicates(w), k \in Says(w)
      PROVE  w[k].subs \cap Says(w) # {} /\ w[k].subs \subseteq 1..k - 1 /\ w[k].subs \subseteq 1..N
  <2>1. w[k].subs \subseteq 1..k - 1
    BY <1>2 DEF IsWhere, IsCondition
  <2>2. 1..k - 1 \subseteq 1..N
    BY <1>1
  <2>3. w[k].subs \cap Says(w) # {}
    BY <1>2, SaysIs
  <2>. QED  BY <2>1, <2>2, <2>3
<1> HIDE DEF N
<1>3. ASSUME NEW f \in [1..N -> Three], NEW k \in 1..N
      PROVE  Step(f, k) \in Three
  <2>1. CASE k \notin Says(w)
    BY <2>1 DEF Three
  <2>2. CASE k \in Says(w) /\ k \in Predicates(w)
    BY <2>2, HoldsInThree
  <2>3. CASE k \in Says(w) /\ k \notin Predicates(w)
    <3>1. Image(f, w[k].subs \cap Says(w)) \in SUBSET Three /\ Image(f, w[k].subs \cap Says(w)) # {}
      BY <1>2, <2>3 DEF Image
    <3>. QED  BY <2>3, <3>1, JoinedInThree
  <2>. QED  BY <2>1, <2>2, <2>3
<1>4. G \in [[1..N -> Three] \X (1..N) -> Three] /\ \A f \in [1..N -> Three], k \in 1..N : G[<<f, k>>] = Step(f, k)
  <2> HIDE DEF Step
  <2>. QED  BY <1>3
<1>5. LooksBack(G, 1, N, Three)
  <2>1. ASSUME NEW f \in [1..N -> Three], NEW g \in [1..N -> Three], NEW k \in 1..N,
               \A j \in 1..k - 1 : f[j] = g[j]
        PROVE  Step(f, k) = Step(g, k)
    <3>1. CASE k \in Predicates(w) \/ k \notin Says(w)
      BY <3>1
    <3>2. CASE k \notin Predicates(w) /\ k \in Says(w)
      <4>1. w[k].subs \subseteq 1..k - 1
        BY <1>2, <3>2
      <4>2. Image(f, w[k].subs \cap Says(w)) = Image(g, w[k].subs \cap Says(w))
        BY <2>1, <4>1 DEF Image
      <4>. QED  BY <4>2
    <3>. QED  BY <3>1, <3>2
  <2> HIDE DEF Step
  <2>. QED  BY <1>4, <2>1 DEF LooksBack
<1> HIDE DEF G
<1>6. PICK f : IsCourse(f, G, 1, N, Three)
  <2>1. 1 \in Nat /\ N \in Nat /\ Three # {}
    BY <1>1 DEF Three
  <2>. QED  BY <1>5, <2>1, CourseExists
<1>7. f = [k \in 1..N |-> Step(f, k)]
  <2> HIDE DEF Step
  <2>. QED  BY <1>4, <1>6 DEF IsCourse
<1>8. m = [k \in 1..N |-> Step(m, k)]
  BY <1>7, ZenonT(30) DEF Meanings, N, Image
<1> HIDE DEF m
<1>9. \A k \in 1..N : m[k] = Step(m, k)
  <2> HIDE DEF Step
  <2>. QED  BY <1>8
<1>. QED  BY <1>9 DEF m, N

\* AND and the joining of predicates are one.
LEMMA JoinedKind == \A c, S : c.kind \in {"predicates", "not", "and", "or"} => Joined(Kind(c), S) = Joined(c.kind, S)
BY DEF Joined, Kind

\* SQLite makes of the clause, with the values that are bound, what was meant.
LEMMA SelectsMeant ==
    ASSUME NEW w, IsWhere(w), ~Throws(w), ~IsFilter(w), NEW params \in Params, NEW row
    PROVE  Selects(w, params, row) <=> Means(w, row) = "true"
<1> DEFINE N == Len(w)
           r == toSql(w, params)
           e == Evaluate(r.sql, r.params, row)
           m == Meanings(w, row)
           Right(k) == k \in Says(w) => e[k] = m[k]
           S == {j \in 0..N : \A i \in 1..j : Right(i)}
<1>1. N \in Nat \ {0}
  BY DEF IsWhere
<1>2. /\ \A k \in Says(w) :
            IF k \in Predicates(w) THEN e[k] = Holds(Operator(w[k]), row[w[k].prop], Values(w[k]))
            ELSE e[k] = Joined(Kind(w[k]), Image(e, w[k].subs \cap Says(w)))
      /\ \A k \in 1..Len(w) : k \notin Says(w) => e[k] = "true"
  <2>1. Follows(w, e, row)
    BY EvaluateIs
  <2> HIDE DEF e
  <2>. QED  BY <2>1 DEF Follows
<1>3. \A k \in 1..N :
         m[k] = IF k \notin Says(w) THEN "true"
                ELSE IF k \in Predicates(w) THEN Holds(Operator(w[k]), row[w[k].prop], Values(w[k]))
                ELSE Joined(w[k].kind, Image(m, w[k].subs \cap Says(w)))
  BY MeaningsIs
<1> HIDE DEF e, m
<1>5. 0 \in S
  BY <1>1
<1>6. ASSUME NEW j \in 0..N - 1, j \in S
      PROVE  j + 1 \in S
  <2>1. j + 1 \in 1..N /\ j + 1 \in 0..N /\ (j + 1) - 1 = j /\ \A i \in 1..j + 1 : i \in 1..j \/ i = j + 1
    BY <1>1
  <2> DEFINE k == j + 1
  <2>2. ASSUME k \in Says(w)
        PROVE  e[k] = m[k]
    <3>1. CASE k \in Predicates(w)
      BY <1>2, <1>3, <2>1, <2>2, <3>1
    <3>2. CASE k \notin Predicates(w)
      <4>1. w[k].subs \subseteq 1..j /\ w[k].kind \in {"predicates", "not", "and", "or"}
        BY <2>1, <3>2 DEF IsWhere, IsCondition
      <4>2. \A i \in 1..j : Right(i)
        BY <1>6
      <4>3. Image(e, w[k].subs \cap Says(w)) = Image(m, w[k].subs \cap Says(w))
        <5> HIDE DEF k
        <5>. QED  BY <4>1, <4>2 DEF Image
      <4>4. e[k] = Joined(Kind(w[k]), Image(e, w[k].subs \cap Says(w)))
        BY <1>2, <2>2, <3>2
      <4>5. m[k] = Joined(w[k].kind, Image(m, w[k].subs \cap Says(w)))
        BY <1>3, <2>1, <2>2, <3>2
      <4> HIDE DEF k
      <4>. QED  BY <4>1, <4>3, <4>4, <4>5, JoinedKind
    <3>. QED  BY <3>1, <3>2
  <2>3. Right(k)
    BY <2>2
  <2> HIDE DEF Right
  <2>. QED  BY <1>6, <2>1, <2>3
<1>7. 0..N \subseteq S
  <2> HIDE DEF S
  <2>. QED  BY <1>1, <1>5, <1>6, UpTo
<1>8. N \in Says(w) => e[N] = m[N]
  BY <1>1, <1>7
<1>9. Selects(w, params, row) <=> e[N] = "true"
  BY DEF Selects, e
<1>10. Means(w, row) = m[N]
  BY DEF Means, m
<1>11. CASE N \in Says(w)
  BY <1>8, <1>9, <1>10, <1>11
<1>12. CASE N \notin Says(w)
  <2>1. N \in 1..N
    BY <1>1
  <2> HIDE DEF N
  <2>2. m[N] = "true"
    BY <1>3, <1>12, <2>1
  <2>3. e[N] = "true"
    BY <1>2, <1>12, <2>1 DEF N
  <2>. QED  BY <1>9, <1>10, <2>2, <2>3
<1>. QED  BY <1>11, <1>12

-----------------------------------------------------------------------------
\* Rows and objects

Rows == [Columns \cup {"born"} -> Stored \cup 1..MaxBirths]
Models == [Properties \cup {"of"} -> Ids \cup Stored \cup {Absent} \cup 0..MaxBirths]

\* values of a row, and of an object, where they belong
RowFits(row, b) == row \in Rows /\ (\A c \in Columns : row[c] \in Stored) /\ row["born"] \in 1..b
ModelFits(m, b) ==
    /\ m \in Models /\ m[Key] \in Ids \cup {Absent} /\ m["of"] \in 0..b
    /\ \A c \in Columns : m[c] \in Stored \cup {Absent}

Typed ==
    /\ kind \in {"autoincrement", "rowid", "withoutRowId"} /\ chosen \in BOOLEAN
    /\ seq \in 0..MaxId /\ births \in 0..MaxBirths
    /\ rows \in [Ids -> Rows \cup {Null}] /\ \A i \in Present : RowFits(rows[i], births)
    /\ kind = "autoincrement" => Present \subseteq 1..seq
    /\ ModelFits(model, births)

\* an object with the number of a row has its id, which is no other row's
SameRow ==
    kind = "autoincrement" /\ model["of"] # 0 =>
        /\ model[Key] \in 1..seq
        /\ model[Key] \in Present => rows[model[Key]]["born"] = model["of"]

\* Max of two integers is the larger one.
LEMMA MaxOfTwo ==
    ASSUME NEW a \in Int, NEW b \in Int
    PROVE  Max({a, b}) \in {a, b} /\ Max({a, b}) >= a /\ Max({a, b}) >= b
<1>1. \E x \in {a, b} : \A y \in {a, b} : x >= y
  BY a >= b \/ b >= a
<1>. QED  BY <1>1 DEF Max

\* A row is told from no row.
LEMMA RowIsNotNull ==
    ASSUME NEW row \in Rows
    PROVE  row # Null
BY RowAccessAssumption DEF Rows, RowAccessAssumption

\* A row that fits still does when more have been inserted.
LEMMA FitsLonger ==
    ASSUME NEW row, NEW b \in Nat, NEW c \in Nat, b <= c, RowFits(row, b)
    PROVE  RowFits(row, c)
BY DEF RowFits

\* The row an INSERT writes fits.
LEMMA NewRowFits ==
    ASSUME Typed, births < MaxBirths, NEW keys
    PROVE  RowFits(NewRow(model, keys), births + 1) /\ NewRow(model, keys)["born"] = births + 1
<1>1. \A c \in Columns : c # "born" /\ ToDB(model[c]) \in Stored /\ Default[c] \in Stored
  BY RowAccessAssumption DEF Typed, ModelFits, ToDB, RowAccessAssumption
<1>2. births + 1 \in 1..MaxBirths /\ births + 1 \in 1..births + 1
  BY RowAccessAssumption DEF Typed, RowAccessAssumption
<1>. QED  BY <1>1, <1>2 DEF NewRow, RowFits, Rows

\* What writing a row under an id does.
LEMMA WrittenFits ==
    ASSUME Typed, NEW id \in Ids, NEW row, NEW b \in 0..MaxBirths,
           RowFits(row, b), b = (IF row["born"] > births THEN row["born"] ELSE births),
           NEW told \in BOOLEAN, Written(id, row, told), UNCHANGED kind, chosen' \in BOOLEAN
    PROVE  /\ Typed'
           /\ rows'[id] = row /\ \A i \in Ids \ {id} : rows'[i] = rows[i]
           /\ \A p \in Columns : model'[p] = model[p]
           /\ model'[Key] = (IF told THEN id ELSE model[Key])
           /\ model'["of"] = row["born"]
           /\ kind = "autoincrement" => seq' >= seq /\ seq' >= id
<1>i. id \in 1..MaxId /\ MaxId \in Nat /\ MaxBirths \in Nat
  BY RowAccessAssumption DEF Ids, RowAccessAssumption
<1>b. births \in Nat /\ row["born"] \in Nat /\ row["born"] \in 1..b /\ b \in Nat /\ births <= b
  BY <1>i DEF Typed, RowFits
<1>1. births' = b
  <2>1. births' = Max({births, row["born"]})
    BY DEF Written
  <2>. QED  BY <2>1, <1>b, MaxOfTwo
<1>2. /\ seq' \in 0..MaxId
      /\ kind = "autoincrement" => seq' >= seq /\ seq' >= id
  <2>1. CASE kind = "autoincrement"
    <3>1. seq' = Max({seq, id}) /\ seq \in 0..MaxId
      BY <2>1 DEF Written, Typed
    <3>. QED  BY <3>1, <1>i, MaxOfTwo, SMTT(30)
  <2>2. CASE kind # "autoincrement"
    BY <2>2 DEF Written, Typed
  <2>. QED  BY <2>1, <2>2
<1>3. rows'[id] = row /\ (\A i \in Ids \ {id} : rows'[i] = rows[i]) /\ rows' \in [Ids -> Rows \cup {Null}]
  BY DEF Written, Typed, RowFits
<1>4. \A i \in Present' : RowFits(rows'[i], births')
  <2>1. \A i \in Ids \ {id} : rows[i] # Null => RowFits(rows[i], b)
    BY <1>b, FitsLonger DEF Typed, Present
  <2>. QED  BY <2>1, <1>1, <1>3 DEF Present
<1>5. kind = "autoincrement" => Present' \subseteq 1..seq'
  <2>1. Present' \subseteq Present \cup {id}
    BY <1>3 DEF Present
  <2>. QED  BY <2>1, <1>2, <1>i DEF Typed
<1>6. \A p \in Properties \cup {"of"} :
         model'[p] = IF p = "of" THEN row["born"] ELSE IF p = Key /\ told THEN id ELSE model[p]
  BY DEF Written, Typed, ModelFits, Models
<1>7. Key # "of" /\ Key \in Properties /\ Columns \subseteq Properties
      /\ \A p \in Columns : p # "of" /\ p # Key
  BY RowAccessAssumption DEF RowAccessAssumption, Properties, Key
<1>8. /\ \A p \in Columns : model'[p] = model[p]
      /\ model'[Key] = (IF told THEN id ELSE model[Key])
      /\ model'["of"] = row["born"]
  BY <1>6, <1>7
<1>9. ModelFits(model', births')
  <2>1. row["born"] \in 0..MaxBirths /\ row["born"] \in 0..b
    BY <1>b, <1>i
  <2>2. model' \in Models
    BY <2>1 DEF Written, Typed, ModelFits, Models
  <2>3. model'["of"] \in 0..births'
    BY <2>1, <1>8, <1>1
  <2>. QED  BY <2>2, <2>3, <1>8 DEF Typed, ModelFits
<1>. QED  BY <1>1, <1>2, <1>3, <1>4, <1>5, <1>8, <1>9 DEF Typed

\* The id SQLite chooses in a table with AUTOINCREMENT is larger than any it had.
LEMMA GeneratedIsNew ==
    ASSUME Typed, kind = "autoincrement"
    PROVE  Generated = seq + 1 /\ Generated \notin Present
BY RowAccessAssumption DEF Typed, Generated, RowAccessAssumption, Ids

\* A statement that is rejected, and a step that leaves table and object alone.
LEMMA UnchangedFits ==
    ASSUME Typed, UNCHANGED <<kind, rows, seq, model, births, chosen>>
    PROVE  Typed' /\ (SameRow => SameRow')
BY DEF Typed, SameRow, Present, ModelFits

\* An INSERT that is not rejected.
LEMMA InsertFits ==
    ASSUME Typed, NEW keys, NEW mode, Insert(keys, mode), ~Rejected
    PROVE  \E id \in Ids :
              /\ Typed'
              /\ rows'[id] = NewRow(model, keys) /\ \A i \in Ids \ {id} : rows'[i] = rows[i]
              /\ rows'[id] \in Rows
              /\ \A p \in Columns : model'[p] = model[p]
              /\ model'[Key] = id
              /\ model'["of"] = rows'[id]["born"]
              /\ kind = "autoincrement" => seq' >= seq /\ seq' >= id
              /\ kind' = kind /\ last'.op = "insert" /\ last'.keys = keys
<1>g. DEFINE given == IF Key \notin keys \/ model[Key] \notin Ids \/ DropsId(mode) THEN Null ELSE model[Key]
             id == IF given = Null THEN Generated ELSE given
<1>1. given \notin Present /\ ~(given = Null /\ kind = "withoutRowId") /\ InsertAs("insert", keys, given)
  BY DEF Insert
<1>2. given = Null \/ (given \in Ids /\ given = model[Key])
  OBVIOUS
<1>hide. HIDE DEF given
<1>3. /\ births < MaxBirths /\ id \in Ids
      /\ Written(id, NewRow(model, keys), kind # "withoutRowId")
      /\ chosen' = (chosen \/ given # Null) /\ kind' = kind
      /\ last' = Did("insert", keys)
  BY <1>1 DEF InsertAs
<1>5. births \in Nat /\ MaxBirths \in Nat
  BY RowAccessAssumption DEF Typed, RowAccessAssumption
<1>6. RowFits(NewRow(model, keys), births + 1) /\ NewRow(model, keys)["born"] = births + 1
  BY <1>3, NewRowFits
<1>7. births + 1 \in 0..MaxBirths /\ births + 1 = (IF births + 1 > births THEN births + 1 ELSE births)
  BY <1>3, <1>5
<1>8. (kind # "withoutRowId") \in BOOLEAN /\ chosen' \in BOOLEAN
  BY <1>3 DEF Typed
<1>hi. HIDE DEF id
<1>9. /\ Typed'
      /\ rows'[id] = NewRow(model, keys) /\ \A i \in Ids \ {id} : rows'[i] = rows[i]
      /\ \A p \in Columns : model'[p] = model[p]
      /\ model'[Key] = (IF kind # "withoutRowId" THEN id ELSE model[Key])
      /\ model'["of"] = NewRow(model, keys)["born"]
      /\ kind = "autoincrement" => seq' >= seq /\ seq' >= id
  BY <1>3, <1>6, <1>7, <1>8, WrittenFits
<1>10. kind = "withoutRowId" => id = model[Key]
  BY <1>1, <1>2, <1>3 DEF id
<1>11. last'.op = "insert" /\ last'.keys = keys
  BY <1>3 DEF Did
<1>12. rows'[id] \in Rows
  BY <1>6, <1>9 DEF RowFits
<1>. QED  BY <1>3, <1>9, <1>10, <1>11, <1>12

\* A row that is written anew under its number fits.
LEMMA NumberedFits ==
    ASSUME Typed, NEW keys, NEW b \in 0..MaxBirths, NEW n \in 1..b
    PROVE  LET row == [NewRow(model, keys) EXCEPT !["born"] = n] IN
           /\ RowFits(row, b) /\ row["born"] = n
           /\ \A c \in Columns : row[c] = NewRow(model, keys)[c]
<1>1. \A c \in Columns : c # "born" /\ ToDB(model[c]) \in Stored /\ Default[c] \in Stored
  BY RowAccessAssumption DEF Typed, ModelFits, ToDB, RowAccessAssumption
<1>2. n \in 1..MaxBirths
  BY RowAccessAssumption DEF RowAccessAssumption
<1>. QED  BY <1>1, <1>2 DEF NewRow, RowFits, Rows

\* What REPLACE does: it keeps the number of a row that it replaces, and that of
\* the object when its row comes back.
LEMMA ReplaceFits ==
    ASSUME Typed, NEW keys, Replace(keys), ~Rejected, model[Key] \in Ids => Key \in keys
    PROVE  \E id \in Ids :
              /\ Typed'
              /\ rows'[id] \in Rows /\ rows'[id]["born"] = model'["of"]
              /\ \A c \in Columns : rows'[id][c] = NewRow(model, keys)[c]
              /\ \A i \in Ids \ {id} : rows'[i] = rows[i]
              /\ \A p \in Columns : model'[p] = model[p]
              /\ kind = "autoincrement" => seq' >= id /\ (id \in Present => id = model[Key])
              /\ model[Key] \in Ids \/ kind = "autoincrement" => model'[Key] = id
              /\ model[Key] \notin Ids /\ kind # "autoincrement" => model'[Key] = model[Key]
              /\ kind' = kind /\ last' = Did("replace", keys)
<1>g. DEFINE given == IF Key \in keys /\ model[Key] \in Ids THEN model[Key] ELSE Null
<1>1. given = (IF model[Key] \in Ids THEN model[Key] ELSE Null) /\ Null \notin Ids
  BY RowAccessAssumption DEF RowAccessAssumption
<1>2. births \in Nat /\ MaxBirths \in Nat /\ Present \subseteq Ids /\ Null \notin Present /\ chosen \in BOOLEAN
  BY RowAccessAssumption DEF Typed, RowAccessAssumption, Present
<1>d. /\ ~(given = Null /\ kind = "withoutRowId")
      /\ IF given \in Present
         THEN /\ Written(given, [NewRow(model, keys) EXCEPT !["born"] = rows[given]["born"]], FALSE)
              /\ last' = Did("replace", keys) /\ UNCHANGED <<kind, chosen>>
         ELSE LET id == IF given = Null THEN Generated ELSE given IN
              /\ births < MaxBirths /\ id \in Ids
              /\ Written(id, IF given # Null /\ model["of"] # 0
                                THEN [NewRow(model, keys) EXCEPT !["born"] = model["of"]]
                                ELSE NewRow(model, keys),
                         kind = "autoincrement")
              /\ chosen' = (chosen \/ (given # Null /\ model["of"] = 0))
              /\ last' = Did("replace", keys) /\ UNCHANGED kind
  BY DEF Replace
<1>hide. HIDE DEF given
<1>3. CASE given \in Present
  <2>r. DEFINE n == rows[given]["born"]
               row == [NewRow(model, keys) EXCEPT !["born"] = n]
  <2>1. n \in 1..births /\ births \in 0..MaxBirths /\ given \in Ids
    BY <1>2, <1>3 DEF Typed, RowFits
  <2>2. RowFits(row, births) /\ row["born"] = n /\ \A c \in Columns : row[c] = NewRow(model, keys)[c]
    BY <2>1, NumberedFits
  <2>3. births = (IF n > births THEN n ELSE births) /\ FALSE \in BOOLEAN
    BY <2>1, <1>2
  <2>4. Written(given, row, FALSE) /\ UNCHANGED <<kind, chosen>> /\ last' = Did("replace", keys)
    BY <1>d, <1>3
  <2>hide. HIDE DEF row, n
  <2>5. /\ Typed'
        /\ rows'[given] = row /\ \A i \in Ids \ {given} : rows'[i] = rows[i]
        /\ \A p \in Columns : model'[p] = model[p]
        /\ model'[Key] = model[Key] /\ model'["of"] = row["born"]
        /\ kind = "autoincrement" => seq' >= given
    BY <2>1, <2>2, <2>3, <2>4, <1>2, WrittenFits
  <2>6. given = model[Key] /\ model[Key] \in Ids
    BY <1>1, <2>1
  <2>7. rows'[given] \in Rows
    BY <2>2, <2>5 DEF RowFits
  <2>. QED  BY <2>1, <2>2, <2>4, <2>5, <2>6, <2>7
<1>4. CASE given \notin Present
  <2>r. DEFINE id == IF given = Null THEN Generated ELSE given
               again == given # Null /\ model["of"] # 0
               row == IF again THEN [NewRow(model, keys) EXCEPT !["born"] = model["of"]]
                      ELSE NewRow(model, keys)
               b == IF again THEN births ELSE births + 1
  <2>1. /\ births < MaxBirths /\ id \in Ids
        /\ Written(id, row, kind = "autoincrement")
        /\ chosen' = (chosen \/ (given # Null /\ model["of"] = 0))
        /\ last' = Did("replace", keys) /\ UNCHANGED kind
    BY <1>d, <1>4
  <2>2. /\ RowFits(row, b) /\ b \in 0..MaxBirths /\ b = (IF row["born"] > births THEN row["born"] ELSE births)
        /\ \A c \in Columns : row[c] = NewRow(model, keys)[c]
    <3>1. CASE again
      <4>1. model["of"] \in 1..births /\ births \in 0..MaxBirths
        BY <3>1, <1>2 DEF Typed, ModelFits
      <4>2. /\ RowFits([NewRow(model, keys) EXCEPT !["born"] = model["of"]], births)
            /\ [NewRow(model, keys) EXCEPT !["born"] = model["of"]]["born"] = model["of"]
            /\ \A c \in Columns :
                  [NewRow(model, keys) EXCEPT !["born"] = model["of"]][c] = NewRow(model, keys)[c]
        BY <4>1, NumberedFits
      <4>. QED  BY <3>1, <4>1, <4>2, <1>2
    <3>2. CASE ~again
      <4>1. RowFits(NewRow(model, keys), births + 1) /\ NewRow(model, keys)["born"] = births + 1
        BY <2>1, NewRowFits
      <4>. QED  BY <3>2, <4>1, <2>1, <1>2
    <3>. QED  BY <3>1, <3>2
  <2>3. (kind = "autoincrement") \in BOOLEAN /\ chosen' \in BOOLEAN
    BY <1>2, <2>1
  <2>4. kind = "autoincrement" /\ given = Null => id \notin Present
    BY GeneratedIsNew
  <2>5. (model[Key] \in Ids => id = model[Key]) /\ (id \in Present => given = Null)
    BY <1>1, <1>4
  <2>6. model[Key] \in Ids => given # Null
    BY <1>1
  <2>hide. HIDE DEF id, row, b, again
  <2>7. /\ Typed'
        /\ rows'[id] = row /\ \A i \in Ids \ {id} : rows'[i] = rows[i]
        /\ \A p \in Columns : model'[p] = model[p]
        /\ model'[Key] = (IF kind = "autoincrement" THEN id ELSE model[Key])
        /\ model'["of"] = row["born"]
        /\ kind = "autoincrement" => seq' >= id
    BY <2>1, <2>2, <2>3, WrittenFits
  <2>8. rows'[id] \in Rows
    BY <2>2, <2>7 DEF RowFits
  <2>. QED  BY <2>1, <2>2, <2>4, <2>5, <2>7, <2>8
<1>. QED  BY <1>3, <1>4

\* What an update does with the columns of a row.
LEMMA SetColumnsFits ==
    ASSUME NEW b \in Nat, NEW row, RowFits(row, b), NEW c, NEW m, ModelFits(m, c), NEW keys \in SUBSET Properties
    PROVE  /\ RowFits(SetColumns(row, m, keys), b) /\ SetColumns(row, m, keys)["born"] = row["born"]
           /\ \A p \in Columns : SetColumns(row, m, keys)[p] = IF p \in keys THEN ToDB(m[p]) ELSE row[p]
<1>1. \A p \in Columns : ToDB(m[p]) \in Stored /\ row[p] \in Stored
  BY RowAccessAssumption DEF RowFits, ModelFits, ToDB, RowAccessAssumption
<1>2. DOMAIN row = Columns \cup {"born"} /\ "born" \notin keys /\ "born" \notin Columns /\ row["born"] \in Stored \cup 1..MaxBirths
  BY RowAccessAssumption DEF RowFits, Rows, RowAccessAssumption, Properties, Key
<1>3. /\ SetColumns(row, m, keys)["born"] = row["born"]
      /\ \A p \in Columns : SetColumns(row, m, keys)[p] = IF p \in keys THEN ToDB(m[p]) ELSE row[p]
  BY <1>2 DEF SetColumns
<1>4. SetColumns(row, m, keys) \in Rows
  BY <1>1, <1>2 DEF SetColumns, Rows
<1>. QED  BY <1>1, <1>3, <1>4 DEF RowFits

\* Steps that leave the object, the ids and the numbers of rows alone.
LEMMA RowsChange ==
    ASSUME Typed, UNCHANGED <<kind, seq, model, births, chosen>>,
           rows' \in [Ids -> Rows \cup {Null}],
           \A i \in Ids : \/ rows'[i] = rows[i] \/ rows'[i] = Null
                          \/ /\ i \in Present /\ RowFits(rows'[i], births)
                             /\ rows'[i]["born"] = rows[i]["born"]
    PROVE  Typed' /\ (SameRow => SameRow')
<1>1. Present' \subseteq Present
  BY DEF Present
<1>2. \A i \in Present' : RowFits(rows'[i], births) /\ rows'[i]["born"] = rows[i]["born"]
  BY DEF Present, Typed
<1>3. Typed'
  BY <1>1, <1>2 DEF Typed, ModelFits
<1>4. ASSUME SameRow PROVE SameRow'
  BY <1>1, <1>2, <1>4 DEF SameRow
<1>. QED  BY <1>3, <1>4

-----------------------------------------------------------------------------
\* The invariant

Inv == Typed /\ SameRow

KeySets == {Properties, Keys(model)}

\* The keys a call names are properties, with the id of an object that has one.
LEMMA KeySetsAre ==
    ASSUME Typed, NEW keys \in KeySets
    PROVE  keys \subseteq Properties /\ (model[Key] \in Ids => Key \in keys)
BY RowAccessAssumption DEF KeySets, Keys, Properties, RowAccessAssumption

\* The program takes another object, or changes its own.
LEMMA ProgramKept ==
    ASSUME Inv, Renew \/ \E p \in Columns, v \in Assigned : SetProperty(p, v)
    PROVE  Inv'
<1>1. UNCHANGED <<kind, rows, seq, births, chosen>>
  BY DEF Renew, SetProperty
<1>2. Typed' /\ SameRow'
  <2>1. CASE Renew
    <3>1. ModelFits(model', births) /\ model'["of"] = 0
      BY <2>1, RowAccessAssumption DEF Renew, ModelFits, Models, RowAccessAssumption, Inv, Typed
    <3>. QED  BY <1>1, <3>1 DEF Inv, Typed, SameRow, Present
  <2>2. ASSUME NEW p \in Columns, NEW v \in Assigned, SetProperty(p, v)  PROVE Typed' /\ SameRow'
    <3>1. /\ p # "of" /\ p # Key /\ p \in Properties /\ Key \in Properties
          /\ v \in Stored /\ Columns \subseteq Properties
      BY RowAccessAssumption DEF RowAccessAssumption, Properties
    <3>2. model' = [model EXCEPT ![p] = v] /\ ModelFits(model, births)
      BY <2>2 DEF SetProperty, Inv, Typed
    <3>3. model'["of"] = model["of"] /\ model'[Key] = model[Key]
          /\ \A c \in Columns : model'[c] \in {model[c], v}
      BY <3>1, <3>2 DEF ModelFits, Models
    <3>4. ModelFits(model', births)
      BY <3>1, <3>2, <3>3 DEF ModelFits, Models
    <3>. QED  BY <1>1, <3>3, <3>4 DEF Inv, Typed, SameRow, Present
  <2>. QED  BY <2>1, <2>2
<1>. QED  BY <1>2 DEF Inv

\* An inserted object stands for the new row, whose id no row ever had.
LEMMA InsertKept ==
    ASSUME Inv, NEW keys, NEW mode, Insert(keys, mode)
    PROVE  Inv'
<1>1. CASE Rejected
  BY <1>1, UnchangedFits DEF Rejected, Inv
<1>2. CASE ~Rejected
  <2>1. PICK id \in Ids :
              /\ Typed'
              /\ model'[Key] = id /\ model'["of"] = rows'[id]["born"]
              /\ kind = "autoincrement" => seq' >= id
              /\ kind' = kind
    BY <1>2, InsertFits DEF Inv
  <2>2. id \in Nat /\ id >= 1 /\ (kind' = "autoincrement" => seq' \in Nat)
    BY <2>1, RowAccessAssumption DEF Ids, RowAccessAssumption, Typed
  <2>3. SameRow'
    BY <2>1, <2>2 DEF SameRow
  <2>. QED  BY <2>1, <2>3 DEF Inv
<1>. QED  BY <1>1, <1>2

\* An object that replaces stands for the row it has written.
LEMMA ReplaceKept ==
    ASSUME Inv, NEW keys \in KeySets, Replace(keys)
    PROVE  Inv'
<1>1. CASE Rejected
  BY <1>1, UnchangedFits DEF Rejected, Inv
<1>2. CASE ~Rejected
  <2>1. model[Key] \in Ids => Key \in keys
    BY KeySetsAre DEF Inv
  <2>2. PICK id \in Ids :
              /\ Typed'
              /\ rows'[id]["born"] = model'["of"]
              /\ kind = "autoincrement" => seq' >= id /\ model'[Key] = id
              /\ kind' = kind
    BY <1>2, <2>1, ReplaceFits DEF Inv
  <2>3. id \in Nat /\ id >= 1 /\ seq' \in Nat
    BY <2>2, RowAccessAssumption DEF Ids, RowAccessAssumption, Typed
  <2>4. SameRow'
    BY <2>2, <2>3 DEF SameRow
  <2>. QED  BY <2>2, <2>4 DEF Inv
<1>. QED  BY <1>1, <1>2

\* What the updates and deletes of this program and of others do.
LEMMA UpdateFits ==
    ASSUME Typed, NEW keys \in SUBSET Properties, NEW found \in SUBSET Present,
           rows' = [i \in Ids |-> IF i \in found THEN SetColumns(rows[i], model, keys) ELSE rows[i]]
    PROVE  /\ rows' \in [Ids -> Rows \cup {Null}]
           /\ \A i \in found : /\ RowFits(rows'[i], births) /\ rows'[i]["born"] = rows[i]["born"]
                               /\ \A p \in Columns :
                                     rows'[i][p] = IF p \in keys THEN ToDB(model[p]) ELSE rows[i][p]
           /\ \A i \in Ids \ found : rows'[i] = rows[i]
<1>1. births \in Nat /\ ModelFits(model, births) /\ \A i \in found : i \in Ids /\ RowFits(rows[i], births)
  BY DEF Typed, Present
<1>2. \A i \in found :
         /\ RowFits(SetColumns(rows[i], model, keys), births)
         /\ SetColumns(rows[i], model, keys)["born"] = rows[i]["born"]
         /\ \A p \in Columns :
               SetColumns(rows[i], model, keys)[p] = IF p \in keys THEN ToDB(model[p]) ELSE rows[i][p]
  BY <1>1, SetColumnsFits
<1>3. \A i \in Ids : rows'[i] = IF i \in found THEN SetColumns(rows[i], model, keys) ELSE rows[i]
  OBVIOUS
<1>4. \A i \in Ids : rows'[i] \in Rows \cup {Null}
  BY <1>2, <1>3 DEF RowFits, Typed
<1>5. rows' \in [Ids -> Rows \cup {Null}]
  BY <1>4
<1>. QED  BY <1>1, <1>2, <1>3, <1>5

\* The row an object refers to is there.
LEMMA RowOfIsThere ==
    Typed => RowOf(model) \subseteq Present /\ \A i \in RowOf(model) : i = model[Key]
BY DEF RowOf

\* Updates leave the number of a row alone.
LEMMA UpdatesKept ==
    ASSUME Inv, NEW keys \in SUBSET Properties,
           Update(keys) \/ \E w \in Wheres : UpdatePartialAll(w)
    PROVE  Inv'
<1>1. CASE Rejected
  BY <1>1, UnchangedFits DEF Rejected, Inv
<1>2. ASSUME NEW ks \in SUBSET Properties, NEW found \in SUBSET Present,
             rows' = [i \in Ids |-> IF i \in found THEN SetColumns(rows[i], model, ks) ELSE rows[i]],
             UNCHANGED <<kind, seq, model, births, chosen>>
      PROVE  Inv'
  <2>1. /\ rows' \in [Ids -> Rows \cup {Null}]
        /\ \A i \in found : RowFits(rows'[i], births) /\ rows'[i]["born"] = rows[i]["born"]
        /\ \A i \in Ids \ found : rows'[i] = rows[i]
    BY <1>2, UpdateFits DEF Inv
  <2>. QED  BY <1>2, <2>1, RowsChange DEF Inv
<1>3. CASE Update(keys) /\ ~Rejected
  BY <1>3, <1>2, RowOfIsThere DEF Update, Inv
<1>4. ASSUME NEW w \in Wheres, UpdatePartialAll(w), ~Rejected  PROVE Inv'
  <2>1. Keys(model) \in SUBSET Properties /\ \A ps : Matching(w, ps) \in SUBSET Present
    BY DEF Keys, Matching
  <2>. QED  BY <1>4, <2>1, <1>2 DEF UpdatePartialAll
<1>. QED  BY <1>1, <1>3, <1>4

\* Deleting a row changes no other one.
LEMMA DeletesKept ==
    ASSUME Inv, Delete \/ (\E w \in Wheres : DeleteAll(w)) \/ \E i \in Ids : OthersDelete(i)
    PROVE  Inv'
<1>1. CASE Rejected
  BY <1>1, UnchangedFits DEF Rejected, Inv
<1>2. ASSUME NEW found, rows' = [i \in Ids |-> IF i \in found THEN Null ELSE rows[i]],
             UNCHANGED <<kind, seq, model, births, chosen>>
      PROVE  Inv'
  <2>1. rows' \in [Ids -> Rows \cup {Null}] /\ \A i \in Ids : rows'[i] = rows[i] \/ rows'[i] = Null
    BY <1>2 DEF Inv, Typed
  <2>. QED  BY <1>2, <2>1, RowsChange DEF Inv
<1>3. CASE Delete /\ ~Rejected
  BY <1>3, <1>2 DEF Delete
<1>4. ASSUME NEW w \in Wheres, DeleteAll(w), ~Rejected  PROVE Inv'
  BY <1>4, <1>2 DEF DeleteAll
<1>5. ASSUME NEW i \in Ids, OthersDelete(i)  PROVE Inv'
  <2>1. rows' = [k \in Ids |-> IF k \in {i} THEN Null ELSE rows[k]]
    BY <1>5 DEF OthersDelete, Inv, Typed
  <2>. QED  BY <1>5, <2>1, <1>2 DEF OthersDelete
<1>. QED  BY <1>1, <1>3, <1>4, <1>5

\* Others change a column of a row.
LEMMA OthersUpdateKept ==
    ASSUME Inv, NEW i \in Ids, NEW p \in Columns, NEW v \in Assigned, OthersUpdate(i, p, v)
    PROVE  Inv'
<1>1. rows' = [rows EXCEPT ![i][p] = v] /\ i \in Present /\ RowFits(rows[i], births)
  BY DEF OthersUpdate, Inv, Typed
<1>2. p # "born" /\ v \in Stored
  BY RowAccessAssumption DEF RowAccessAssumption
<1>3. rows'[i] = [rows[i] EXCEPT ![p] = v] /\ \A k \in Ids \ {i} : rows'[k] = rows[k]
  BY <1>1 DEF Inv, Typed
<1>4. RowFits(rows'[i], births) /\ rows'[i]["born"] = rows[i]["born"]
  BY <1>1, <1>2, <1>3 DEF RowFits, Rows
<1>5. rows' \in [Ids -> Rows \cup {Null}]
  BY <1>1, <1>4 DEF Inv, Typed, RowFits
<1>. QED  BY <1>1, <1>3, <1>4, <1>5, RowsChange DEF OthersUpdate, Inv

\* Others insert a row: it gets an id no object has.
LEMMA OthersInsertKept ==
    ASSUME Inv, OthersInsert
    PROVE  Inv'
<1>1. /\ births < MaxBirths /\ Generated \in Ids /\ births' = births + 1
      /\ rows' = [rows EXCEPT ![Generated] = NewRow(model, {})]
      /\ seq' = (IF kind = "autoincrement" THEN Generated ELSE seq)
      /\ UNCHANGED <<kind, model, chosen>>
  BY DEF OthersInsert
<1>g. PICK id \in Ids : id = Generated
  BY <1>1
<1>2. births \in Nat /\ MaxBirths \in Nat /\ births + 1 \in 0..MaxBirths /\ id \in 1..MaxId /\ MaxId \in Nat
  BY <1>1, RowAccessAssumption DEF Inv, Typed, RowAccessAssumption, Ids
<1>3. RowFits(NewRow(model, {}), births + 1)
  BY <1>1, NewRowFits DEF Inv
<1>4. rows'[id] = NewRow(model, {}) /\ \A i \in Ids \ {id} : rows'[i] = rows[i]
  BY <1>1, <1>g DEF Inv, Typed
<1>5. rows' \in [Ids -> Rows \cup {Null}]
  BY <1>1, <1>3 DEF Inv, Typed, RowFits
<1>6. \A i \in Present' : RowFits(rows'[i], births')
  <2>1. \A i \in Ids \ {id} : rows[i] # Null => RowFits(rows[i], births + 1)
    BY <1>2, FitsLonger DEF Inv, Typed, Present
  <2>. QED  BY <2>1, <1>1, <1>3, <1>4 DEF Present
<1>7. kind = "autoincrement" => id = seq + 1 /\ id \notin Present
  BY <1>g, GeneratedIsNew DEF Inv
<1>8. kind = "autoincrement" => Present' \subseteq 1..seq'
  <2>1. Present' \subseteq Present \cup {id}
    BY <1>4 DEF Present
  <2>. QED  BY <2>1, <1>1, <1>g, <1>2, <1>7 DEF Inv, Typed
<1>9. ModelFits(model, births + 1)
  BY <1>2 DEF Inv, Typed, ModelFits
<1>10. Typed'
  <2>1. seq' \in 0..MaxId
    BY <1>1, <1>g, <1>2 DEF Inv, Typed
  <2>. QED  BY <2>1, <1>1, <1>2, <1>5, <1>6, <1>8, <1>9 DEF Inv, Typed
<1>11. SameRow'
  <2>1. SUFFICES ASSUME kind = "autoincrement", model["of"] # 0
                 PROVE  /\ model[Key] \in 1..seq'
                        /\ model[Key] \in Present' => rows'[model[Key]]["born"] = model["of"]
    BY <1>1 DEF SameRow
  <2>2. /\ model[Key] \in 1..seq /\ seq \in Nat
        /\ model[Key] \in Present => rows[model[Key]]["born"] = model["of"]
    BY <2>1 DEF Inv, SameRow, Typed
  <2>3. model[Key] # id /\ seq' = seq + 1
    BY <2>1, <2>2, <1>1, <1>g, <1>7
  <2>4. model[Key] \in Ids
    BY <2>2, <1>2 DEF Inv, Typed, Ids
  <2>. QED  BY <2>2, <2>3, <2>4, <1>4 DEF Present
<1>. QED  BY <1>10, <1>11 DEF Inv

\* An object that has been read stands for its row.
LEMMA SelectKept ==
    ASSUME Inv, NEW found \in SUBSET Present, SelectOf(found)
    PROVE  Inv'
<1>1. CASE Rejected
  BY <1>1, UnchangedFits DEF Rejected, Inv
<1>2. CASE Cardinality(found) = 1 /\ ~Rejected
  <2>1. found # {}
    BY <1>2, FS_EmptySet
  <2>2. PICK i \in found : model' = Loaded(i)
    BY <1>2, <2>1 DEF SelectOf
  <2>3. UNCHANGED <<kind, rows, seq, births, chosen>>
    BY <1>2 DEF SelectOf
  <2>4. i \in Present /\ i \in Ids /\ RowFits(rows[i], births) /\ births \in 0..MaxBirths
    BY DEF Inv, Typed, Present
  <2>5. /\ Key \in Properties \cup {"of"} /\ Key # "of" /\ "of" \notin Columns /\ Key \notin Columns
        /\ Properties = Columns \cup {Key}
    BY RowAccessAssumption DEF RowAccessAssumption, Properties, Key
  <2>6. /\ Loaded(i)[Key] = i /\ Loaded(i)["of"] = rows[i]["born"]
        /\ \A c \in Columns : Loaded(i)[c] = rows[i][c]
    BY <2>5 DEF Loaded
  <2>7. rows[i]["born"] \in 0..births /\ rows[i]["born"] \in 0..MaxBirths
    BY <2>4, RowAccessAssumption DEF RowFits, RowAccessAssumption
  <2>8. ModelFits(Loaded(i), births)
    <3>1. Loaded(i) \in Models
      BY <2>4, <2>5, <2>6, <2>7 DEF Loaded, Models, RowFits
    <3>. QED  BY <3>1, <2>4, <2>6, <2>7 DEF ModelFits, RowFits
  <2>9. Typed'
    BY <2>2, <2>3, <2>8 DEF Inv, Typed, Present
  <2>10. SameRow'
    BY <2>2, <2>3, <2>4, <2>6 DEF SameRow, Inv, Typed, Present
  <2>. QED  BY <2>9, <2>10 DEF Inv
<1>. QED  BY <1>1, <1>2 DEF SelectOf

\* Every step keeps the invariant.
LEMMA NextKept ==
    ASSUME Inv, [Next]_vars
    PROVE  Inv'
<1>1. CASE Renew \/ \E p \in Columns, v \in Assigned : SetProperty(p, v)
  BY <1>1, ProgramKept
<1>2. ASSUME NEW keys \in KeySets, (\E mode \in InsertModes : Insert(keys, mode)) \/ Replace(keys) \/ Update(keys)
      PROVE  Inv'
  <2>1. keys \in SUBSET Properties
    BY KeySetsAre DEF Inv
  <2>. QED  BY <1>2, <2>1, InsertKept, ReplaceKept, UpdatesKept
<1>3. CASE Delete \/ (\E w \in Wheres : DeleteAll(w)) \/ \E i \in Ids : OthersDelete(i)
  BY <1>3, DeletesKept
<1>4. ASSUME NEW w \in Wheres, UpdatePartialAll(w) \/ SelectOne(w) \/ Count(w)  PROVE Inv'
  <2>1. CASE UpdatePartialAll(w)
    BY <2>1, UpdatesKept
  <2>2. CASE SelectOne(w)
    <3>1. \A ps : Matching(w, ps) \in SUBSET Present /\ {} \in SUBSET Present
      BY DEF Matching
    <3>. QED  BY <2>2, <3>1, SelectKept DEF SelectOne
  <2>3. CASE Count(w)
    BY <2>3, UnchangedFits DEF Count, Rejected, Inv
  <2>. QED  BY <1>4, <2>1, <2>2, <2>3
<1>5. CASE Select \/ SelectParentOf
  <2>1. RowOf(model) \in SUBSET Present /\ ParentOf(model) \in SUBSET Present
    BY DEF RowOf, ParentOf
  <2>. QED  BY <1>5, <2>1, SelectKept DEF Select, SelectParentOf
<1>6. ASSUME NEW filter, SelectAllOf(filter)  PROVE Inv'
  BY <1>6, UnchangedFits DEF SelectAllOf, Rejected, Inv
<1>7. CASE OthersInsert
  BY <1>7, OthersInsertKept
<1>8. ASSUME NEW i \in Ids, NEW p \in Columns, NEW v \in Assigned, OthersUpdate(i, p, v)  PROVE Inv'
  BY <1>8, OthersUpdateKept
<1>9. CASE UNCHANGED vars
  BY <1>9, UnchangedFits DEF vars, Inv
<1>. QED  BY <1>1, <1>2, <1>3, <1>4, <1>5, <1>6, <1>7, <1>8, <1>9 DEF Next, KeySets

-----------------------------------------------------------------------------
\* Theorems

\* The invariant holds at the start.
LEMMA InitInv ==
    ASSUME Init
    PROVE  Inv
<1>1. MaxId \in Nat /\ MaxBirths \in Nat /\ Present = {}
  BY RowAccessAssumption DEF Init, Present, RowAccessAssumption
<1>2. ModelFits(model, births) /\ model["of"] = 0
  BY RowAccessAssumption DEF Init, ModelFits, Models, RowAccessAssumption
<1>3. rows \in [Ids -> Rows \cup {Null}] /\ births = 0 /\ seq = 0 /\ chosen = FALSE
  BY DEF Init
<1>4. Typed
  <2>1. kind \in {"autoincrement", "rowid", "withoutRowId"}
    BY DEF Init
  <2>2. /\ \A i \in Present : RowFits(rows[i], births)
        /\ kind = "autoincrement" => Present \subseteq 1..seq
    BY <1>1
  <2>3. seq \in 0..MaxId /\ births \in 0..MaxBirths
    BY <1>1, <1>3
  <2>4. chosen \in BOOLEAN
    BY <1>3
  <2>. QED  BY <1>2, <1>3, <2>1, <2>2, <2>3, <2>4 DEF Typed
<1>5. SameRow
  BY <1>2 DEF SameRow
<1>. QED  BY <1>4, <1>5 DEF Inv

\* The invariant holds always.
LEMMA AlwaysInv == Spec => []Inv
<1>1. Init => Inv
  BY InitInv
<1>2. Inv /\ [Next]_vars => Inv'
  BY NextKept
<1>. QED  BY <1>1, <1>2, PTL DEF Spec

\* The name of a call in last tells which one it was.
LEMMA CallsByName ==
    ASSUME Next
    PROVE  \/ last'.op \notin {"insert", "replace", "update", "updatePartialAll", "delete"}
           \/ /\ ~Rejected
              /\ \/ \E keys \in KeySets :
                       \/ \E mode \in InsertModes : Insert(keys, mode) /\ last'.op = "insert"
                       \/ Replace(keys) /\ last' = Did("replace", keys)
                       \/ Update(keys) /\ last' = Did("update", keys)
                 \/ Delete /\ last' = Did("delete", {})
                 \/ \E w \in Wheres : UpdatePartialAll(w) /\ last'.op = "updatePartialAll" /\ last'.keys = Keys(model)
<1>1. CASE Rejected
  BY <1>1 DEF Rejected
<1>2. ASSUME ~Rejected, NEW keys \in KeySets, NEW mode \in InsertModes, Insert(keys, mode)
      PROVE  last'.op = "insert"
  BY <1>2 DEF Insert, InsertAs, Did
<1>3. ASSUME ~Rejected, NEW keys \in KeySets, Replace(keys)
      PROVE  last' = Did("replace", keys)
  BY <1>3 DEF Replace
<1>4. ASSUME ~Rejected, NEW keys \in KeySets, Update(keys)
      PROVE  last' = Did("update", keys)
  BY <1>4 DEF Update
<1>5. ASSUME ~Rejected, Delete
      PROVE  last' = Did("delete", {})
  BY <1>5 DEF Delete
<1>6. ASSUME ~Rejected, NEW w \in Wheres, UpdatePartialAll(w)
      PROVE  last'.op = "updatePartialAll" /\ last'.keys = Keys(model)
  BY <1>6 DEF UpdatePartialAll
<1>7. ASSUME ~Rejected,
             \/ Renew \/ \E p \in Columns, v \in Assigned : SetProperty(p, v)
             \/ Select \/ SelectParentOf \/ \E filter \in {{}, Wheres} : SelectAllOf(filter)
             \/ \E w \in Wheres : DeleteAll(w) \/ SelectOne(w) \/ Count(w)
             \/ OthersInsert
             \/ \E i \in Ids : OthersDelete(i)
             \/ \E i \in Ids, p \in Columns, v \in Assigned : OthersUpdate(i, p, v)
      PROVE  last'.op \notin {"insert", "replace", "update", "updatePartialAll", "delete"}
  <2>1. NoCall.op = "none"
    BY DEF NoCall
  <2>2. \A found : SelectOf(found) => last' = NoCall
    BY <1>7 DEF SelectOf
  <2>3. ASSUME NEW w \in Wheres, DeleteAll(w)  PROVE last'.op = "deleteAll"
    BY <1>7, <2>3 DEF DeleteAll
  <2>4. ASSUME NEW w \in Wheres, Count(w)  PROVE last'.op = "countAll"
    BY <1>7, <2>4 DEF Count
  <2>5. ASSUME NEW filter, SelectAllOf(filter)  PROVE last'.op = "selectAllOf"
    BY <1>7, <2>5 DEF SelectAllOf
  <2>6. ASSUME \/ Select \/ SelectParentOf \/ \E w \in Wheres : SelectOne(w)
        PROVE  last' = NoCall
    BY <2>2, <2>6 DEF Select, SelectParentOf, SelectOne
  <2>7. ASSUME \/ Renew \/ \E p \in Columns, v \in Assigned : SetProperty(p, v)
               \/ OthersInsert \/ \E i \in Ids : OthersDelete(i)
               \/ \E i \in Ids, p \in Columns, v \in Assigned : OthersUpdate(i, p, v)
        PROVE  last' = NoCall
    BY <2>7 DEF Renew, SetProperty, OthersInsert, OthersDelete, OthersUpdate
  <2>. QED  BY <1>7, <2>1, <2>3, <2>4, <2>5, <2>6, <2>7
<1>. QED  BY <1>1, <1>2, <1>3, <1>4, <1>5, <1>6, <1>7 DEF Next, KeySets

\* The table and the object after an update.
LEMMA UpdateDoes ==
    ASSUME Inv, NEW keys \in KeySets, Update(keys), ~Rejected
    PROVE  /\ model[Key] \in Present /\ model' = model
           /\ \A i \in Present \ {model[Key]} : rows'[i] = rows[i]
           /\ rows'[model[Key]] \in Rows
           /\ \A p \in Columns : rows'[model[Key]][p] =
                 IF p \in keys THEN ToDB(model[p]) ELSE rows[model[Key]][p]
<1>1. /\ RowOf(model) # {} /\ model' = model
      /\ rows' = [i \in Ids |-> IF i \in RowOf(model) THEN SetColumns(rows[i], model, keys) ELSE rows[i]]
  BY DEF Update
<1>2. RowOf(model) = {model[Key]} /\ model[Key] \in Present /\ Present \subseteq Ids
  BY <1>1 DEF RowOf, Present
<1>3. keys \in SUBSET Properties /\ RowOf(model) \in SUBSET Present
  BY <1>2, KeySetsAre DEF Inv
<1>4. /\ \A i \in RowOf(model) : /\ RowFits(rows'[i], births)
                                 /\ \A p \in Columns :
                                       rows'[i][p] = IF p \in keys THEN ToDB(model[p]) ELSE rows[i][p]
      /\ \A i \in Ids \ RowOf(model) : rows'[i] = rows[i]
  BY <1>1, <1>3, UpdateFits DEF Inv
<1>. QED  BY <1>1, <1>2, <1>4 DEF RowFits

\* Ids are not used again in a table with AUTOINCREMENT: a call with an object
\* that stands for a row reaches this row or none.
THEOREM ObjectsKeepToTheirRow == Spec => NeverAnotherRow
<1>1. ASSUME Inv, [Next]_vars
      PROVE  [kind = "autoincrement" /\ ~chosen' /\ last'.op \in ById /\ last'.of # 0 =>
                \A i \in Touched : rows[i].born = last'.of]_vars
  <2>1. SUFFICES ASSUME Next, kind = "autoincrement", last'.op \in ById, last'.of # 0,
                        NEW i \in Touched
                 PROVE  rows[i]["born"] = last'.of
    BY <1>1
  <2>2. i \in Present /\ i \in Ids /\ rows'[i] # rows[i]
    BY DEF Touched, Present
  <2>o. last'.op \in {"update", "delete", "replace"}
    BY <2>1 DEF ById
  <2>3. i = model[Key] /\ last'.of = model["of"]
    <3>1. ASSUME NEW keys \in KeySets, Replace(keys), last' = Did("replace", keys), ~Rejected
          PROVE  i = model[Key] /\ last'.of = model["of"]
      <4>1. model[Key] \in Ids => Key \in keys
        BY <1>1, KeySetsAre DEF Inv
      <4>2. \E id \in Ids : (id \in Present => id = model[Key]) /\ \A k \in Ids \ {id} : rows'[k] = rows[k]
        BY <1>1, <2>1, <3>1, <4>1, ReplaceFits DEF Inv
      <4>. QED  BY <2>2, <3>1, <4>2 DEF Did
    <3>2. ASSUME NEW keys \in KeySets, Update(keys), last' = Did("update", keys), ~Rejected
          PROVE  i = model[Key] /\ last'.of = model["of"]
      BY <1>1, <2>2, <3>2, UpdateDoes DEF Did
    <3>3. ASSUME Delete, last' = Did("delete", {}), ~Rejected
          PROVE  i = model[Key] /\ last'.of = model["of"]
      <4>1. rows' = [k \in Ids |-> IF k \in RowOf(model) THEN Null ELSE rows[k]]
        BY <3>3 DEF Delete
      <4>. QED  BY <2>2, <3>3, <4>1 DEF RowOf, Did
    <3>. QED  BY <2>1, <2>o, <3>1, <3>2, <3>3, CallsByName
  <2>. QED  BY <1>1, <2>1, <2>2, <2>3 DEF Inv, SameRow
<1>. QED  BY <1>1, AlwaysInv, PTL DEF Spec, NeverAnotherRow

\* An update leaves what its object does not name as others have made it.
THEOREM UpdatesKeepTheRest == Spec => OthersKept
<1>1. ASSUME Inv, [Next]_vars
      PROVE  [last'.op \in {"update", "updatePartialAll"} =>
                \A i \in Touched, p \in Columns \ last'.keys : rows'[i][p] = rows[i][p]]_vars
  <2>1. SUFFICES ASSUME Next, last'.op \in {"update", "updatePartialAll"},
                        NEW i \in Touched, NEW p \in Columns, p \notin last'.keys
                 PROVE  rows'[i][p] = rows[i][p]
    BY <1>1
  <2>2. i \in Present /\ i \in Ids /\ rows'[i] # rows[i]
    BY DEF Touched, Present
  <2>3. ASSUME NEW keys \in KeySets, Update(keys), last' = Did("update", keys), ~Rejected
        PROVE  rows'[i][p] = rows[i][p]
    <3>1. p \notin keys
      BY <2>1, <2>3 DEF Did
    <3>. QED  BY <1>1, <2>2, <2>3, <3>1, UpdateDoes
  <2>4. ASSUME NEW w \in Wheres, UpdatePartialAll(w), last'.keys = Keys(model), ~Rejected
        PROVE  rows'[i][p] = rows[i][p]
    <3>1. PICK found \in SUBSET Present :
             rows' = [k \in Ids |-> IF k \in found THEN SetColumns(rows[k], model, Keys(model)) ELSE rows[k]]
      BY <2>4 DEF UpdatePartialAll, Matching
    <3>2. Keys(model) \in SUBSET Properties
      BY DEF Keys
    <3>3. /\ \A k \in found : \A c \in Columns :
                rows'[k][c] = IF c \in Keys(model) THEN ToDB(model[c]) ELSE rows[k][c]
          /\ \A k \in Ids \ found : rows'[k] = rows[k]
      BY <1>1, <3>1, <3>2, UpdateFits DEF Inv
    <3>. QED  BY <2>1, <2>2, <2>4, <3>3
  <2>5. \A name, keys : Did(name, keys).op = name
    BY DEF Did
  <2>. QED  BY <2>1, <2>3, <2>4, <2>5, CallsByName
<1>. QED  BY <1>1, AlwaysInv, PTL DEF Spec, OthersKept

\* After a call that writes, the object and the row under its id agree.
THEOREM WritesAreTold == Spec => AnswersHonest
<1>1. ASSUME Inv, [Next]_vars
      PROVE  [last'.op \in {"insert", "replace", "update"} =>
                LET m == model' IN
                /\ kind = "autoincrement" => m[Key] \in Ids
                /\ m[Key] \in Ids =>
                      /\ rows'[m[Key]] # Null
                      /\ \A p \in last'.keys \cap Columns : rows'[m[Key]][p] = ToDB(m[p])]_vars
  <2>1. SUFFICES ASSUME Next, last'.op \in {"insert", "replace", "update"}
                 PROVE  /\ kind = "autoincrement" => model'[Key] \in Ids
                        /\ model'[Key] \in Ids =>
                              /\ rows'[model'[Key]] # Null
                              /\ \A p \in last'.keys \cap Columns : rows'[model'[Key]][p] = ToDB(model'[p])
    BY <1>1
  <2>b. model[Key] \in Ids \cup {Absent} /\ births \in Nat /\ MaxBirths \in Nat
    BY <1>1, RowAccessAssumption DEF Inv, Typed, ModelFits, RowAccessAssumption
  <2>c. ASSUME NEW keys \in KeySets, NEW p \in keys \cap Columns, model'[p] = model[p]
        PROVE  NewRow(model, keys)[p] = ToDB(model'[p])
    <3>1. p # "born"
      BY RowAccessAssumption DEF RowAccessAssumption
    <3>. QED  BY <2>c, <3>1 DEF NewRow
  <2>2. ASSUME NEW keys \in KeySets, NEW mode \in InsertModes, Insert(keys, mode), ~Rejected
        PROVE  \E id \in Ids :
                  /\ model'[Key] = id /\ rows'[id] # Null /\ last'.keys = keys
                  /\ \A p \in keys \cap Columns : rows'[id][p] = ToDB(model'[p])
    <3>1. PICK id \in Ids :
             /\ model'[Key] = id /\ rows'[id] = NewRow(model, keys) /\ last'.keys = keys
             /\ rows'[id] \in Rows /\ \A p \in Columns : model'[p] = model[p]
      BY <1>1, <2>2, InsertFits DEF Inv
    <3>. QED  BY <3>1, <2>c, RowIsNotNull
  <2>3. ASSUME NEW keys \in KeySets, Replace(keys), last' = Did("replace", keys), ~Rejected
        PROVE  /\ kind = "autoincrement" => model'[Key] \in Ids
               /\ model'[Key] \in Ids =>
                     /\ rows'[model'[Key]] # Null
                     /\ \A p \in keys \cap Columns : rows'[model'[Key]][p] = ToDB(model'[p])
    <3>1. model[Key] \in Ids => Key \in keys
      BY <1>1, KeySetsAre DEF Inv
    <3>2. PICK id \in Ids :
             /\ rows'[id] \in Rows /\ \A c \in Columns : rows'[id][c] = NewRow(model, keys)[c]
             /\ \A p \in Columns : model'[p] = model[p]
             /\ model[Key] \in Ids \/ kind = "autoincrement" => model'[Key] = id
             /\ model[Key] \notin Ids /\ kind # "autoincrement" => model'[Key] = model[Key]
      BY <1>1, <2>3, <3>1, ReplaceFits DEF Inv
    <3>. QED  BY <3>2, <2>c, RowIsNotNull
  <2>4. ASSUME NEW keys \in KeySets, Update(keys), last' = Did("update", keys), ~Rejected
        PROVE  /\ model'[Key] \in Ids /\ rows'[model'[Key]] # Null
               /\ \A p \in keys \cap Columns : rows'[model'[Key]][p] = ToDB(model'[p])
    <3>1. /\ model[Key] \in Present /\ model' = model /\ rows'[model[Key]] \in Rows
          /\ \A p \in Columns : p \in keys => rows'[model[Key]][p] = ToDB(model[p])
      BY <1>1, <2>4, UpdateDoes
    <3>2. model[Key] \in Ids /\ rows'[model[Key]] # Null
      BY <3>1, RowIsNotNull DEF Present
    <3>. QED  BY <3>1, <3>2
  <2>5. \A name, keys : Did(name, keys).op = name /\ Did(name, keys).keys = keys
    BY DEF Did
  <2>. QED  BY <2>1, <2>2, <2>3, <2>4, <2>5, CallsByName
<1>. QED  BY <1>1, AlwaysInv, PTL DEF Spec, AnswersHonest

-----------------------------------------------------------------------------
\* Calls with a where-object

\* The new values of updatePartialAll are host parameters already.
LEMMA ValuesAreParams ==
    ASSUME Typed, Key \notin Keys(model)
    PROVE  [n \in {<<p, 0>> : p \in Keys(model)} |-> ToDB(model[n[1]])] \in Params
<1> DEFINE K == Keys(model)
           D == {<<p, 0>> : p \in K}
           f == [n \in D |-> ToDB(model[n[1]])]
<1>1. K \subseteq Columns /\ \A p \in K : ToDB(model[p]) \in Stored
  BY RowAccessAssumption DEF Keys, Properties, Typed, ModelFits, ToDB, RowAccessAssumption
<1> HIDE DEF K
<1>2. IsFiniteSet(K)
  BY <1>1, RowAccessAssumption, FS_Subset DEF RowAccessAssumption
<1>3. IsFiniteSet(D) /\ D \in SUBSET Names
  <2>1. IsFiniteSet(D)
    <3>1. \A p \in K : <<p, 0>> \in K \X {0}
      OBVIOUS
    <3>2. D \subseteq K \X {0}
      BY <3>1
    <3>3. IsFiniteSet(K \X {0})
      BY <1>2, FS_Product, FS_Singleton
    <3>. QED  BY <3>2, <3>3, FS_Subset
  <2>. QED  BY <1>1, <2>1 DEF Names
<1>4. f \in [D -> Stored]
  BY <1>1
<1>. QED  BY <1>3, <1>4 DEF Params, K

\* The other calls have none.
LEMMA NoneAreParams == [n \in {} |-> Null] \in Params
<1>1. [n \in {} |-> Null] \in [{} -> Stored] /\ {} \in SUBSET Names
  OBVIOUS
<1>. QED  BY <1>1, FS_EmptySet DEF Params

\* The rows a statement finds are the rows that are meant.
LEMMA MatchingMeant ==
    ASSUME NEW w \in Wheres, ~Throws(w), ~IsFilter(w), NEW params \in Params
    PROVE  Matching(w, params) = Meant(w)
<1>1. IsWhere(w)
  BY RowAccessAssumption DEF RowAccessAssumption
<1>2. \A i \in Present : Selects(w, params, rows[i]) <=> Means(w, rows[i]) = "true"
  BY <1>1, SelectsMeant
<1>. QED  BY <1>2 DEF Matching, Meant

\* The names of calls with a where-object, and of selectAllOf, tell them.
LEMMA CallsByWhere ==
    ASSUME Next
    PROVE  \/ last'.op \notin ByWhere \cup {"selectAllOf"}
           \/ \E w \in Wheres :
                 /\ last'.where = w
                 /\ \/ UpdatePartialAll(w) /\ last'.op = "updatePartialAll"
                    \/ DeleteAll(w) /\ last'.op = "deleteAll"
                    \/ Count(w) /\ last'.op = "countAll"
           \/ last' = [op |-> "selectAllOf", result |-> ChildrenOf(model)]
<1> DEFINE Other == last'.op \notin ByWhere \cup {"selectAllOf"}
<1>r. ASSUME Rejected  PROVE Other
  BY <1>r DEF Rejected, ByWhere
<1>n. ASSUME last' = NoCall  PROVE Other
  BY <1>n DEF NoCall, ByWhere
<1>d. \A keys : last' \in {Did("insert", keys), Did("replace", keys), Did("update", keys), Did("delete", keys)} => Other
  BY DEF Did, ByWhere
<1>1. ASSUME NEW w \in Wheres, UpdatePartialAll(w)
      PROVE  Other \/ (last'.where = w /\ last'.op = "updatePartialAll")
  BY <1>r, <1>1 DEF UpdatePartialAll
<1>2. ASSUME NEW w \in Wheres, DeleteAll(w)
      PROVE  Other \/ (last'.where = w /\ last'.op = "deleteAll")
  BY <1>r, <1>2 DEF DeleteAll
<1>3. ASSUME NEW w \in Wheres, Count(w)
      PROVE  Other \/ (last'.where = w /\ last'.op = "countAll")
  BY <1>r, <1>3 DEF Count
<1>4. ASSUME NEW filter, SelectAllOf(filter)
      PROVE  Other \/ last' = [op |-> "selectAllOf", result |-> ChildrenOf(model)]
  BY <1>r, <1>4 DEF SelectAllOf
<1>5. ASSUME NEW found, SelectOf(found)  PROVE Other
  BY <1>r, <1>n, <1>5 DEF SelectOf
<1>6. ASSUME \/ Select \/ SelectParentOf \/ \E w \in Wheres : SelectOne(w)
      PROVE  Other
  <2> HIDE DEF Other
  <2>. QED  BY <1>5, <1>6 DEF Select, SelectParentOf, SelectOne
<1>7. ASSUME NEW keys \in {Properties, Keys(model)},
             \/ \E mode \in InsertModes : Insert(keys, mode)
             \/ Replace(keys) \/ Update(keys)
      PROVE  Other
  <2> HIDE DEF Other
  <2>1. Rejected \/ last' \in {Did("insert", keys), Did("replace", keys), Did("update", keys)}
    BY <1>7 DEF Insert, InsertAs, Replace, Update
  <2>. QED  BY <1>r, <1>d, <2>1
<1>8. ASSUME Delete  PROVE Other
  <2> HIDE DEF Other
  <2>. QED  BY <1>r, <1>d, <1>8 DEF Delete
<1>9. ASSUME \/ Renew \/ \E p \in Columns, v \in Assigned : SetProperty(p, v)
             \/ OthersInsert \/ \E i \in Ids : OthersDelete(i)
             \/ \E i \in Ids, p \in Columns, v \in Assigned : OthersUpdate(i, p, v)
      PROVE  Other
  <2> HIDE DEF Other
  <2>. QED  BY <1>n, <1>9 DEF Renew, SetProperty, OthersInsert, OthersDelete, OthersUpdate
<1> HIDE DEF Other
<1>. QED  BY <1>1, <1>2, <1>3, <1>4, <1>6, <1>7, <1>8, <1>9 DEF Next, Other

\* A row whose foreign key leads to the object, and what leads back.
LEMMA ChildAndParent ==
    ASSUME Typed, NEW i \in Present
    PROVE  /\ i \in ChildrenOf(model) => ParentOf(Loaded(i)) = RowOf(model)
           /\ RowOf(model) # {} /\ ParentOf(Loaded(i)) = RowOf(model) => i \in ChildrenOf(model)
<1> DEFINE v == rows[i][ForeignKey]
<1>1. v \in Stored /\ v # Absent /\ ForeignKey \in Columns /\ ForeignKey \notin {Key, "of"}
  BY RowAccessAssumption DEF Typed, RowFits, RowAccessAssumption
<1>2. ToDB(Loaded(i)[ForeignKey]) = v
  <2>1. Loaded(i)[ForeignKey] = v
    BY <1>1 DEF Loaded, Properties
  <2>. QED  BY <1>1, <2>1 DEF ToDB
<1> HIDE DEF v
<1>3. ParentOf(Loaded(i)) = Present \cap {v}
  BY <1>2 DEF ParentOf
<1>4. Present \subseteq Ids
  BY DEF Present
<1>5. i \in ChildrenOf(model) <=> v = model[Key] /\ v \in Ids
  BY DEF ChildrenOf, v
<1>. QED  BY <1>3, <1>4, <1>5 DEF RowOf

\* A statement reaches, deletes and counts the rows its where-object means.
THEOREM WheresReachWhatTheyMean == Spec => OnlyMatching
<1>1. ASSUME Inv, [Next]_vars
      PROVE  [/\ last'.op \in ByWhere =>
                    LET w == last'.where IN
                    ~IsFilter(w) =>
                       /\ Touched \subseteq Meant(w)
                       /\ last'.op = "deleteAll" => Meant(w) \subseteq Touched
                       /\ last'.op = "countAll" => last'.result = Cardinality(Meant(w))
              /\ last'.op = "selectAllOf" =>
                    \A i \in Present :
                       /\ i \in last'.result => ParentOf(Loaded(i)) = RowOf(model)
                       /\ RowOf(model) # {} /\ ParentOf(Loaded(i)) = RowOf(model) => i \in last'.result]_vars
  <2> SUFFICES ASSUME Next
               PROVE  /\ last'.op \in ByWhere /\ ~IsFilter(last'.where) =>
                            /\ Touched \subseteq Meant(last'.where)
                            /\ last'.op = "deleteAll" => Meant(last'.where) \subseteq Touched
                            /\ last'.op = "countAll" => last'.result = Cardinality(Meant(last'.where))
                      /\ last'.op = "selectAllOf" =>
                            \A i \in Present :
                               /\ i \in last'.result => ParentOf(Loaded(i)) = RowOf(model)
                               /\ RowOf(model) # {} /\ ParentOf(Loaded(i)) = RowOf(model) => i \in last'.result
    BY <1>1
  <2> DEFINE w == last'.where
  <2>1. Typed /\ Touched = {i \in Present : rows'[i] # rows[i]} /\ Present \subseteq Ids
    BY <1>1 DEF Inv, Touched, Present
  <2>2. ASSUME w \in Wheres, UpdatePartialAll(w), last'.op = "updatePartialAll", ~IsFilter(w)
        PROVE  Touched \subseteq Meant(w)
    <3> DEFINE found == Matching(w, [n \in {<<p, 0>> : p \in Keys(model)} |-> ToDB(model[n[1]])])
    <3>1. /\ Key \notin Keys(model) /\ ~Throws(w)
          /\ rows' = [i \in Ids |-> IF i \in found THEN SetColumns(rows[i], model, Keys(model)) ELSE rows[i]]
      BY <2>2 DEF UpdatePartialAll, Rejected
    <3>2. found = Meant(w)
      BY <2>1, <2>2, <3>1, ValuesAreParams, MatchingMeant
    <3> HIDE DEF found
    <3>. QED  BY <2>1, <3>1, <3>2
  <2>3. ASSUME w \in Wheres, DeleteAll(w), last'.op = "deleteAll", ~IsFilter(w)
        PROVE  Touched = Meant(w)
    <3> DEFINE found == Matching(w, [n \in {} |-> Null])
    <3>1. ~Throws(w) /\ rows' = [i \in Ids |-> IF i \in found THEN Null ELSE rows[i]]
      BY <2>3 DEF DeleteAll, Rejected
    <3>2. found = Meant(w)
      BY <2>3, <3>1, NoneAreParams, MatchingMeant
    <3>3. Meant(w) \subseteq Present /\ \A i \in Present : rows[i] # Null
      BY DEF Meant, Present
    <3> HIDE DEF found
    <3>. QED  BY <2>1, <3>1, <3>2, <3>3
  <2>4. ASSUME w \in Wheres, Count(w), last'.op = "countAll", ~IsFilter(w)
        PROVE  last'.result = Cardinality(Meant(w)) /\ Touched = {}
    <3> DEFINE found == Matching(w, [n \in {} |-> Null])
    <3>1. ~Throws(w) /\ rows' = rows /\ last'.result = Cardinality(found)
      BY <2>4 DEF Count, Rejected
    <3>2. found = Meant(w)
      BY <2>4, <3>1, NoneAreParams, MatchingMeant
    <3> HIDE DEF found
    <3>. QED  BY <2>1, <3>1, <3>2
  <2>5. ASSUME last' = [op |-> "selectAllOf", result |-> ChildrenOf(model)], NEW i \in Present
        PROVE  /\ i \in last'.result => ParentOf(Loaded(i)) = RowOf(model)
               /\ RowOf(model) # {} /\ ParentOf(Loaded(i)) = RowOf(model) => i \in last'.result
    BY <2>1, <2>5, ChildAndParent
  <2>6. "selectAllOf" \notin ByWhere
    BY DEF ByWhere
  <2>. QED  BY <2>2, <2>3, <2>4, <2>5, <2>6, CallsByWhere
<1>. QED  BY <1>1, AlwaysInv, PTL DEF Spec, OnlyMatching
=============================================================================
