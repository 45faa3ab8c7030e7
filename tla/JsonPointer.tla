----------------------------- MODULE JsonPointer -----------------------------
(* jsonpointerx: a program reads and writes a document through pointers,     *)
(* which it prints and parses.  Segments and pointers are sequences of       *)
(* characters.  set works in place, so a call that throws leaves what it has *)
(* done until then.                                                          *)
(* Bounds: no segment is a name that objects or arrays inherit or have by    *)
(* themselves (length, toString), and none is blacklisted (__proto__,        *)
(* prototype: the constructor throws).  Chars stands for characters that     *)
(* encodeURIComponent leaves alone, and for those that URIComponent names.   *)
EXTENDS Integers, Sequences, FiniteSets, SequencesExt

CONSTANTS
    Chars,      \* the characters of segments and of pointers as text
    Segs,       \* the segments the program uses
    Fragments,  \* the values it sets, Undefined among them
    Undefined, Null,
    MaxDepth,   \* bound on the segments of a pointer
    MaxSize     \* bound on the places of the document

\* the characters that mean something
LineBreaks == {"\n", "\r"}
Signs == {"-", "/", "#", "~", "0", "1", "%", "2", "3", "5", "A", "C", "D", "F", "\\", "'"} \cup LineBreaks

ASSUME JsonAssumption == MaxDepth \in Nat /\ Signs \subseteq Chars /\ Segs \subseteq Seq(Chars)

VARIABLE doc  \* the document

-----------------------------------------------------------------------------
\* Documents: objects, and arrays that may have holes

Object(f) == [t |-> "object", f |-> f]
Array(f, n) == [t |-> "array", f |-> f, len |-> n]
Scalar(v) == [t |-> "scalar", v |-> v]
Nothing == Scalar(Undefined)
EmptyObject == Object([k \in {} |-> Nothing])
EmptyArray == Array([k \in {} |-> Nothing], 0)
IsNil(n) == n \in {Nothing, Scalar(Null)}

\* a value of JavaScript, and all values it is made of
IsNode(n) ==
    \/ n.t = "scalar" /\ n = Scalar(n.v)
    \/ n.t = "object" /\ n = Object([k \in DOMAIN n.f |-> n.f[k]])
    \/ /\ n.t = "array" /\ n = Array([k \in DOMAIN n.f |-> n.f[k]], n.len)
       /\ n.len \in Nat /\ DOMAIN n.f \subseteq 0..n.len - 1
Closed(S) == \A n \in S : IsNode(n) /\ (n.t # "scalar" => \A k \in DOMAIN n.f : n.f[k] \in S)

ASSUME FragmentAssumption == Closed(Fragments)

Digits == <<"0", "1", "2", "3", "4", "5", "6", "7", "8", "9">>
DigitOf(c) == (CHOOSE i \in 1..10 : Digits[i] = c) - 1
IsDigit(c) == \E i \in 1..10 : Digits[i] = c

\* parseInt: the value of the leading digits, NaN without any
NaN == -1
ReadDigit(r, c) ==
    IF ~r.more \/ ~IsDigit(c) THEN [r EXCEPT !.more = FALSE]
    ELSE [r EXCEPT !.value = IF @ = NaN THEN DigitOf(c) ELSE 10 * @ + DigitOf(c)]
Reading(k) ==
    LET read[j \in 0..Len(k)] ==
            IF j = 0 THEN [more |-> TRUE, value |-> NaN] ELSE ReadDigit(read[j - 1], k[j])
    IN read
parseInt(k) == Reading(k)[Len(k)].value

\* an index of an array as JavaScript writes it
IsIndex(k) == /\ k # <<>> /\ \A j \in 1..Len(k) : IsDigit(k[j])
              /\ k[1] = "0" => Len(k) = 1

MaxIndex == 2147483646
\* bounds: no sign and no white space in front of digits, no number too large for an index
ASSUME IndexAssumption ==
    \A s \in Segs : /\ parseInt(s) <= MaxIndex
                    /\ Len(s) > 1 => s[1] \notin {"-", "+", " ", "\t"} \cup LineBreaks

\* the place that k is the name of; elements of an array are found by number
Key(n, k) == IF n.t = "object" THEN k ELSE IF IsIndex(k) THEN parseInt(k) ELSE NaN

\* node[part]; numbers and booleans have no members
Member(n, k) == IF n.t = "scalar" \/ Key(n, k) \notin DOMAIN n.f THEN Nothing ELSE n.f[Key(n, k)]

\* node[part] = v
PutMember(n, x, v) == [n EXCEPT !.f = [y \in DOMAIN n.f \cup {x} |-> IF y = x THEN v ELSE n.f[y]]]
PutIndex(n, i, v) == [PutMember(n, i, v) EXCEPT !.len = IF i >= n.len THEN i + 1 ELSE n.len]
\* delete node[part]: an array keeps its length
RemoveMember(n, k) ==
    IF n.t = "scalar" THEN n ELSE [n EXCEPT !.f = [y \in DOMAIN n.f \ {Key(n, k)} |-> n.f[y]]]

\* the places of a document, level by level, as far as the bound
Size(n) ==
    LET Members(m) == IF m.t = "scalar" THEN <<>> ELSE [k \in 1..Cardinality(DOMAIN m.f) |-> m.f[SetToSeq(DOMAIN m.f)[k]]]
        Descend(acc, d) == [level |-> FlattenSeq([k \in 1..Len(acc.level) |-> Members(acc.level[k])]),
                            size |-> acc.size + Len(acc.level)]
    IN FoldLeft(Descend, [level |-> <<n>>, size |-> 0], [d \in 1..MaxSize + 2 |-> d]).size

-----------------------------------------------------------------------------
\* Pointers as text

\* replace: every character that is one of a table stands for others
AddCode(text, c, table) == text \o (IF c \in DOMAIN table THEN table[c] ELSE <<c>>)
Replacing(s, table) ==
    LET text[k \in 0..Len(s)] == IF k = 0 THEN <<>> ELSE AddCode(text[k - 1], s[k], table)
    IN text
Replaced(s, table) == Replacing(s, table)[Len(s)]
toJpString == [c \in {"~", "/"} |-> IF c = "/" THEN <<"~", "1">> ELSE <<"~", "0">>]
\* external: encodeURIComponent, of the characters used here
URIComponent == [c \in {"%", "/", "\\", "#"} \cup LineBreaks |->
    CASE c = "%" -> <<"%", "2", "5">> [] c = "/"  -> <<"%", "2", "F">> [] c = "\\" -> <<"%", "5", "C">>
      [] c = "#" -> <<"%", "2", "3">> [] c = "\n" -> <<"%", "0", "A">> [] c = "\r" -> <<"%", "0", "D">>]

AddSegment(text, seg) == text \o (<<"/">> \o seg)
Joining(segs) ==
    LET text[k \in 0..Len(segs)] == IF k = 0 THEN <<>> ELSE AddSegment(text[k - 1], segs[k])
    IN text
Join(segs) == Joining(segs)[Len(segs)]
toString(segs) == Join([k \in 1..Len(segs) |-> Replaced(segs[k], toJpString)])
toURIFragmentIdentifier(segs) ==
    <<"#">> \o Join([k \in 1..Len(segs) |-> Replaced(Replaced(segs[k], URIComponent), toJpString)])

\* the text read from left to right; where a code starts, it is taken as a whole
StartsAt(s, k, codes) ==
    {c \in DOMAIN codes : /\ k + Len(codes[c]) - 1 <= Len(s)
                          /\ SubSeq(s, k, k + Len(codes[c]) - 1) = codes[c]}
ReadCode(r, s, k, codes) ==
    IF r.skip > 0 THEN [r EXCEPT !.skip = @ - 1]
    ELSE IF StartsAt(s, k, codes) = {} THEN [r EXCEPT !.out = Append(@, s[k])]
    ELSE LET c == CHOOSE c \in StartsAt(s, k, codes) : TRUE
         IN [out |-> Append(r.out, c), skip |-> Len(codes[c]) - 1]
Decoding(s, codes) ==
    LET read[k \in 0..Len(s)] ==
            IF k = 0 THEN [out |-> <<>>, skip |-> 0] ELSE ReadCode(read[k - 1], s, k, codes)
    IN read
Decoded(s, codes) == Decoding(s, codes)[Len(s)].out

\* mutant: two replacements, one after the other
fromJpStringInTwo(s) ==
    Decoded(Decoded(s, [c \in {"~"} |-> <<"~", "0">>]), [c \in {"/"} |-> <<"~", "1">>])

fromJpString(s) == Decoded(s, toJpString)
decodeURIComponent(s) == Decoded(s, URIComponent)

\* the parts after the first one, which is empty or "#"
SplitAt(parts, c) ==
    IF c = "/" THEN Append(parts, <<>>)
    ELSE IF parts = <<>> THEN parts ELSE [parts EXCEPT ![Len(parts)] = Append(@, c)]
Splitting(s) ==
    LET parts[k \in 0..Len(s)] == IF k = 0 THEN <<>> ELSE SplitAt(parts[k - 1], s[k])
    IN parts
Split(s) == Splitting(s)[Len(s)]

compile(s) ==
    LET parts == Split(s)
        fragment == s # <<>> /\ s[1] = "#"
    IN [k \in 1..Len(parts) |->
           IF fragment THEN decodeURIComponent(fromJpString(parts[k])) ELSE fromJpString(parts[k])]

\* compileFunctions writes a segment between quotes into the source of a function
Literal(s) == Replaced(s, [c \in {"\\", "'"} |-> <<"\\", c>>])
\* external: what is a literal of JavaScript, and the text it stands for
IsLiteral(s) == \A k \in 1..Len(s) : s[k] \notin LineBreaks
LiteralValue(s) == Decoded(s, [c \in {"\\", "'"} |-> <<"\\", c>>])

\* without one, new Function throws a SyntaxError, and the constructor with it
Compiles(segs) == \A k \in 1..Len(segs) : IsLiteral(Literal(segs[k]))

-----------------------------------------------------------------------------
\* get and set

\* notCompiledGet: the nodes it goes through
Walk(segs, n) ==
    LET at[k \in 0..Len(segs)] ==
            IF k = 0 THEN n ELSE IF IsNil(at[k - 1]) THEN Nothing ELSE Member(at[k - 1], segs[k])
    IN at
get(segs, n) == Walk(segs, n)[Len(segs)]

Done(n) == [ok |-> TRUE, node |-> n]
Thrown(n) == [ok |-> FALSE, node |-> n]

\* the function that compileFunctions makes
compiledGet(segs, n) ==
    IF ~Compiles(segs) THEN Thrown(n)
    ELSE Done(get([k \in 1..Len(segs) |-> LiteralValue(Literal(segs[k]))], n))

\* node[part] = value, by the rules for objects and for arrays
Assign(n, part, v) ==
    IF n.t = "scalar" THEN Thrown(n)
    ELSE IF n.t = "object" THEN Done(PutMember(n, part, v))
    ELSE IF part = <<"-">> THEN Done(PutIndex(n, n.len, v))
    ELSE IF parseInt(part) = NaN THEN Thrown(n)
    ELSE Done(PutIndex(n, parseInt(part), v))

\* mutant: the new ancestor of "-" is an object
NewAncestorObject(next) == EmptyObject
\* mutant: every new ancestor is an array
NewAncestorArray(next) == EmptyArray

NewAncestor(next) == IF next = <<"-">> THEN EmptyArray ELSE EmptyObject

\* the nodes from the document on; a new ancestor where there is none
NextNode(n, part, next) ==
    IF IsNil(Member(n, part)) THEN NewAncestor(next) ELSE Member(n, part)
Way(segs, n) ==
    LET way[k \in 0..Len(segs) - 1] ==
            IF k = 0 THEN n ELSE NextNode(way[k - 1], segs[k], segs[k + 1])
    IN way

\* the last node of the way gets the value
SetLast(n, part, v) ==
    IF v # Nothing THEN Assign(n, part, v)
    ELSE IF IsNil(n) THEN Thrown(n) ELSE Done(RemoveMember(n, part))

\* a node of the way, with what happens below it (in place): a new ancestor is
\* assigned first, and when that throws nothing happens below
SetAbove(n, part, below) ==
    IF ~IsNil(Member(n, part)) THEN [below EXCEPT !.node = PutMember(n, Key(n, part), @)]
    ELSE [Assign(n, part, below.node) EXCEPT !.ok = @ /\ below.ok]

\* from the end of the pointer to its beginning
Setting(segs, n, v) ==
    LET way == Way(segs, n)
        end == Len(segs) - 1
        done[k \in 0..end] ==
            IF k = 0 THEN SetLast(way[end], segs[end + 1], v)
            ELSE SetAbove(way[end - k], segs[end - k + 1], done[k - 1])
    IN done
set(segs, n, v) == IF segs = <<>> THEN Thrown(n) ELSE Setting(segs, n, v)[Len(segs) - 1]

-----------------------------------------------------------------------------
\* The program

Paths == UNION {[1..n -> Segs] : n \in 1..MaxDepth}

\* what the two forms of a pointer are compiled to
Compiled == [p \in Paths |-> {compile(toString(p)), compile(toURIFragmentIdentifier(p))}]

JsonInit == doc \in {EmptyObject, EmptyArray}

\* JsonPointer.set, which compiles nothing; bound: the size of the document
Set(segs, v) ==
    /\ Size(doc) <= MaxSize
    /\ doc' = set(segs, doc, v).node

JsonNext == \E p \in Paths, v \in Fragments : \E segs \in Compiled[p] : Set(segs, v)

JsonSpec == JsonInit /\ [][JsonNext]_doc

-----------------------------------------------------------------------------
\* Properties

Canonical(k) == k # <<"-">> /\ (parseInt(k) # NaN => IsIndex(k))
CanonicalPaths == {p \in Paths : \A k \in 1..Len(p) : Canonical(p[k])}
Apart(p) == {q \in Paths : ~IsPrefix(q, p) /\ ~IsPrefix(p, q)}

OneLine(p) == \A k \in 1..Len(p) : \A j \in 1..Len(p[k]) : p[k][j] \notin LineBreaks

\* In every document a program can get to: what is set through a pointer that
\* was printed in either form and parsed is read back by notCompiledGet, whatever
\* the segments contain, and by the compiled get, unless a segment has a line
\* break (the constructor that would compile it throws); and everything outside
\* of the pointer is as before.  For pointers whose array indexes are written as
\* numbers are.
SetThenGet ==
    \A p \in CanonicalPaths, v \in Fragments : \A segs \in Compiled[p] :
        LET r == set(segs, doc, v) IN
        r.ok => /\ get(p, r.node) = v
                /\ OneLine(p) => compiledGet(p, r.node) = Done(v)
                /\ \A q \in Apart(p) : get(q, r.node) = get(q, doc)

\* "-" at the end of a pointer adds to the end of the array there, or makes one,
\* and the elements before it stay.
AppendKeeps ==
    \A p \in CanonicalPaths, v \in Fragments \ {Nothing} :
        LET r == set(Append(p, <<"-">>), doc, v)
            old == get(p, doc)
            new == get(p, r.node)
        IN r.ok /\ old.t # "object" =>
              /\ new.t = "array" /\ new.f[new.len - 1] = v
              /\ old.t = "array" =>
                    new.len = old.len + 1 /\ \A k \in DOMAIN old.f : new.f[k] = old.f[k]

\* A set that throws has changed nothing, although it works in place.
FailedSetKeeps ==
    \A p \in Paths, v \in Fragments :
        LET r == set(p, doc, v) IN ~r.ok => r.node = doc

\* "throws on invalid array index references"
InvalidIndexThrows ==
    \A p \in Paths, v \in Fragments \ {Nothing} : set(p, doc, v).ok =>
        \A k \in 1..Len(p) :
            get(SubSeq(p, 1, k - 1), doc).t = "array" /\ p[k] # <<"-">> => Canonical(p[k])
=============================================================================
