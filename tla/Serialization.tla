---------------------------- MODULE Serialization ----------------------------
(***************************************************************************)
(* The serializer of include/buntils/Serializer.h with its JSON, TOML and  *)
(* UBJSON engines.  A schema says what a C++ type hands to the engine: a   *)
(* number, a truth value, a string, a list, a fixed array, a tuple, a      *)
(* struct of named fields, or a value of any kind (JSONValue, UBJSONTuple; *)
(* that of TOML is left out).  A stream is a sequence of characters; a     *)
(* reader gets the stream and a place in it and gives <<the value, the     *)
(* place after it>>.  A stream that failed is one that is at its end.      *)
(***************************************************************************)
EXTENDS Integers, Sequences, TLC

Seqs == INSTANCE SequencesExt
Concat(texts) == Seqs!FlattenSeq(texts)
Lesser(a, b) == IF a < b THEN a ELSE b
\* What is made of a value that was read, and of the place after it.
Then(r, Make(_, _)) == Make(r[1], r[2])

Number(as) == [k |-> "number", as |-> as]     \* as: the marker UBJSON has for its type
Bool == [k |-> "bool"]
String == [k |-> "string"]
List(of) == [k |-> "list", of |-> of]
Fixed(n, of) == [k |-> "fixed", n |-> n, of |-> of]
Tuple(types) == [k |-> "tuple", types |-> types]
Struct(names, types) == [k |-> "struct", names |-> names, types |-> types]
AnyValue == [k |-> "any"]
Map == [k |-> "map"]                          \* JSONObject: names with values of any kind
IsArray(type) == type.k \in {"list", "fixed", "tuple"}
IsObject(type) == type.k \in {"struct", "map"}

\* A value of any kind; a double is in tenths.  The field says which kind.
Null == [null |-> 0]
Kind(v) == CHOOSE f \in DOMAIN v : f # "as"

\* What a value is before anything was read into it.
RECURSIVE Default(_)
Default(type) ==
  CASE type.k = "number" -> 0
    [] type.k = "bool" -> FALSE
    [] type.k \in {"string", "list", "map"} -> <<>>
    [] type.k = "fixed" -> [i \in 1..type.n |-> Default(type.of)]
    [] type.k \in {"tuple", "struct"} -> [i \in DOMAIN type.types |-> Default(type.types[i])]
    [] type.k = "any" -> Null

\* The element that the n-th call of Add reads, and the value with it; FixedAdd stops at
\* the end of the array, _serializeAdd makes the list longer.
HasElement(type, n) == CASE type.k = "list" -> TRUE
                         [] type.k = "fixed" -> n < type.n
                         [] type.k = "tuple" -> n < Len(type.types)
ElementType(type, n) == IF type.k = "tuple" THEN type.types[n + 1] ELSE type.of
Added(type, acc, n, v) == IF type.k = "list" THEN Append(acc, v) ELSE [acc EXCEPT ![n + 1] = v]
Element(type, acc, n) == IF type.k = "list" THEN Default(type.of) ELSE acc[n + 1]
\* FindParse looks a name up among the fields; _serializeInsert adds a pair under it.
HasField(type, name) == type.k = "map" \/ \E i \in DOMAIN type.names : type.names[i] = name
FieldIndex(type, name) == CHOOSE i \in DOMAIN type.names : type.names[i] = name
FieldType(type, name) == IF type.k = "map" THEN AnyValue ELSE type.types[FieldIndex(type, name)]
Field(type, acc, name) == IF type.k = "map" THEN Null ELSE acc[FieldIndex(type, name)]
Inserted(type, acc, name, v) == IF type.k = "map" THEN Append(acc, <<name, v>>) ELSE [acc EXCEPT ![FieldIndex(type, name)] = v]

\* What is written in order: elements without a name, fields and pairs under theirs.
Item(type, v, id) == [type |-> type, v |-> v, id |-> id]
Items(type, v) ==
  CASE type.k \in {"list", "fixed"} -> [i \in DOMAIN v |-> Item(type.of, v[i], <<>>)]
    [] type.k = "tuple" -> [i \in DOMAIN v |-> Item(type.types[i], v[i], <<>>)]
    [] type.k = "struct" -> [i \in DOMAIN v |-> Item(type.types[i], v[i], <<type.names[i]>>)]
    [] type.k = "map" -> [i \in DOMAIN v |-> Item(AnyValue, v[i][2], <<v[i][1]>>)]

EOF == "end of file"
Peek(s, at) == IF at <= Len(s) THEN s[at] ELSE EOF
\* The first place from `at' on with a character that is in, or not in, the set.
First(s, at, stops) == IF at > Len(s) THEN at ELSE CHOOSE i \in at..Len(s) + 1 : (i > Len(s) \/ s[i] \in stops) /\ \A j \in at..i - 1 : s[j] \notin stops
Past(s, at, skipped) == IF at > Len(s) THEN at ELSE CHOOSE i \in at..Len(s) + 1 : (i > Len(s) \/ s[i] \notin skipped) /\ \A j \in at..i - 1 : s[j] \in skipped

Digit == <<"0", "1", "2", "3", "4", "5", "6", "7", "8", "9">>
IsDigit == {Digit[i] : i \in 1..10}
Value(d) == (CHOOSE i \in 1..10 : Digit[i] = d) - 1
RECURSIVE Decimal(_)
Decimal(n) == IF n < 0 THEN <<"-">> \o Decimal(-n) ELSE (IF n > 9 THEN Decimal(n \div 10) ELSE <<>>) \o <<Digit[(n % 10) + 1]>>
Natural(digits) == Seqs!FoldLeft(LAMBDA n, d : 10 * n + Value(d), 0, digits)
Space == {" ", "\n", "\t"}

\* s >> obj: a number after spaces; when there is none the stream fails.
Extract(s, at) ==
  LET sign == Past(s, at, Space)
      from == IF Peek(s, sign) \in {"-", "+"} THEN sign + 1 ELSE sign
      to == Past(s, from, IsDigit)
      n == Natural(SubSeq(s, from, to - 1))
  IN  IF to = from THEN <<0, Len(s) + 1>> ELSE <<IF Peek(s, sign) = "-" THEN -n ELSE n, to>>
-----------------------------------------------------------------------------
(***************************************************************************)
(* JSON, written.  `pretty' has the level of the indentation, 0 without,   *)
(* and the flag that a comma is due.                                       *)
(***************************************************************************)
Pretty(level) == [level |-> level, comma |-> FALSE]
WriteJSONIsPretty(pretty) == pretty.level > 0
WriteJSONTabs(pretty) == [i \in 1..pretty.level - 1 |-> "\t"]
WriteJSONComma(pretty) == IF pretty.comma THEN <<",">> ELSE <<>>
WriteJSONPretty(pretty) == Pretty(IF pretty.level > 0 THEN pretty.level + 1 ELSE 0)
NewLine(pretty) == IF WriteJSONIsPretty(pretty) THEN <<"\n">> \o WriteJSONTabs(pretty) ELSE <<>>
WriteJSONId(id, pretty) == IF id = <<>> THEN <<>> ELSE NewLine(pretty) \o <<"\"">> \o id[1] \o <<"\"", ":", " ">>

Escapes == "\"" :> "\"" @@ "\\" :> "\\" @@ "/" :> "/" @@ "\n" :> "n" @@ "\t" :> "t"
Escaped(c) == IF c \in DOMAIN Escapes THEN <<"\\", Escapes[c]>> ELSE <<c>>
Word(b) == IF b THEN <<"t", "r", "u", "e">> ELSE <<"f", "a", "l", "s", "e">>
Tenths(d) == LET n == IF d < 0 THEN -d ELSE d
             IN  (IF d < 0 THEN <<"-">> ELSE <<>>) \o Decimal(n \div 10) \o (IF n % 10 = 0 THEN <<>> ELSE <<".">> \o Decimal(n % 10))

RECURSIVE WriteJSON(_, _, _, _), WriteJSONEach(_, _)
WriteJSONValue(type, v, label, newline, inner) ==
  CASE type.k = "number" -> label \o Decimal(v)
    [] type.k = "bool" -> label \o Word(v)
    [] type.k = "string" -> label \o <<"\"">> \o Concat([i \in DOMAIN v |-> Escaped(v[i])]) \o <<"\"">>
    [] type.k = "double" -> label \o Tenths(v)
    [] type.k = "null" -> <<>>
    [] IsArray(type) -> label \o <<"[">> \o WriteJSONEach(Items(type, v), inner) \o <<"]">>
    [] IsObject(type) -> label \o <<"{">> \o WriteJSONEach(Items(type, v), inner) \o newline \o <<"}">>
\* The type that is written for a value of any kind.
JSONType(v) == CASE Kind(v) = "string" -> String
                 [] Kind(v) = "int" -> Number("L")
                 [] Kind(v) = "bool" -> Bool
                 [] Kind(v) = "list" -> List(AnyValue)
                 [] Kind(v) = "map" -> Map
                 [] Kind(v) \in {"double", "null"} -> [k |-> Kind(v)]
\* An object without a name starts a line as well.
Label(type, id, pretty) ==
  WriteJSONComma(pretty) \o (IF id = <<>> /\ IsObject(type) THEN NewLine(pretty) ELSE WriteJSONId(id, pretty))
WriteJSON(type, v, id, pretty) ==
  IF type.k = "any" THEN WriteJSON(JSONType(v), v[Kind(v)], id, pretty)
  ELSE WriteJSONValue(type, v, Label(type, id, pretty), NewLine(pretty), WriteJSONPretty(pretty))
WriteJSONEach(items, pretty) ==
  LET Rest(text) == text \o WriteJSONEach(Tail(items), [pretty EXCEPT !.comma = @ \/ text # <<>>])
      Text(i) == WriteJSON(i.type, i.v, i.id, pretty)
  IN  IF items = <<>> THEN <<>> ELSE Rest(Text(Head(items)))
-----------------------------------------------------------------------------
(***************************************************************************)
(* JSON, read.                                                             *)
(***************************************************************************)
\* What was read, as a value of any kind.
As(field, r) == <<field :> r[1], r[2]>>
EatWhitespace(s, at) == Past(s, at, Space)
ValueEnds == {",", "}", "]"}

\* \u and four digits is the character OutputUnicode makes of them; here there are three.
OutputUnicode(digits) == CASE digits = <<"0", "0", "0", "9">> -> "\t"
                           [] digits = <<"0", "0", "2", "0">> -> " "
                           [] digits = <<"0", "0", "3", "0">> -> "0"
EatCharacter(s, at) ==
  CASE Peek(s, at) # "\\" -> <<<<Peek(s, at)>>, at + 1>>
    [] Peek(s, at) = "\\" /\ Peek(s, at + 1) = "u" -> <<<<OutputUnicode(SubSeq(s, at + 2, at + 5))>>, at + 6>>
    [] OTHER -> <<SelectSeq(<<"\"", "\\", "/", "\n", "\t">>, LAMBDA c : Escapes[c] = Peek(s, at + 1)), at + 2>>
RECURSIVE EatString(_, _)
EatString(s, at) ==
  IF Peek(s, at) \in {"\"", EOF} THEN <<<<>>, at>>
  ELSE Then(EatCharacter(s, at), LAMBDA c, next : Then(EatString(s, next), LAMBDA text, to : <<c \o text, to>>))

\* A string is quoted, or is everything up to the end of the value.
JSONString(s, at) ==
  CASE Peek(s, at) \in ValueEnds -> <<<<>>, at>>
    [] Peek(s, at) = "\"" -> Then(EatString(s, at + 1), LAMBDA text, to : <<text, to + 1>>)
    [] OTHER -> Then(<<at, First(s, at + 1, ValueEnds)>>, LAMBDA from, to : <<SubSeq(s, from, to - 1), to>>)

\* A quoted number: the loop has eaten the closing quote when `s.get(); // eat the "
\* character' eats what is behind it.
JSONNumber(old, s, at) ==
  CASE Peek(s, at) \in ValueEnds -> <<old, at>>
    [] Peek(s, at) = "\"" -> Then(Extract(s, at + 1), LAMBDA n, to : <<n, First(s, to, {"\""}) + 2>>)
    [] OTHER -> Extract(s, at)

\* Anything that differs from "true" before it ends is false.
JSONBool(s, at) ==
  LET differ == {i \in 1..Lesser(4, First(s, at, ValueEnds) - at) : s[at + i - 1] # Word(TRUE)[i]}
  IN  CASE Peek(s, at) \in IsDigit -> Then(Extract(s, at), LAMBDA n, to : <<n # 0, to>>)
        [] Peek(s, at) \notin IsDigit /\ differ # {} -> <<FALSE, at + (CHOOSE i \in differ : \A j \in differ : i <= j)>>
        [] OTHER -> <<TRUE, Lesser(at + 4, First(s, at, ValueEnds))>>

\* strtoll and strtod of a text: what follows the number is left.
Numeric(text) ==
  LET tenths == {i \in DOMAIN text : text[i] = "."}
      Tenth(i) == IF i < Len(text) THEN Value(text[i + 1]) ELSE 0
      Signed(n) == IF text[1] = "-" THEN -n ELSE n
      Whole(n, to) == IF n < 0 THEN -n ELSE n
      whole == Then(Extract(text, 1), Whole)
  IN  IF tenths = {} THEN [int |-> Signed(whole)]
      ELSE [double |-> Signed(10 * whole + Tenth(CHOOSE i \in tenths : \A j \in tenths : i <= j))]
\* A word that is neither a truth value nor null is a string.
Bare(text, old) == CASE text = Word(TRUE) -> [bool |-> TRUE]
                     [] text = Word(FALSE) -> [bool |-> FALSE]
                     [] text = <<"n", "u", "l", "l">> -> old
                     [] OTHER -> [string |-> text]
JSONValue(old, s, at) ==
  CASE Peek(s, at) = "\"" -> As("string", JSONString(s, at))
    [] Peek(s, at) \in IsDigit \cup {".", "-", "+"} -> Then(JSONString(s, at), LAMBDA text, to : <<Numeric(text), to>>)
    [] OTHER -> Then(JSONString(s, at), LAMBDA text, to : <<Bare(text, old), to>>)

RECURSIVE ParseJSON(_, _, _, _), JSONMembers(_, _, _, _), JSONElements(_, _, _, _, _)
\* A list or an object after its opening bracket, which must be there.
JSONContainer(type, old, s, at) ==
  CASE Peek(s, at) = "[" /\ IsArray(type) -> JSONElements(type, old, 0, s, EatWhitespace(s, at + 1))
    [] Peek(s, at) = "{" /\ IsObject(type) -> JSONMembers(type, old, s, EatWhitespace(s, at + 1))
    [] OTHER -> <<old, at + 1>>
ParseJSON(type, old, s, at) ==
  CASE type.k = "number" -> JSONNumber(old, s, at)
    [] type.k = "bool" -> JSONBool(s, at)
    [] type.k = "string" -> JSONString(s, at)
    [] IsArray(type) \/ IsObject(type) -> JSONContainer(type, old, s, EatWhitespace(s, at))
    [] type.k = "any" ->
         LET OfAny(from) == CASE Peek(s, from) = "{" -> As("map", JSONContainer(Map, <<>>, s, from))
                              [] Peek(s, from) = "[" -> As("list", JSONContainer(List(AnyValue), <<>>, s, from))
                              [] OTHER -> JSONValue(old, s, from)
         IN  OfAny(EatWhitespace(s, at))
\* The place behind the comma, or at the bracket that ends it all: what a value leaves is
\* skipped.
JSONNext(s, at, end) ==
  LET Behind(to) == EatWhitespace(s, IF Peek(s, to) = "," THEN to + 1 ELSE to)
  IN  Behind(First(s, at, {",", end}))
\* ParseJSONObject from the first member on: what is not a quoted name and a colon is
\* skipped.
JSONMembers(type, acc, s, at) ==
  LET Known(name, from) == Then(ParseJSON(FieldType(type, name), Field(type, acc, name), s, from),
                                LAMBDA v, to : JSONMembers(type, Inserted(type, acc, name, v), s, JSONNext(s, to, "}")))
      Member(name, from) == IF HasField(type, name) THEN Known(name, from) ELSE JSONMembers(type, acc, s, JSONNext(s, from, "}"))
      Named(name, colon) == IF Peek(s, colon) = ":" THEN Member(name, EatWhitespace(s, colon + 1)) ELSE JSONMembers(type, acc, s, colon + 1)
  IN  CASE Peek(s, at) = EOF -> <<acc, at>>
        [] Peek(s, at) = "}" -> <<acc, at + 1>>
        [] Peek(s, at) = "\"" -> Then(EatString(s, at + 1), LAMBDA name, to : Named(name, EatWhitespace(s, to + 1)))
        [] OTHER -> JSONMembers(type, acc, s, at + 1)
JSONElements(type, acc, n, s, at) ==
  CASE Peek(s, at) = EOF -> <<acc, at>>
    [] Peek(s, at) = "]" -> <<acc, at + 1>>
    [] Peek(s, at) \notin {EOF, "]"} /\ HasElement(type, n) ->
         Then(ParseJSON(ElementType(type, n), Element(type, acc, n), s, at),
              LAMBDA v, to : JSONElements(type, Added(type, acc, n, v), n + 1, s, JSONNext(s, to, "]")))
    [] OTHER -> JSONElements(type, acc, n + 1, s, JSONNext(s, at, "]"))
-----------------------------------------------------------------------------
(***************************************************************************)
(* TOML, written: for each table first what fits on a line, then the       *)
(* tables in it under headers with their path.  Inside a line a struct is  *)
(* an inline table.                                                        *)
(***************************************************************************)
TOMLEscaped(c) == IF c = "/" THEN <<c>> ELSE Escaped(c)
WriteTOMLId(id) == IF id = <<>> THEN <<>> ELSE id[1] \o <<" ", "=", " ">>
RECURSIVE WriteTOMLValue(_, _), WriteTOMLObject(_, _)
\* `first' is false from the second element on: every element has written something.
WriteTOMLLine(items) ==
  Concat([i \in DOMAIN items |-> (IF i = 1 THEN <<>> ELSE <<",", " ">>) \o WriteTOMLId(items[i].id) \o WriteTOMLValue(items[i].type, items[i].v)])
WriteTOMLValue(type, v) ==
  CASE type.k = "number" -> Decimal(v)
    [] type.k = "bool" -> Word(v)
    [] type.k = "string" -> <<"\"">> \o Concat([i \in DOMAIN v |-> TOMLEscaped(v[i])]) \o <<"\"">>
    [] IsArray(type) -> <<"[">> \o WriteTOMLLine(Items(type, v)) \o <<"]">>
    [] IsObject(type) -> <<"{", " ">> \o WriteTOMLLine(Items(type, v)) \o <<" ", "}">>
WriteTOMLPairs(items, header) ==
  (IF header = <<>> THEN <<>> ELSE <<"[">> \o header \o <<"]", "\n">>) \o Concat([i \in DOMAIN items |-> WriteTOMLLine(<<items[i]>>) \o <<"\n">>]) \o <<"\n">>
\* The path to a table's own tables: lastid with a dot behind it.
WriteTOMLTables(tables, path) ==
  Concat([i \in DOMAIN tables |-> WriteTOMLObject(Items(tables[i].type, tables[i].v), path \o tables[i].id[1])])
WriteTOMLObject(items, header) ==
  WriteTOMLPairs(SelectSeq(items, LAMBDA i : ~IsObject(i.type)), header)
    \o WriteTOMLTables(SelectSeq(items, LAMBDA i : IsObject(i.type)), IF header = <<>> THEN <<>> ELSE header \o <<".">>)
WriteTOML(type, v) == WriteTOMLObject(Items(type, v), <<>>)
-----------------------------------------------------------------------------
(***************************************************************************)
(* TOML, read.  A line ends with one character.  The state says where a    *)
(* value stands: BEGIN at the root, NORMAL behind an equals sign, TABLE    *)
(* and INLINE_TABLE in the header of a table or of an array of tables.     *)
(***************************************************************************)
Blank == {" ", "\t"}
EatBlank(s, at) == Past(s, at, Blank)
RECURSIVE EatAllspace(_, _)
EatAllspace(s, at) ==
  Then(<<s, Past(s, at, Space)>>, LAMBDA text, to : IF Peek(text, to) = "#" THEN EatAllspace(text, First(text, to, {"\n"})) ELSE to)
EatNewline(s, at) == IF Peek(s, at) = "\n" THEN at + 1 ELSE at

\* Inside quotes: escapes, of which an escaped end of the line is nothing; in literal
\* strings there are none.
TOMLCharacter(quote, s, at) ==
  CASE quote = "'" -> <<<<Peek(s, at)>>, at + 1>>
    [] quote = "\"" /\ Peek(s, at) = "\\" /\ Peek(s, at + 1) = "\n" -> <<<<>>, EatBlank(s, at + 2)>>
    [] OTHER -> EatCharacter(s, at)
Triple(quote, s, at) == \A i \in 0..2 : Peek(s, at + i) = quote
RECURSIVE TOMLQuoted(_, _, _, _)
\* Up to the quote or the end of the line, or up to three quotes; a text that ends before
\* that got the code for the end of the file as well.
TOMLQuoted(quote, triple, s, at) ==
  CASE triple /\ Triple(quote, s, at) -> <<<<>>, at + 3>>
    [] triple /\ Peek(s, at) = EOF -> <<<<EOF>>, at>>
    [] ~triple /\ Peek(s, at) \in {"\n", EOF} -> <<<<>>, at>>
    [] ~triple /\ Peek(s, at) = quote -> <<<<>>, at + 1>>
    [] OTHER -> Then(TOMLCharacter(quote, s, at), LAMBDA c, next : Then(TOMLQuoted(quote, triple, s, next), LAMBDA text, to : <<c \o text, to>>))
Stripped(text) == SubSeq(text, 1, Len(text) - (Past(Seqs!Reverse(text), 1, Space) - 1))
\* A bare string goes to the end of the line or to a character that ends it.
TOMLBare(ends, s, at) == Then(<<at, First(s, at, ends \cup {"\n"})>>, LAMBDA from, to : <<Stripped(SubSeq(s, from, to - 1)), to>>)
TOMLText(ends, s, at) ==
  LET quote == Peek(s, at)
      triple == ends = {} /\ Triple(quote, s, at)
  IN  CASE quote \notin {"\"", "'"} -> TOMLBare(ends, s, at)
        [] quote \in {"\"", "'"} /\ ends # {} /\ Triple(quote, s, at) -> <<<<>>, at + 3>>
        [] OTHER -> TOMLQuoted(quote, triple, s, IF triple THEN EatNewline(s, at + 3) ELSE at + 1)
TOMLString(ends, s, at) == TOMLText(ends, s, EatBlank(s, at))
TOMLNumber(old, s, at) ==
  CASE Peek(s, at) \in {"\n", ","} -> <<old, at>>
    [] Peek(s, at) = "\"" -> JSONNumber(old, s, at)
    [] OTHER -> Extract(s, at)

RECURSIVE ParseTOML(_, _, _, _, _), TOMLElements(_, _, _, _, _), TOMLTable(_, _, _, _), TOMLPairs(_, _, _, _), TOMLTables(_, _, _, _)
\* What the reader does with a name: nothing, if no field has it.
TOMLField(type, acc, state, s, name, at) ==
  IF HasField(type, name)
  THEN Then(ParseTOML(FieldType(type, name), Field(type, acc, name), state, s, at), LAMBDA v, to : <<Inserted(type, acc, name, v), to>>)
  ELSE <<acc, at>>
TOMLAdd(type, acc, n, state, s, at) ==
  IF HasElement(type, n)
  THEN Then(ParseTOML(ElementType(type, n), Element(type, acc, n), state, s, at), LAMBDA v, to : <<Added(type, acc, n, v), to>>)
  ELSE <<acc, at>>
InHeader == {"TABLE", "INLINE_TABLE"}
\* The next part of the path of a header, at a dot, and the body, at its end.
TOMLHeader(type, acc, state, s, at) ==
  CASE Peek(s, at) = "." -> Then(TOMLString({".", "]"}, s, at + 1), LAMBDA name, to : TOMLField(type, acc, state, s, name, to))
    [] Peek(s, at) = "]" -> TOMLPairs(type, acc, s, EatAllspace(s, IF state = "INLINE_TABLE" /\ Peek(s, at + 1) = "]" THEN at + 2 ELSE at + 1))
TOMLObject(type, acc, state, s, at) ==
  CASE state = "BEGIN" -> Then(TOMLPairs(type, acc, s, EatAllspace(s, at)), LAMBDA v, to : TOMLTables(type, v, s, to))
    [] state \in InHeader -> TOMLHeader(type, acc, state, s, at)
    [] state = "NORMAL" /\ Peek(s, EatBlank(s, at)) = "{" -> TOMLTable(type, acc, s, EatAllspace(s, EatBlank(s, at) + 1))
    [] OTHER -> <<acc, EatBlank(s, at)>>
\* The path of a header goes on in the last element of an array; the header of an array of
\* tables adds one; and where a value stands there is a list.
TOMLArray(type, acc, state, s, at) ==
  CASE state \in InHeader /\ Peek(s, at) = "." ->
         Then(ParseTOML(ElementType(type, Len(acc) - 1), acc[Len(acc)], state, s, at), LAMBDA v, to : <<[acc EXCEPT ![Len(acc)] = v], to>>)
    [] state = "INLINE_TABLE" /\ Peek(s, at) # "." -> TOMLAdd(type, acc, 0, state, s, at)
    [] OTHER -> Then(<<acc, EatBlank(s, at)>>, LAMBDA old, from : IF Peek(s, from) = "[" THEN TOMLElements(type, old, 0, s, EatAllspace(s, from + 1)) ELSE <<old, from + 1>>)
ParseTOML(type, old, state, s, at) ==
  CASE type.k = "number" -> TOMLNumber(old, s, at)
    [] type.k = "bool" -> JSONBool(s, EatBlank(s, at))
    [] type.k = "string" -> TOMLString({}, s, at)
    [] IsArray(type) -> TOMLArray(type, old, state, s, at)
    [] IsObject(type) -> TOMLObject(type, old, state, s, at)
\* The bracket that ends an array is left for what comes behind it to skip.
TOMLElements(type, acc, n, s, at) ==
  LET Next(v, to) == TOMLElements(type, v, n + 1, s, EatAllspace(s, IF Peek(s, to) = "," THEN to + 1 ELSE to))
  IN  IF Peek(s, at) \in {"]", EOF} THEN <<acc, at>>
      ELSE Then(TOMLAdd(type, acc, n, "NORMAL", s, at), LAMBDA v, to : Next(v, First(s, to, {",", "]"})))
\* A name and what is behind its equals sign; what the value leaves is skipped, up to one
\* of the ends.
TOMLPair(type, acc, ends, s, at) ==
  LET Skip(v, to) == <<v, First(s, to, ends)>>
      Behind(name, eq) == IF Peek(s, eq) = "=" THEN Then(TOMLField(type, acc, "NORMAL", s, name, eq + 1), Skip) ELSE <<acc, eq>>
  IN  Then(TOMLString({"="}, s, at), LAMBDA name, to : Behind(name, EatBlank(s, to)))
LineEnds == {"\n", ",", "}"}
TOMLTable(type, acc, s, at) ==
  LET Next(v, to) == TOMLTable(type, v, s, EatBlank(s, IF Peek(s, to) = "," THEN to + 1 ELSE to))
  IN  IF Peek(s, at) \in {"}", "\n", EOF} THEN <<acc, IF Peek(s, at) = "}" THEN at + 1 ELSE at>>
      ELSE Then(TOMLPair(type, acc, LineEnds, s, at), LAMBDA v, to : Next(v, First(s, to, LineEnds)))
TOMLPairs(type, acc, s, at) ==
  IF Peek(s, at) \in {"[", EOF} THEN <<acc, at>>
  ELSE Then(TOMLPair(type, acc, {"\n"}, s, at), LAMBDA v, to : TOMLPairs(type, v, s, EatAllspace(s, to)))
\* The rest of the document from the first header on; lines are skipped until one begins
\* with a bracket.
RECURSIVE ToHeader(_, _)
ToHeader(s, at) == IF Peek(s, at) \in {"[", EOF} THEN at ELSE ToHeader(s, EatNewline(s, First(s, at, {"\n"})))
TOMLTables(type, acc, s, at) ==
  LET array == Peek(s, at + 1) = "["
      Path(name, to) == IF Peek(s, to) \in {".", "]"} THEN TOMLField(type, acc, IF array THEN "INLINE_TABLE" ELSE "TABLE", s, name, to) ELSE <<acc, to>>
  IN  IF Peek(s, at) # "[" THEN <<acc, at>>
      ELSE Then(Then(TOMLString({".", "]"}, s, IF array THEN at + 2 ELSE at + 1), LAMBDA name, to : Path(name, EatBlank(s, to))),
                LAMBDA v, to : TOMLTables(type, v, s, ToHeader(s, to)))
-----------------------------------------------------------------------------
(***************************************************************************)
(* UBJSON.  A byte has two bits, so that TLC can have numbers of 8 bytes.  *)
(* The empty marker is TYPE_NONE.                                          *)
(***************************************************************************)
NONE == ""
Width == [i |-> 1, U |-> 1, I |-> 2, l |-> 4, L |-> 8] @@ "uI" :> 2 @@ "ul" :> 4 @@ "uL" :> 8
Integers_ == {"U", "i", "I", "l", "L"}
Unsigned == {"U", "uI", "ul", "uL"}
Min_(as) == IF as \in Unsigned THEN 0 ELSE -(4^Width[as] \div 2)
Max_(as) == IF as \in Unsigned THEN 4^Width[as] - 1 ELSE 4^Width[as] \div 2 - 1
Cast(n, as) == LET m == n % 4^Width[as] IN IF m > Max_(as) THEN m - 4^Width[as] ELSE m

\* The marker of the first type a number fits in.  The limits of a type are cast to the
\* type of the number, and of two types of one size one limit is the number's own.
CheckIntType(as, n, from) ==
  LET same == Width[as] = Width[from]
  IN  /\ n >= Cast(Min_(IF same /\ from \in Unsigned THEN from ELSE as), from)
      /\ n <= Cast(Max_(IF same /\ from \notin Unsigned THEN from ELSE as), from)
GetIntType(n, from) ==
  LET fits == SelectSeq(<<"U", "i", "I", "l", "L">>, LAMBDA as : CheckIntType(as, n, from))
  IN  IF fits = <<>> THEN "H" ELSE fits[1]

\* The first byte is the highest, on every machine.
WriteInteger(n, as) == [i \in 1..Width[as] |-> Digit[(((n % 4^Width[as]) \div 4^(Width[as] - i)) % 4) + 1]]
\* A number gets its marker, unless the list around it has given the type of all.
WriteNumber(n, from, ty) == LET as == IF ty = NONE THEN GetIntType(n, from) ELSE ty
                            IN  (IF ty = NONE THEN <<as>> ELSE <<>>) \o WriteInteger(n, as)
WriteLength(n) == WriteNumber(n, "L", NONE)
WriteChars(text) == WriteLength(Len(text)) \o text
WriteId(id) == IF id = <<>> THEN <<>> ELSE WriteChars(id[1])
WriteTypeCount(ty, n) == (IF ty # NONE THEN <<"$", ty>> ELSE <<>>) \o <<"#">> \o WriteLength(n)

\* UBJSONTuple::Write: elements of one type share its marker.
TupleType(v) == CASE Kind(v) = "int" -> v.as
                  [] Kind(v) = "bool" -> IF v.bool THEN "T" ELSE "F"
                  [] Kind(v) = "null" -> "Z"
                  [] Kind(v) = "string" -> "S"
                  [] Kind(v) = "list" -> "["
                  [] Kind(v) = "map" -> "{"
Common(values) == IF \A i \in DOMAIN values : TupleType(values[i]) = TupleType(values[1]) THEN TupleType(values[1]) ELSE NONE
Contained(v) == IF Kind(v) = "list" THEN v.list ELSE [i \in DOMAIN v.map |-> v.map[i][2]]
RECURSIVE WriteTuple(_, _)
WriteTuple(v, ty) ==
  (IF ty = NONE THEN <<TupleType(v)>> ELSE <<>>) \o
    CASE Kind(v) = "int" -> WriteInteger(v.int, v.as)
      [] Kind(v) \in {"bool", "null"} -> <<>>
      [] Kind(v) = "string" -> WriteChars(v.string)
      [] Kind(v) = "list" /\ v.list = <<>> -> <<"]">>
      [] Kind(v) = "map" /\ v.map = <<>> -> <<"}">>
      [] OTHER -> LET inside == Contained(v)
                      common == Common(inside)
                      Name(i) == IF Kind(v) = "map" THEN WriteId(<<v.map[i][1]>>) ELSE <<>>
                  IN  WriteTypeCount(common, Len(inside)) \o Concat([i \in DOMAIN inside |-> Name(i) \o WriteTuple(inside[i], common)])

\* WriteUBJSONType: what is not listed there is taken for an object.
ElementMarker(type) == CASE type.k = "number" /\ type.as \in Integers_ -> type.as
                         [] type.k = "bool" -> NONE
                         [] type.k = "string" -> "S"
                         [] type.k = "list" -> "["
                         [] OTHER -> "{"
RECURSIVE WriteUBJSON(_, _, _, _)
WriteUBJSON(type, v, id, ty) ==
  LET Marked(m) == IF ty = NONE THEN <<m>> ELSE <<>>
      items == Items(type, v)
      Each(inner) == Concat([i \in DOMAIN items |-> WriteUBJSON(items[i].type, items[i].v, items[i].id, inner)])
  IN  WriteId(id) \o
        CASE type.k = "number" -> WriteNumber(v, type.as, ty)
          [] type.k = "bool" -> Marked(IF v THEN "T" ELSE "F")
          [] type.k = "string" -> Marked("S") \o WriteChars(v)
          [] type.k \in {"list", "fixed"} ->
               Marked("[") \o (IF v = <<>> THEN <<"]">>
                               ELSE WriteTypeCount(ElementMarker(type.of), Len(v)) \o Each(ElementMarker(type.of)))
          [] type.k = "tuple" -> Marked("[") \o WriteTypeCount(NONE, Len(v)) \o Each(NONE)
          [] IsObject(type) -> Marked("{") \o Each(NONE) \o <<"}">>
          [] type.k = "any" -> WriteTuple(v, ty)

\* A marker, unless the type is known, after any number of no-ops.
ReadMarker(ty, s, at) == LET m == Past(s, at, {"N"}) IN IF ty # NONE THEN <<ty, at>> ELSE <<Peek(s, m), m + 1>>
Bytes(s, at, w) == Seqs!FoldLeft(LAMBDA n, b : 4 * n + Value(b), 0, SubSeq(s, at, at + w - 1))
ParseInteger(as, s, at) == <<Cast(Bytes(s, at, Width[as]), as), at + Width[as]>>
ParseLength(s, at) == Then(ReadMarker(NONE, s, at), LAMBDA m, from : ParseInteger(m, s, from))
ParseChars(s, at) == Then(ParseLength(s, at), LAMBDA n, from : <<SubSeq(s, from, from + n - 1), from + n>>)
\* The type of all elements, and their number, -1 when the end is marked instead.
ParseTypeCount(s, at) ==
  LET typed == Peek(s, at) = "$"
      n == IF typed THEN at + 2 ELSE at
      Counted(count, from) == [type |-> IF typed THEN s[at + 1] ELSE NONE, count |-> count, at |-> from]
  IN  IF Peek(s, n) = "#" THEN Then(ParseLength(s, n + 1), Counted) ELSE [type |-> NONE, count |-> -1, at |-> n]
Ended(head, n, end, s, at) == Peek(s, at) = EOF \/ n = head.count \/ (head.count < 0 /\ Peek(s, at) = end)
BehindEnd(head, end, s, at) == IF head.count < 0 /\ Peek(s, at) = end THEN at + 1 ELSE at

\* Elements of one byte are read at once, as they lie in memory: the lowest byte first.
InMemory(type, s, at, n) ==
  LET w == Width[type.of.as]
      Memory(i) == Seqs!Reverse(SubSeq(s, at + (i - 1) * w, at + i * w - 1))
  IN  [i \in 1..n |-> Cast(Bytes(Memory(i), 1, w), type.of.as)]
BulkRead(type, old, head, s) ==
  LET n == IF type.k = "list" THEN head.count ELSE Lesser(head.count, type.n)
      read == InMemory(type, s, head.at, n)
  IN  <<IF type.k = "list" THEN read ELSE [i \in 1..type.n |-> IF i <= n THEN read[i] ELSE old[i]], head.at + n * Width[type.of.as]>>
IsBulk(type, head) == head.count >= 0 /\ head.type \in {"U", "i"} /\ type.k \in {"list", "fixed"} /\ type.of.k = "number"

\* The conversions of the readers: any integer, a truth value or nothing.
Scalar(m, old, s, at) == CASE m = "Z" -> <<old, at>>
                           [] m \in {"T", "F"} -> <<IF m = "T" THEN 1 ELSE 0, at>>
                           [] m \in Integers_ -> ParseInteger(m, s, at)
RECURSIVE ParseUBJSON(_, _, _, _, _), UBJSONElements(_, _, _, _, _, _), UBJSONMembers(_, _, _, _, _, _)
UBJSONContainer(type, old, head, s) ==
  CASE IsBulk(type, head) -> BulkRead(type, old, head, s)
    [] IsArray(type) /\ ~IsBulk(type, head) -> UBJSONElements(type, old, 0, head, s, head.at)
    [] IsObject(type) -> UBJSONMembers(type, old, 0, head, s, head.at)
UBJSONTuple(m, s, at) ==
  CASE m = "Z" -> <<Null, at>>
    [] m \in {"T", "F"} -> <<[bool |-> m = "T"], at>>
    [] m \in Integers_ -> Then(ParseInteger(m, s, at), LAMBDA n, to : <<[int |-> n, as |-> m], to>>)
    [] m = "S" -> As("string", ParseChars(s, at))
    [] m = "[" -> As("list", UBJSONContainer(List(AnyValue), <<>>, ParseTypeCount(s, at), s))
    [] m = "{" -> As("map", UBJSONContainer(Map, <<>>, ParseTypeCount(s, at), s))
UBJSONValue(type, old, m, s, at) ==
  CASE type.k = "number" -> Then(Scalar(m, old, s, at), LAMBDA n, to : <<Cast(n, type.as), to>>)
    [] type.k = "bool" -> Then(Scalar(m, IF old THEN 1 ELSE 0, s, at), LAMBDA n, to : <<n # 0, to>>)
    [] type.k = "string" -> (CASE m = "Z" -> <<old, at>>
                               [] m = "S" -> ParseChars(s, at)
                               [] m \in Integers_ -> Then(ParseInteger(m, s, at), LAMBDA n, to : <<Decimal(n), to>>))
    [] type.k = "any" -> UBJSONTuple(m, s, at)
    [] OTHER -> UBJSONContainer(type, old, ParseTypeCount(s, at), s)
ParseUBJSON(type, old, ty, s, at) == Then(ReadMarker(ty, s, at), LAMBDA m, from : UBJSONValue(type, old, m, s, from))
UBJSONElements(type, acc, n, head, s, at) ==
  CASE Ended(head, n, "]", s, at) -> <<acc, BehindEnd(head, "]", s, at)>>
    [] ~Ended(head, n, "]", s, at) /\ HasElement(type, n) ->
         Then(ParseUBJSON(ElementType(type, n), Element(type, acc, n), head.type, s, at),
              LAMBDA v, to : UBJSONElements(type, Added(type, acc, n, v), n + 1, head, s, to))
    [] OTHER -> UBJSONElements(type, acc, n + 1, head, s, at)
UBJSONMembers(type, acc, n, head, s, at) ==
  LET Known(name, from) == Then(ParseUBJSON(FieldType(type, name), Field(type, acc, name), head.type, s, from),
                                LAMBDA v, to : UBJSONMembers(type, Inserted(type, acc, name, v), n + 1, head, s, to))
      Member(name, from) == IF HasField(type, name) THEN Known(name, from) ELSE UBJSONMembers(type, acc, n + 1, head, s, from)
  IN  IF Ended(head, n, "}", s, at) THEN <<acc, BehindEnd(head, "}", s, at)>> ELSE Then(ParseChars(s, at), Member)
-----------------------------------------------------------------------------
Texts == {<<>>, <<"a">>, <<"\"", "\\">>, <<"}", ",">>, <<"\n", "]", "/">>, <<"a", ":", "a", " ", "{">>}
Point == Struct(<<<<"x">>, <<"y">>>>, <<Number("I"), Bool>>)
Shape == Struct(<<<<"p">>, <<"l">>, <<"s">>>>, <<Point, List(Number("I")), String>>)
Note == Struct(<<<<"s">>, <<"l">>, <<"t">>>>, <<String, List(Number("I")), List(String)>>)
Spot == Struct(<<<<"q">>, <<"x">>>>, <<Point, Number("I")>>)
\* What other readers make of a Note: one knows a field more and has another order, the
\* other does not know the texts.
LaterNote == Struct(<<<<"t">>, <<"n">>, <<"s">>, <<"l">>>>, <<List(String), Number("l"), String, List(Number("I"))>>)
EarlierNote == Struct(<<<<"l">>, <<"s">>>>, <<List(Number("I")), String>>)
\* A number of one byte is a character to a text stream: those are for UBJSON alone.
OneByte == {"bytes", "raw"}
Schema == [numbers |-> List(Number("I")), longs |-> Tuple(<<Number("l"), Number("L")>>), bytes |-> Fixed(2, Number("i")), raw |-> List(Number("U")),
           bools |-> List(Bool), texts |-> List(String), nested |-> List(List(Number("I"))), pairs |-> Fixed(2, List(Bool)),
           tuple |-> Tuple(<<Number("l"), Bool, String>>), points |-> List(Point), shape |-> Shape]
Product(sets) == Seqs!FoldLeft(LAMBDA all, set : {Append(p, x) : p \in all, x \in set}, {<<>>}, sets)
RECURSIVE Values(_)
Values(type) ==
  CASE type.k = "number" -> {Min_(type.as), 0, Max_(type.as)}
    [] type.k = "bool" -> BOOLEAN
    [] type.k = "string" -> Texts
    [] type.k = "list" -> UNION {[1..n -> Values(type.of)] : n \in 0..2}
    [] type.k = "fixed" -> [1..type.n -> Values(type.of)]
    [] type.k \in {"tuple", "struct"} -> Product([i \in DOMAIN type.types |-> Values(type.types[i])])
\* Values of any kind, two levels of lists and maps over a few leaves.
Lists(values) == {[list |-> l] : l \in UNION {[1..n -> values] : n \in 0..2}}
Maps(values) == {[map |-> <<>>]} \cup {[map |-> <<<<<<"a">>, v>>>>] : v \in values} \cup {[map |-> <<<<<<"a">>, v>>, <<<<>>, w>>>>] : v \in values, w \in values}
Deep(leaves) == LET nested == leaves \cup Lists(leaves) \cup Maps(leaves)
                IN  nested \cup {[list |-> <<v, [map |-> <<<<<<"b">>, v>>>>]>>] : v \in nested}
JSONLeaves == {[string |-> <<"}", "\"">>], [int |-> -12], [double |-> 15], [double |-> -5], [bool |-> TRUE]}
UBJSONLeaves == {[string |-> <<"a", "]">>], [int |-> -1, as |-> "i"], [int |-> 9, as |-> "l"], [bool |-> TRUE], [bool |-> FALSE], Null}
Ints(as) == {Min_(as), -129, -128, -9, -8, -2, 0, 1, 3, 4, 7, 8, 127, 128, 300, Max_(as)} \cap Min_(as)..Max_(as)

Inputs ==
  UNION {{<<"typed", name, v, level>> : v \in Values(Schema[name]), level \in 0..1} : name \in DOMAIN Schema}
  \cup {<<"note", v, level>> : v \in {<<x, y, z>> : x \in Texts, y \in {<<>>, <<3, 0>>}, z \in [1..2 -> Texts]}, level \in 0..1}
  \cup {<<"tables", v>> : v \in Values(List(Spot))} \cup {<<"quoted", t>> : t \in Texts}
  \cup {<<"json", v, level>> : v \in Deep(JSONLeaves), level \in 0..1}
  \cup {<<"ubjson", v>> : v \in Deep(UBJSONLeaves)}
  \cup UNION {{<<"number", as, n>> : n \in Ints(as)} : as \in DOMAIN Width}

WrittenJSON(type, v, level) == WriteJSON(type, v, <<>>, Pretty(level))
WrittenUBJSON(type, v) == WriteUBJSON(type, v, <<>>, NONE)
\* What `s' read as the type, over an old value, must give, and how far it is read; 0 is
\* anywhere.
JSONCase(type, old, s, v, end) == [by |-> "JSON", type |-> type, old |-> old, s |-> s, v |-> v, end |-> end]
UBJSONCase(type, old, s, v, end) == [JSONCase(type, old, s, v, end) EXCEPT !.by = "UBJSON"]
TOMLCase(type, old, s, v) == [JSONCase(type, old, s, v, 0) EXCEPT !.by = "TOML"]
Reads(c) == Then(CASE c.by = "JSON" -> ParseJSON(c.type, c.old, c.s, 1)
                   [] c.by = "TOML" -> ParseTOML(c.type, c.old, "BEGIN", c.s, 1)
                   [] c.by = "UBJSON" -> ParseUBJSON(c.type, c.old, NONE, c.s, 1),
                 LAMBDA v, to : v = c.v /\ c.end \in {0, to})

\* A text that ParseJSONBase<JSONValue> does not take for what it was: before the brace of
\* an indented object, a truth value is a word with the space behind it.
RECURSIVE EndsInBool(_)
EndsInBool(v) ==
  Kind(v) \in {"list", "map"} /\ LET inside == Contained(v)
                                 IN  \/ Kind(v) = "map" /\ inside # <<>> /\ Kind(inside[Len(inside)]) = "bool"
                                     \/ \E i \in DOMAIN inside : EndsInBool(inside[i])
\* A stream of which the last elements have no bytes: the reader is at its end before them.
RECURSIVE EndsBare(_)
EndsBare(v) ==
  Kind(v) \in {"list", "map"} /\ LET inside == Contained(v)
                                 IN  inside # <<>> /\ (Common(inside) \in {"T", "F", "Z"} \/ EndsBare(inside[Len(inside)]))

\* The value of any kind that a typed one is; a number of UBJSON has its marker.
RECURSIVE Loosely(_, _, _)
Loosely(type, v, marker) ==
  LET items == Items(type, v)
      Inner == [i \in DOMAIN v |-> Loosely(items[i].type, v[i], IF marker = {} THEN {} ELSE IF type.k \in {"list", "fixed"} THEN {ElementMarker(type.of)} ELSE {NONE})]
  IN  CASE type.k = "number" -> IF marker = {} THEN [int |-> v] ELSE [int |-> v, as |-> IF marker = {NONE} THEN GetIntType(v, type.as) ELSE type.as]
        [] type.k = "bool" -> [bool |-> v]
        [] type.k = "string" -> [string |-> v]
        [] IsArray(type) -> [list |-> Inner]
        [] type.k = "struct" -> [map |-> [i \in DOMAIN v |-> <<type.names[i], Inner[i]>>]]

\* What is written is read back, all of it and nothing behind it.  A reader of any value
\* understands it, and what that one writes is understood by the reader of the type.
JSONCases(type, v, level, text, loose) ==
  <<JSONCase(type, Default(type), text, v, Len(text) + 1)>> \o
    (IF level > 0 /\ EndsInBool(loose) THEN <<>>
     ELSE <<JSONCase(AnyValue, Null, text, loose, 0),
            JSONCase(type, Default(type), WrittenJSON(AnyValue, loose, level), v, 0)>>)
UBJSONCases(type, v, stream, loose) ==
  <<UBJSONCase(type, Default(type), stream, v, Len(stream) + 1), UBJSONCase(AnyValue, Null, stream, loose, 0)>> \o
    (IF EndsBare(loose) THEN <<>> ELSE <<UBJSONCase(type, Default(type), WrittenUBJSON(AnyValue, loose), v, 0)>>)

\* The order of the fields is the writer's, and a field the text does not have keeps its
\* value; JSON passes over one the reader does not know, if its texts are plain.
Later(v) == <<v[3], 5, v[1], v[2]>>
Before == Later(<<<<"o">>, <<>>, <<>>>>)
Plain(t) == \A i \in DOMAIN t : t[i] \notin ValueEnds \cup {"\""}
NoteCases(v, text, lines) ==
  <<TOMLCase(LaterNote, Before, lines, Later(v)), TOMLCase(EarlierNote, <<<<>>, <<"o">>>>, lines, <<v[2], v[1]>>),
    JSONCase(LaterNote, Before, text, Later(v), 0), UBJSONCase(LaterNote, Before, WrittenUBJSON(Note, v), Later(v), 0)>> \o
    (IF \A i \in 1..2 : Plain(v[3][i]) THEN <<JSONCase(EarlierNote, <<<<>>, <<"o">>>>, text, <<v[2], v[1]>>, 0)>> ELSE <<>>)

\* Every type that can hold a number, and a text, reads it, after no-ops as well; JSON
\* reads it between quotes.
Holds(as, n) == Min_(as) <= n /\ n <= Max_(as)
NumberCases(n, packed) ==
  LET holding == SelectSeq(<<"U", "i", "I", "l", "L", "uI", "ul", "uL">>, LAMBDA t : Holds(t, n))
  IN  <<UBJSONCase(Bool, FALSE, packed, n # 0, 0), UBJSONCase(String, <<>>, packed, Decimal(n), 0),
        JSONCase(Number("L"), 0, <<"\"">> \o Decimal(n) \o <<" ", "\"">>, n, 0),
        JSONCase(String, <<>>, <<"\"", "\\", "u", "0", "0", "2", "0">> \o Decimal(n) \o <<"\"">>, <<" ">> \o Decimal(n), 0)>>
      \o [i \in DOMAIN holding |-> UBJSONCase(Number(holding[i]), 0, <<"N", "N">> \o packed, n, 0)]
\* The type picked for a number holds it, and is the smallest that does if the number is
\* signed.  None holds the upper half of the unsigned numbers of 8 bytes.
TooLarge(as, n) == as = "uL" /\ ~Holds("L", n)
MarkerRight(as, n, m) ==
  IF m = "H" THEN TooLarge(as, n)
  ELSE Holds(m, n) /\ (as \in Unsigned \/ \A t \in Integers_ : Holds(t, n) => Width[m] <= Width[t])

\* A document of TOML is a table.  Comments and empty lines do not matter, nor do lines and
\* tables the reader does not know.
Flag == Struct(<<<<"w">>>>, <<Bool>>)
Document(type) == Struct(<<<<"v">>, <<"w">>>>, <<type, Bool>>)
\* In front of the end of a line, and between the elements of an array.
Commented(text) ==
  LET Put(i) == \/ text[i] = "\n"
                \/ text[i] = " " /\ i > 1 /\ text[i - 1] = "," /\ \A j \in DOMAIN text : text[j] # "{"
  IN  Concat([i \in DOMAIN text |-> IF Put(i) THEN <<" ", "#", "]", "\"", "\n", "\n">> ELSE <<text[i]>>])
TOMLCases(document, v, text) ==
  <<TOMLCase(document, Default(document), text, v), TOMLCase(document, Default(document), Commented(text), v), TOMLCase(Flag, <<FALSE>>, text, <<v[2]>>)>>
\* A list that follows the end of another one inside a list is lost with all behind it.
ListsInList(type, v) == type.k \in {"list", "fixed"} /\ IsArray(type.of) /\ Len(v) > 1
\* A list as an array of tables, each with a table inside, behind a table no reader knows.
Header(items) == <<"[", "[", "v", "]", "]", "\n">> \o WriteTOMLPairs(<<items[2]>>, <<>>) \o WriteTOMLTables(<<items[1]>>, <<"v", ".">>)
Headers(spots) ==
  WriteTOML(Struct(<<<<"u">>, <<"w">>>>, <<Point, Bool>>), <<<<1, FALSE>>, TRUE>>)
    \o Concat([i \in DOMAIN spots |-> Header(Items(Spot, spots[i]))])
\* The other quotes: literal, and over several lines with the ends of lines as they are,
\* after an end of the line that does not count.
Quoted(text, opening, written, closing) ==
  TOMLCase(Document(String), <<<<>>, FALSE>>, WriteTOMLId(<<<<"v">>>>) \o opening \o written \o closing \o <<"\n">> \o WriteTOML(Flag, <<TRUE>>), <<text, TRUE>>)
QuotedCases(text, escaped) ==
  LET literal == <<"'", "'", "'">>
      basic == <<"\"", "\"", "\"">>
  IN  <<Quoted(text, literal \o <<"\n">>, text, literal), Quoted(text, basic \o <<"\n">>, escaped, basic), Quoted(text, basic \o <<"\\", "\n", " ", "\t">>, escaped, basic)>>
        \o (IF \E i \in DOMAIN text : text[i] = "\n" THEN <<>> ELSE <<Quoted(text, <<"'">>, text, <<"'">>)>>)
\* A value of any kind: the stream may go on behind it.
AnyCases(v, stream) ==
  <<UBJSONCase(AnyValue, Null, stream \o <<"]">>, v, Len(stream) + 1)>>
    \o IF EndsBare(v) THEN <<>> ELSE <<UBJSONCase(AnyValue, Null, stream, v, 0)>>

TypedCases(name, type, v, level) ==
  (IF name \in OneByte THEN <<>> ELSE JSONCases(type, v, level, WrittenJSON(type, v, level), Loosely(type, v, {})))
    \o (IF level = 0 THEN UBJSONCases(type, v, WrittenUBJSON(type, v), Loosely(type, v, {NONE})) ELSE <<>>)
    \o (IF level > 0 \/ ListsInList(type, v) THEN <<>> ELSE TOMLCases(Document(type), <<v, TRUE>>, WriteTOML(Document(type), <<v, TRUE>>)))
Cases(q) ==
  CASE q[1] = "typed" -> TypedCases(q[2], Schema[q[2]], q[3], q[4])
    [] q[1] = "note" -> NoteCases(q[2], WrittenJSON(Note, q[2], q[3]), WriteTOML(Note, q[2]))
    [] q[1] = "number" -> IF TooLarge(q[2], q[3]) THEN <<>> ELSE NumberCases(q[3], WrittenUBJSON(Number(q[2]), q[3]))
    [] q[1] = "json" -> IF q[3] > 0 /\ EndsInBool(q[2]) THEN <<>> ELSE <<JSONCase(AnyValue, Null, WrittenJSON(AnyValue, q[2], q[3]), q[2], 0)>>
    [] q[1] = "tables" -> <<TOMLCase(Document(List(Spot)), <<<<>>, FALSE>>, Headers(q[2]), <<q[2], TRUE>>)>>
    [] q[1] = "quoted" -> QuotedCases(q[2], Concat([i \in DOMAIN q[2] |-> IF q[2][i] = "\n" THEN <<"\n">> ELSE TOMLEscaped(q[2][i])]))
    [] q[1] = "ubjson" -> AnyCases(q[2], WrittenUBJSON(AnyValue, q[2]))
AllRead(cases) == \A i \in DOMAIN cases : Reads(cases[i])

\* A list whose text is cut short is read up to there: only the last element may differ.
StartsLike(r, v) == Len(r) <= Len(v) /\ \A i \in 1..Len(r) - 1 : r[i] = v[i]
CutShort(type, v, text) == type.k = "list" => \A n \in 0..Len(text) : StartsLike(ParseJSON(type, <<>>, SubSeq(text, 1, n), 1)[1], v)

Right(q) ==
  /\ AllRead(Cases(q))
  /\ q[1] = "number" => MarkerRight(q[2], q[3], GetIntType(q[3], q[2]))
  /\ q[1] = "typed" /\ q[2] \notin OneByte => CutShort(Schema[q[2]], q[3], WrittenJSON(Schema[q[2]], q[3], q[4]))
=============================================================================
