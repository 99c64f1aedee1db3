-------------------------------- MODULE MCRows --------------------------------
(***************************************************************************)
(* Rows for TLC: one collection "c" under three schemas (plain fields,     *)
(* lists, an embedded object), two layouts for it and a collection schema  *)
(* whose id clashes.                                                       *)
(***************************************************************************)
EXTENDS Rows

F(name, type) ==
  [name |-> <<name>>, type |-> type, nullable |-> TRUE, of |-> "", sub |-> <<>>,
   strategy |-> "", names |-> <<>>, values |-> <<>>]
Needed(f) == [f EXCEPT !.nullable = FALSE]

Plain == <<Needed(F("a", "byte")), F("i", "int"), F("s", "string"), F("d", "double"), F("b", "bool"),
           F("t", "datetime"), F("f", "float"), F("h", "short"),
           [F("e", "enum") EXCEPT !.strategy = "value", !.values = <<5, 7>>],
           [F("m", "enum") EXCEPT !.strategy = "name", !.names = << <<"a">>, <<"b">> >>]>>
Inner == <<F("y", "int"), Needed(F("z", "string"))>>
Lists == <<F("x", "int"), [F("l", "list") EXCEPT !.of = "int"], Needed([F("s", "list") EXCEPT !.of = "string"]),
           [F("o", "list") EXCEPT !.of = "embedded", !.sub = Inner]>>
Nested == <<Needed(F("x", "int")), [F("o", "embedded") EXCEPT !.sub = Inner]>>

McSchemaOf == [plain |-> Plain, lists |-> Lists, nested |-> Nested]
McNameOf == [s \in {"plain", "lists", "nested"} |-> "c"]

Fixed(n) == [size |-> n, variable |-> FALSE, nullable |-> TRUE]
Variable == [size |-> 0, variable |-> TRUE, nullable |-> TRUE]
Must(f) == [f EXCEPT !.nullable = FALSE]
McFieldsOf ==
  [plainRow |-> <<Must(Fixed(1)), Fixed(8), Variable, Fixed(8), Fixed(1), Fixed(8), Fixed(4), Fixed(4),
                  Fixed(8), Fixed(8)>>,
   listRow |-> <<Fixed(8), Variable, Must(Variable), Variable>>,
   otherRow |-> <<Variable>>]
McSchemaId == [plainRow |-> 1, listRow |-> 2, otherRow |-> 2]
McSchemaName == [plainRow |-> "c", listRow |-> "c", otherRow |-> "d"]

-----------------------------------------------------------------------------
\* Texts.
Tok(word) == << <<word>> >>
Numeral(n) == << <<"number", n, n % Unit = 0>> >>
Str(s) == Tok("\"") \o [k \in DOMAIN s |-> <<s[k]>>] \o Tok("\"")
RECURSIVE Listed(_)
Listed(ts) ==
  IF ts = <<>> THEN <<>> ELSE IF Len(ts) = 1 THEN ts[1] ELSE ts[1] \o Tok(",") \o Listed(Tail(ts))
Arr(ts) == Tok("[") \o Listed(ts) \o Tok("]")
Obj(ts) == Tok("{") \o Listed(ts) \o Tok("}")
M(name, t) == Str(<<name>>) \o Tok(":") \o Tok(" ") \o t
Null == Tok("null")

PlainTexts == {
  Obj(<<M("a", Numeral(12)), M("i", Numeral(8)), M("s", Str(<<"x", "7">>)), M("d", Numeral(5)),
        M("b", Tok("true")), M("t", Numeral(9)), M("f", Numeral(7)), M("h", Numeral(-8)),
        M("e", Numeral(20)), M("m", Null)>>),
  Obj(<<M("a", Numeral(0)), M("q", Numeral(4)), M("s", Str(<<>>)), M("t", Str(<<"7">>)), M("d", Numeral(8))>>),
  Obj(<<M("a", Numeral(12)), M("i", Numeral(40)), M("b", Tok("false")), M("e", Null), M("h", Numeral(0)),
        M("s", Str(<<"\\", "n", "\\", "\"", "x">>)), M("d", Null), M("t", Str(<<"7">>)), M("f", Null),
        M("m", Null)>>),
  Obj(<<M("i", Numeral(-4)), M("a", Numeral(4)), M("i", Numeral(8))>>),
  Obj(<<M("a", Numeral(4)), M("t", Str(<<"x">>))>>),
  Obj(<<M("a", Numeral(4)), M("m", Str(<<"a">>))>>),
  Obj(<<M("a", Numeral(16))>>),
  Obj(<<M("a", Numeral(4))>>) \o Tok("}"),
  Obj(<<M("i", Numeral(4))>>)}

Z(s) == M("z", Str(s))
ListTexts == {
  Obj(<<M("x", Numeral(4)), M("l", Arr(<<Numeral(8), Numeral(-4)>>)),
        M("s", Arr(<<Str(<<"x">>), Str(<<"7", "x">>)>>)), M("o", Arr(<<>>))>>),
  Obj(<<M("l", Arr(<<Null, Numeral(8)>>)), M("s", Arr(<<>>))>>),
  Obj(<<M("s", Arr(<<Str(<<>>)>>)), M("o", Arr(<<Obj(<<M("y", Numeral(8)), Z(<<"x">>)>>)>>))>>)}
NestedTexts == {
  Obj(<<M("x", Numeral(8)), M("o", Obj(<<M("y", Numeral(8)), Z(<<"x">>)>>))>>),
  Obj(<<M("x", Numeral(4)), M("o", Obj(<<Z(<<"7">>)>>))>>),
  Obj(<<M("x", Numeral(-4)), M("o", Null)>>)}

McOffered ==
  <<[plain |-> PlainTexts, lists |-> ListTexts, nested |-> NestedTexts],
    [plain |-> {Obj(<<M("a", Numeral(8)), M("i", Numeral(4))>>)},
     lists |-> {Obj(<<M("x", Numeral(8)), M("s", Arr(<<Str(<<"x">>)>>))>>)},
     nested |-> {Obj(<<M("x", Numeral(4)), M("o", Obj(<<M("y", Numeral(4)), Z(<<>>)>>))>>)}]>>

McPaths ==
  [plain |-> {<<f.name>> : f \in {Plain[i] : i \in DOMAIN Plain}},
   lists |-> {<<f.name>> : f \in {Lists[i] : i \in DOMAIN Lists}},
   nested |-> {<< <<"x">> >>, << <<"o">> >>, << <<"o">>, <<"y">> >>, << <<"o">>, <<"z">> >>}]

Op(op, n) == JObject(<<JMember(<<op>>, JNumber(n, n % Unit = 0))>>)
McQueries ==
  {JNumber(8, TRUE), JNumber(7, FALSE), JNumber(0, TRUE), JString(<<"x">>), JString(<<"7">>), JString(<<>>),
   JBool(FALSE), JNull, Op("gt", 0), Op("lte", 8), Op("lt", 6), Op("gte", 20),
   JObject(<<JMember(<<"y">>, JNumber(8, TRUE)), JMember(<<"z">>, JString(<<"x">>))>>),
   JObject(<<JMember(<<"z">>, JString(<<"7">>))>>)}

McNumberOf == [t \in {<<"7">>} |-> 28]
=============================================================================
