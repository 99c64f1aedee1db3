------------------------------- MODULE JsonText -------------------------------
(***************************************************************************)
(* JSON texts: the parser of src/src/native/apxdb_json.c and the escapes   *)
(* of the writer in apxdb_collection.c.                                    *)
(*                                                                         *)
(* A text is a sequence of tokens.  A token is <<ch>> for one character    *)
(* (punctuation, a quote, a space, a letter of a string), <<"true">>,      *)
(* <<"false">> or <<"null">> for a keyword, and <<"number", n, int>> for a *)
(* numeral of value n / Unit, int when it has no fraction and no exponent. *)
(* Of the characters below 32 "LF" stands for those with a letter escape   *)
(* and "^" for the others.                                                 *)
(***************************************************************************)
EXTENDS JsonValue

-----------------------------------------------------------------------------
(***************************************************************************)
(* Parsing.  A parser reads text from position i and returns whether it    *)
(* succeeded, what it read, and the position after it.                     *)
(***************************************************************************)
Failed == [ok |-> FALSE, value |-> JNull, next |-> 0]
Read(v, i) == [ok |-> TRUE, value |-> v, next |-> i]

At(text, i) == IF i \in DOMAIN text THEN text[i] ELSE <<"end">>

\* skip_whitespace
Skip(text, i) ==
  CHOOSE k \in i..(Len(text) + 1) :
    At(text, k) # <<" ">> /\ \A j \in i..(k - 1) : text[j] = <<" ">>

\* What stands for a character after a backslash, as parse_string reads it and
\* append_json_string writes it.
Unescaped == [c \in {"\"", "\\", "/", "n"} |-> IF c = "n" THEN "LF" ELSE c]
Escape(c) ==
  CASE c \in {"\"", "\\"} -> << <<"\\">>, <<c>> >>
    [] c = "LF" -> << <<"\\">>, <<"n">> >>
    [] c = "^" -> << <<"\\">>, <<"u">>, <<"^">> >>
    [] OTHER -> << <<c>> >>

\* parse_string, from the character after the opening quote on.
RECURSIVE ParseChars(_, _, _)
ParseChars(text, i, s) ==
  CASE At(text, i) = <<"end">> -> Failed
    [] At(text, i) = <<"\"">> -> Read(JString(s), i + 1)
    [] At(text, i) = <<"\\">> ->
         IF At(text, i + 1)[1] \in DOMAIN Unescaped
         THEN ParseChars(text, i + 2, Append(s, Unescaped[text[i + 1][1]])) ELSE Failed
    [] OTHER -> ParseChars(text, i + 1, Append(s, text[i][1]))

ParseString(text, i) ==
  IF At(text, i) = <<"\"">> THEN ParseChars(text, i + 1, <<>>) ELSE Failed

\* parse_value, parse_array and parse_object.  The elements and members so far
\* are vs and ms.
RECURSIVE ParseValue(_, _), ParseElements(_, _, _), ParseMembers(_, _, _)
ParseValue(text, from) ==
  LET i == Skip(text, from)
      t == At(text, i)
      k == Skip(text, i + 1)
  IN CASE t = <<"end">> -> Failed
       [] t = <<"\"">> -> ParseString(text, i)
       [] t = <<"{">> -> IF At(text, k) = <<"}">> THEN Read(JObject(<<>>), k + 1)
                         ELSE ParseMembers(text, k, <<>>)
       [] t = <<"[">> -> IF At(text, k) = <<"]">> THEN Read(JArray(<<>>), k + 1)
                         ELSE ParseElements(text, k, <<>>)
       [] t \in {<<"true">>, <<"false">>} -> Read(JBool(t = <<"true">>), i + 1)
       [] t = <<"null">> -> Read(JNull, i + 1)
       [] t[1] = "number" -> Read(JNumber(t[2], t[3]), i + 1)
       [] OTHER -> Failed

ParseElements(text, i, vs) ==
  LET e == ParseValue(text, i)
      k == Skip(text, e.next)
  IN IF ~e.ok THEN Failed
     ELSE CASE At(text, k) = <<"]">> -> Read(JArray(Append(vs, e.value)), k + 1)
            [] At(text, k) = <<",">> -> ParseElements(text, Skip(text, k + 1), Append(vs, e.value))
            [] OTHER -> Failed

ParseMembers(text, i, ms) ==
  LET name == ParseString(text, i)
      colon == Skip(text, name.next)
      v == ParseValue(text, Skip(text, colon + 1))
      k == Skip(text, v.next)
      all == Append(ms, JMember(name.value.text, v.value))
  IN IF ~name.ok \/ At(text, colon) # <<":">> \/ ~v.ok THEN Failed
     ELSE CASE At(text, k) = <<"}">> -> Read(JObject(all), k + 1)
            [] At(text, k) = <<",">> -> ParseMembers(text, Skip(text, k + 1), all)
            [] OTHER -> Failed

\* apxdb_json_parse: one value, and nothing after it but spaces.
Parse(text) ==
  LET v == ParseValue(text, 1)
  IN IF v.ok /\ Skip(text, v.next) = Len(text) + 1 THEN v ELSE Failed
=============================================================================
