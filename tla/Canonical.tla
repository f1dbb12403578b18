------------------------------ MODULE Canonical ------------------------------
(***************************************************************************)
(* Canonical bytes: crates/ir/src canonical.rs and reader.rs.  What every  *)
(* digest is taken over, and the reader that takes a document back.        *)
(*                                                                         *)
(* A text is a sequence of characters of CharRank.  A document is a        *)
(* sequence of tokens [t] with, for a text, its characters as spelled      *)
(* [char, as] and, for a number, its value.  A canonical value is tagged   *)
(* by `v`; a value a program serialises is tagged by `s`.                  *)
(***************************************************************************)
EXTENDS Integers, Sequences, SequencesExt, FiniteSets, FiniteSetsExt

CONSTANTS
    MaxInteger,             \* the largest i128
    MaxNesting              \* MAX_DEPTH of the reader

\* Characters by scalar value; "combining" turns the letter before it into a
\* text that is not in normal form C.
CharRank == [newline |-> 10, bell |-> 7, quote |-> 34, slash |-> 47, A |-> 65,
             backslash |-> 92, a |-> 97, combining |-> 769]

IsNfc(text) == \A i \in DOMAIN text : text[i] = "combining" => i = 1

TextLess(a, b) ==
    \E n \in 0..Len(a) :
        /\ n < Len(b)
        /\ \A i \in 1..n : a[i] = b[i]
        /\ n < Len(a) => CharRank[a[n + 1]] < CharRank[b[n + 1]]

-----------------------------------------------------------------------------
(***************************************************************************)
(* The canonical model and its encoding.                                   *)
(***************************************************************************)
Null      == [v |-> "null"]
Bool(b)   == [v |-> "bool", bool |-> b]
Num(i)    == [v |-> "int", int |-> i]
Txt(text) == [v |-> "text", text |-> text]
Lst(seq)  == [v |-> "list", list |-> seq]
Map(fn)   == [v |-> "map", map |-> fn]

Read(value, rest) == [error |-> "", value |-> value, rest |-> rest]
Bad(error)        == [error |-> error, value |-> Null, rest |-> <<>>]

Punct(t) == <<[t |-> t]>>

\* write_text: a short escape where there is one, \u for any other control
\* character, the character itself otherwise.
Spelling(char) ==
    CASE char \in {"quote", "backslash", "newline"} -> "short"
      [] char = "bell" -> "code"
      [] OTHER -> "plain"

WriteText(text) ==
    <<[t |-> "text", text |-> [i \in DOMAIN text |-> [char |-> text[i], as |-> Spelling(text[i])]]]>>

RECURSIVE Write(_)
Write(value) ==
    LET Joined(parts) == FoldLeft(LAMBDA acc, p : IF acc = <<>> THEN p ELSE acc \o Punct(",") \o p, <<>>, parts)
        keys == SetToSortSeq(DOMAIN value.map, TextLess)
    IN CASE value.v = "null" -> Punct("null")
         [] value.v = "bool" -> Punct(IF value.bool THEN "true" ELSE "false")
         [] value.v = "int"  -> <<[t |-> "int", int |-> value.int]>>
         [] value.v = "text" -> WriteText(value.text)
         [] value.v = "list" ->
                Punct("[") \o Joined([i \in DOMAIN value.list |-> Write(value.list[i])]) \o Punct("]")
         [] value.v = "map"  ->
                Punct("{") \o Joined([i \in DOMAIN keys |->
                                         WriteText(keys[i]) \o Punct(":") \o Write(value.map[keys[i]])])
                           \o Punct("}")

-----------------------------------------------------------------------------
(***************************************************************************)
(* Serialising a program's value: the serde data model into the canonical  *)
(* one, or the first reason it has none.                                   *)
(***************************************************************************)
CheckedText(text) == IF IsNfc(text) THEN Read(Txt(text), <<>>) ELSE Bad("not_normalized")

\* KeySerializer: text, a character, a unit variant or a wrapped key.
RECURSIVE KeyText(_)
KeyText(key) ==
    CASE key.s \in {"str", "char", "unit_variant"} -> CheckedText(key.text)
      [] key.s = "newtype" -> KeyText(key.inner)
      [] OTHER -> Bad("non_text_key")

Tagged(variant, inner) == IF inner.error # "" THEN inner ELSE Read(Map(variant :> inner.value), <<>>)

RECURSIVE Serialize(_)

SerializeItems(items) ==
    FoldLeft(LAMBDA acc, i : IF acc.error # "" THEN acc
                             ELSE LET item == Serialize(i)
                                  IN IF item.error # "" THEN item
                                     ELSE Read(Lst(Append(acc.value.list, item.value)), <<>>),
             Read(Lst(<<>>), <<>>), items)

\* MapSerializer::insert: a key twice is an error.
InsertEntry(acc, key, value) ==
    IF acc.error # "" THEN acc
    ELSE IF key.error # "" THEN key
    ELSE IF value.error # "" THEN value
    ELSE IF key.value.text \in DOMAIN acc.value.map THEN Bad("duplicate_key")
    ELSE Read(Map(acc.value.map @@ (key.value.text :> value.value)), <<>>)

SerializeEntries(entries) ==
    FoldLeft(LAMBDA acc, e : InsertEntry(acc, KeyText(e.key), Serialize(e.value)), Read(Map(<<>>), <<>>), entries)

Serialize(x) ==
    CASE x.s = "bool" -> Read(Bool(x.bool), <<>>)
      [] x.s = "int" -> IF x.int > MaxInteger THEN Bad("integer_range") ELSE Read(Num(x.int), <<>>)
      [] x.s = "float" -> Bad("float")
      [] x.s = "bytes" -> Bad("raw_bytes")
      [] x.s \in {"str", "char", "unit_variant"} -> CheckedText(x.text)
      [] x.s \in {"none", "unit"} -> Read(Null, <<>>)
      [] x.s \in {"some", "newtype"} -> Serialize(x.inner)
      [] x.s = "newtype_variant" -> Tagged(x.variant, Serialize(x.inner))
      [] x.s = "seq" -> SerializeItems(x.items)
      [] x.s = "tuple_variant" -> Tagged(x.variant, SerializeItems(x.items))
      [] x.s \in {"map", "struct"} -> SerializeEntries(x.entries)
      [] x.s = "struct_variant" -> Tagged(x.variant, SerializeEntries(x.entries))

ToCanonicalBytes(x) ==
    LET out == Serialize(x) IN IF out.error # "" THEN <<>> ELSE Write(out.value)

-----------------------------------------------------------------------------
(***************************************************************************)
(* Reading.  Presentation is free (blanks, key order, how a character is   *)
(* spelled), meaning is not.                                               *)
(***************************************************************************)
Peek(tokens) == IF tokens = <<>> THEN "end" ELSE tokens[1].t

SkipWhitespace(tokens) ==
    LET blanks == {n \in 0..Len(tokens) : \A i \in 1..n : tokens[i].t = "blank"}
    IN SubSeq(tokens, Max(blanks) + 1, Len(tokens))

\* A control character, a quote or a backslash cannot stand for itself; the
\* short escapes are those of the writer and the slash.
ReadChar(spelled) ==
    CASE spelled.as = "code" -> TRUE
      [] spelled.as = "short" -> spelled.char \in {"quote", "backslash", "newline", "slash"}
      [] spelled.as = "plain" -> CharRank[spelled.char] >= 32 /\ spelled.char \notin {"quote", "backslash"}

ReadString(tokens) ==
    LET spelled == tokens[1].text
        text    == [i \in DOMAIN spelled |-> spelled[i].char]
    IN IF Peek(tokens) # "text" THEN Bad("syntax")
       ELSE IF \E i \in DOMAIN spelled : ~ReadChar(spelled[i]) THEN Bad("syntax")
       ELSE IF ~IsNfc(text) THEN Bad("not_normalized")
       ELSE Read(Txt(text), Tail(tokens))

ReadNumber(tokens) ==
    IF tokens[1].t = "float" THEN Bad("float")
    ELSE IF tokens[1].int > MaxInteger THEN Bad("integer_range")
    ELSE Read(Num(tokens[1].int), Tail(tokens))

\* (mutant) A key that is there already is read over.
RefusesNothing(entries, key) == FALSE

RefusesKey(entries, key) == key \in DOMAIN entries

RECURSIVE ReadValue(_, _), ReadItems(_, _, _), ReadEntries(_, _, _)

ReadItems(tokens, depth, values) ==
    LET item == ReadValue(SkipWhitespace(tokens), depth)
        next == SkipWhitespace(item.rest)
        all  == Append(values, item.value)
    IN IF item.error # "" THEN item
       ELSE IF Peek(next) = "," THEN ReadItems(Tail(next), depth, all)
       ELSE IF Peek(next) = "]" THEN Read(Lst(all), Tail(next)) ELSE Bad("syntax")

ReadList(tokens, depth) ==
    LET inside == SkipWhitespace(Tail(tokens))
    IN IF Peek(inside) = "]" THEN Read(Lst(<<>>), Tail(inside)) ELSE ReadItems(inside, depth + 1, <<>>)

ReadEntries(tokens, depth, entries) ==
    LET key   == ReadString(SkipWhitespace(tokens))
        colon == SkipWhitespace(key.rest)
        value == ReadValue(SkipWhitespace(Tail(colon)), depth)
        next  == SkipWhitespace(value.rest)
        all   == (key.value.text :> value.value) @@ entries
    IN IF key.error # "" THEN key
       ELSE IF RefusesKey(entries, key.value.text) THEN Bad("duplicate_key")
       ELSE IF Peek(colon) # ":" THEN Bad("syntax")
       ELSE IF value.error # "" THEN value
       ELSE IF Peek(next) = "," THEN ReadEntries(Tail(next), depth, all)
       ELSE IF Peek(next) = "}" THEN Read(Map(all), Tail(next)) ELSE Bad("syntax")

ReadMap(tokens, depth) ==
    LET inside == SkipWhitespace(Tail(tokens))
    IN IF Peek(inside) = "}" THEN Read(Map(<<>>), Tail(inside)) ELSE ReadEntries(inside, depth + 1, <<>>)

ReadValue(tokens, depth) ==
    IF depth >= MaxNesting THEN Bad("syntax")
    ELSE CASE Peek(tokens) = "null"  -> Read(Null, Tail(tokens))
           [] Peek(tokens) = "true"  -> Read(Bool(TRUE), Tail(tokens))
           [] Peek(tokens) = "false" -> Read(Bool(FALSE), Tail(tokens))
           [] Peek(tokens) = "text"  -> ReadString(tokens)
           [] Peek(tokens) = "["     -> ReadList(tokens, depth)
           [] Peek(tokens) = "{"     -> ReadMap(tokens, depth)
           [] Peek(tokens) \in {"int", "float"} -> ReadNumber(tokens)
           [] OTHER -> Bad("syntax")

FromJsonSlice(tokens) ==
    LET out == ReadValue(SkipWhitespace(tokens), 0)
    IN IF out.error = "" /\ SkipWhitespace(out.rest) # <<>> THEN Bad("syntax") ELSE out

VerifyCanonical(tokens) ==
    LET out == FromJsonSlice(tokens)
    IN IF out.error = "" /\ Write(out.value) # tokens THEN Bad("not_canonical") ELSE out

=============================================================================
