---------------------------- MODULE MCExtractor ----------------------------
(***************************************************************************)
(* Instances of the extractor for TLC: small trees that have the cases of  *)
(* the translator in all combinations of a few names, values and flags.    *)
(***************************************************************************)
EXTENDS ExtractorProperties

N == "normData"

Symb(id, parent, name, value, type) ==
  [id |-> id, parent |-> parent, isItem |-> FALSE, original |-> name, name |-> name,
   value |-> value, type |-> type, newObject |-> FALSE, normDataRelation |-> FALSE,
   relations |-> <<>>]
Item(id, parent, name) == [Symb(id, parent, name, <<>>, "text") EXCEPT !.isItem = TRUE]
Marker(id, parent, name, value) == [Symb(id, parent, name, value, "text") EXCEPT !.normDataRelation = TRUE]
Object(id, parent, name) == [Item(id, parent, name) EXCEPT !.newObject = TRUE]

V == <<"v">>
W == <<"w">>

(* Text in three parts, each with something related to it or beside it,    *)
(* equal or not to that of another part; the texts may be empty.           *)
PartOf(parent, i, name, value, text, related) ==
  <<Item(3 * i, parent, ""), [Marker(3 * i + 1, 3 * i, name, value) EXCEPT !.normDataRelation = related],
    Symb(3 * i + 2, 3 * i, N, text, "text")>>
Part(i, name, value, text, related) == PartOf(1, i, name, value, text, related)

Texts ==
  { <<Item(1, 0, ""), Symb(2, 1, l, <<"l">>, "text")>> \o Part(1, "a", V, s, q)
      \o Part(2, n, y, t, TRUE) \o Part(3, m, z, u, r) \o k
    : k \in {<<>>, <<Object(12, 1, ""), Symb(13, 12, "a", V, "text")>>},
      l \in {N, "b"}, y \in {V, W}, z \in {V, W}, n \in {"a", "b"}, m \in {"a", "e"},
      s \in {<<>>, <<"s">>}, t \in {<<>>, <<"t">>}, q \in BOOLEAN, r \in BOOLEAN,
      u \in {<<>>, <<"u", "u">>} }

(* Objects inside: named or not, nested or beside each other, equal or not. *)
Objects ==
  { <<Item(1, 0, ""), Symb(2, 1, n, V, "text"), Item(3, 1, ""), Object(4, o, f),
      Symb(5, 4, "a", V, "text"), Symb(6, 4, "e", W, "text"), Object(7, p, g), Symb(8, 7, c, x, "text")>>
    : n \in {"", "a", "b"}, o \in {1, 3}, p \in {1, 4}, f \in {"", "f"}, g \in {"f", ""},
      c \in {"a", "e", ""}, x \in {V, W} }

(* Relations the grammar states, to values read before, and numbers. *)
Rel(r, v) == [original |-> r, value |-> v]
Relations ==
  { <<Item(1, 0, ""), Item(2, 1, ""), Symb(3, 2, "a", V, "text"), Symb(4, 2, "b", x, "text"),
      Item(5, 1, "c"), [Symb(6, 5, "e", V, "text") EXCEPT !.relations = r], Symb(7, 5, "a", y, "text"),
      Symb(8, 1, m, <<"1", "2">>, "number"), Symb(9, 1, m, <<"3">>, "number")>>
    : x \in {V, W}, y \in {V, W}, m \in {N, "a", "b"},
      r \in {<<>>, <<Rel("a", V)>>, <<Rel("b", W)>>, <<Rel("a", W), Rel("b", V)>>} }

(* Two or three parts, each with a property set of its own, and a value    *)
(* that is related to the item they are in: the sets become equal.         *)
Together ==
  { <<Item(1, 0, ""), [Item(2, 1, "") EXCEPT !.original = "r"]>>
      \o PartOf(2, 1, "a", V, <<"s">>, TRUE) \o PartOf(2, 2, n, y, t, q) \o k.part
      \o <<Item(12, 1, ""),
           [Symb(13, 12, m, <<"x">>, "text") EXCEPT !.relations =
              <<Rel("r", V \o <<"s">> \o y \o t \o k.text)>>]>>
    : k \in {[part |-> <<>>, text |-> <<>>]}
           \cup {[part |-> PartOf(2, 3, "a", z, <<"u">>, r), text |-> z \o <<"u">>]
                 : z \in {V, W, <<"y">>}, r \in BOOLEAN},
      n \in {"a", "b"}, y \in {V, W}, t \in {<<>>, <<"t">>}, q \in BOOLEAN, m \in {"a", "b", "c"} }

(* Items without content, and data that a filter puts together. *)
Pieces ==
  { <<Item(1, 0, ""), Item(2, 1, i), Item(3, 2, ""), Symb(4, 3, x, <<"7">>, "number"),
      Symb(5, 3, y, <<"8">>, "number"), Symb(6, 3, z, <<"9">>, "number"), Symb(7, 1, N, V, "text"),
      Item(8, 1, e)>>
    : x \in {N, "a"}, y \in {N, "a"}, z \in {N, "a"}, i \in {"", N}, e \in {"", "c", N} }

MCDocuments == Texts \cup Objects \cup Relations \cup Together \cup Pieces

Filter(class) == [method |-> "addFilter", known |-> TRUE, class |-> class]
Equal(method, v) == [method |-> method, value |-> v]
On(name, methods) == [name |-> name, methods |-> methods]

MCInstructions ==
  { <<>>, <<On(N, <<Filter("compression")>>)>>,
    <<On(N, <<Filter("compression"), Filter("chunkyPalette")>>)>>,
    <<On("b", <<Filter("chunkyPalette"), Filter("compression")>>)>>,
    <<On(N, <<Filter("compression"), Filter("compression"), Filter("chunkyPalette")>>)>>,
    <<On(N, <<Filter("pngFilterMethod")>>)>>,
    <<On("a", <<Equal("isEqual", V)>>), On("a", <<Filter("compression")>>)>>,
    <<On("b", <<Equal("isNotEqual", V), Filter("unknown")>>), On("a", <<Filter("chunkyPalette")>>)>>,
    <<On("a", <<[method |-> "setName", value |-> V]>>), On("a", <<Filter("compression")>>)>> }

Entry(id, name) == [id |-> id, name |-> name]
MCLibraries == << <<Entry(1, "f"), Entry(2, "d"), Entry(3, "a"), Entry(4, N)>>, <<>>,
                  <<Entry(5, "e"), Entry(3, "a"), Entry(6, "b"), Entry(7, "c")>> >>
MCIgnored == <<"d">>
MCAlphabet == <<"a", "b", "c", "d", "e", "f">>

MCInflate(v) == IF "9" \in Range(v) THEN <<>> ELSE v \o v
MCPaint(v) == FlattenSeq([i \in DOMAIN v |-> <<v[i], v[i], v[i]>>])

MCFormats == [fmt1 |-> [xcel |-> "png", command |-> FALSE],
              fmt2 |-> [xcel |-> "magick", command |-> TRUE],
              fmt3 |-> [xcel |-> "none", command |-> TRUE],
              fmt4 |-> [xcel |-> "none", command |-> FALSE]]
=============================================================================
