--------------------------- MODULE MCGrammarBuilder ---------------------------
(***************************************************************************)
(* Documents for the grammar builder: items in items of both types, three  *)
(* levels deep, sections that are absent, empty or there, and symbols with *)
(* every way to list values.                                               *)
(***************************************************************************)
EXTENDS XCELGrammarBuilder

CONSTANTS root, inner, outer, nested, template, setup, s1, s2, n

MCMax == 1000

Item(id, type, name, children) ==
  [tag |-> "item", id |-> id, type |-> type, name |-> name, children |-> children]
Structure(id, children) == Item(id, "structuringItem", NoName, children)
Definition(id, children) == Item(id, "definitionItem", n, children)
Instruction == [tag |-> "processing"]

Plain(id) ==
  [tag |-> "symbol", id |-> id, length |-> 1, interpretation |-> "uint8",
   labels |-> <<>>, nonValidValues |-> <<>>, validValues |-> <<>>, range |-> <<>>, value |-> <<>>]

Text(length) == [chars |-> length, blanks |-> 0, special |-> FALSE]
LineFeed == [chars |-> 1, blanks |-> 0, special |-> TRUE]
Bytes == [chars |-> 5, blanks |-> 2, special |-> FALSE]
Digit(d) == [digit |-> d, number |-> d]
Letter == [digit |-> -1, number |-> 0]
Ascii(id) == [Plain(id) EXCEPT !.interpretation = "ASCII", !.length = LengthMax]

MCSymbol ==
  {Plain(s1),
   [Plain(s1) EXCEPT !.validValues = <<Bytes>>],
   [Plain(s1) EXCEPT !.labels = <<Text(1), Text(2)>>],
   [Plain(s1) EXCEPT !.interpretation = "uint16", !.length = 2, !.validValues = <<Text(3)>>],
   [Plain(s1) EXCEPT !.range = <<[start |-> Digit(0), end |-> Digit(2)]>>],
   [Plain(s1) EXCEPT !.range = <<[start |-> Digit(0), end |-> Digit(0)]>>],
   [Ascii(s1) EXCEPT !.range = <<[start |-> Letter, end |-> Letter]>>],
   [Ascii(s1) EXCEPT !.range = <<[start |-> Digit(1), end |-> Digit(2)]>>, !.length = 4],
   [Ascii(s1) EXCEPT !.validValues = <<Text(2), Text(4)>>, !.length = 1],
   [Ascii(s1) EXCEPT !.nonValidValues = <<Text(3), LineFeed>>],
   [Ascii(s1) EXCEPT !.nonValidValues = <<LineFeed>>, !.value = <<Text(4)>>]}

MCFormatDescription ==
  {<<>>} \cup
  {<<Structure(root, <<Structure(NoId, <<symbol, Instruction>>)>>)>> : symbol \in MCSymbol} \cup
  {<<Item(root, t, n, <<Structure(inner, <<Definition(outer, <<m, Instruction>>)>>), Plain(NoId)>>)>> :
     t \in {"structuringItem", "definitionItem"},
     m \in {Definition(nested, <<Plain(s1)>>), Structure(NoId, <<Plain(NoId)>>),
            Item(NoId, "definitionItem", NoName, <<Plain(s1)>>)}}

MCTemplates == {<<>>, <<Definition(template, <<Plain(s2)>>), Structure(NoId, <<Plain(NoId)>>)>>}

\* Absent, without an item, with an item.
Sections(item) == {<<>>, << <<>> >>, << <<item>> >>}

MCDocument ==
  [formatDescription : MCFormatDescription, templates : MCTemplates,
   preProcessing : Sections(Structure(setup, <<Instruction>>)),
   postProcessing : Sections(Structure(NoId, <<Plain(NoId), Instruction>>))]
=============================================================================
