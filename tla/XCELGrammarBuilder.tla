-------------------------- MODULE XCELGrammarBuilder --------------------------
(***************************************************************************)
(* From the XCEL document to the objects the reader works on               *)
(* (XCELGrammarBuilder.cpp, the constructors and add() of XCLSyntaxItem).  *)
(* A document gives three grammars, of which every phase of the extraction *)
(* reads one.  An item is built as an object of its own, copied with all   *)
(* that is below it into its parent, and deleted; so a grammar is copied   *)
(* once for each of its levels, once for the tree builder, and again by    *)
(* whoever reads it.                                                       *)
(*                                                                         *)
(* The documents are those the schema admits: build() validates them.      *)
(* That leaves out the element "property", the attributes "byteOrder" and  *)
(* "startposition", and a document without a format description.           *)
(***************************************************************************)
EXTENDS Integers, FiniteSets, SequencesExt, FiniteSetsExt, TLC

CONSTANTS Document,   \* XCEL documents
          NoId, NoName,
          LengthMax   \* LENGTH_MAX

VARIABLES xcel,       \* the document
          phase,      \* what build() does
          section,    \* the grammar that is built, or read: 1 .. 3
          open,       \* buildItem(), the calls that have not returned
          grammar,    \* the grammar of the builder
          gId,
          taken,      \* the grammars the tree builder keeps
          own,        \* those the pre- and the main processor keep
          reading,    \* parseFile(): its copies and its index
          heap,       \* the objects
          memory      \* what is found where a deleted object was

vars == <<xcel, phase, section, open, grammar, gId, taken, own, reading, heap, memory>>

NULL == 0
Garbage == -1

(***************************************************************************)
(* Objects.  An address is used once; a deleted object is not live, and    *)
(* the memory may still show it or not.                                    *)
(***************************************************************************)
NewObject(kind, id, itemType, content) ==
  [kind |-> kind, id |-> id, itemType |-> itemType, parent |-> NULL,
   children |-> <<>>, content |-> content]

Allocate(h, o) ==
  [h EXCEPT !.object = Append(@, o), !.live = @ \cup {Len(h.object) + 1}]

RECURSIVE Below(_, _)
Below(h, a) == {a} \cup UNION {Below(h, c) : c \in Range(h.object[a].children)}

Delete(h, a) == [h EXCEPT !.live = @ \ Below(h, a)]

(* setParent() asks the item that is to be the parent for its type. *)
ParentOf(h, p) ==
  CASE p = NULL -> NULL
    [] p = Garbage \/ (p \notin h.live /\ memory = "overwritten") -> Garbage
    [] OTHER -> IF h.object[p].itemType = "STRUCTURING" THEN p ELSE h.object[p].parent

SetParent(h, a, p) == [h EXCEPT !.object[a].parent = ParentOf(h, p)]

(* The copy has the parent of the original, and copies of its children. *)
RECURSIVE Add(_, _, _)
Copy_KeepsChildren(h, o) ==
  FoldLeft(LAMBDA g, c : Add(g, Len(h.object) + 1, h.object[c]), Allocate(h, o), o.children)
Copy(h, o) ==
  FoldLeft(LAMBDA g, c : Add(g, Len(h.object) + 1, h.object[c]),
           Allocate(h, [o EXCEPT !.children = <<>>]), o.children)

Add_KeepsParent(h, this, o) ==
  [Copy(h, o) EXCEPT !.object[this].children = Append(@, Len(h.object) + 1)]
Add(h, this, o) ==
  LET a == Len(h.object) + 1
      item == h.object[this]
      p == IF o.kind = "processing" \/ item.itemType = "STRUCTURING" THEN this ELSE item.parent
  IN  [SetParent(Copy(h, o), a, p) EXCEPT !.object[this].children = Append(@, a)]

(***************************************************************************)
(* Symbols.  Of a value only that is kept which its size is taken from.    *)
(***************************************************************************)
Size(s, v) ==
  CASE s.interpretation = "ASCII" -> IF v.special THEN 1 ELSE v.chars
    [] s.interpretation = "uint8" -> v.blanks + 1
    [] OTHER -> s.length

SetSize_KeepsAttribute(s, v) ==
  IF s.length # LengthMax THEN s
  ELSE [s EXCEPT !.length = Size(s, v), !.lengthType = "FIXED"]
SetSize(s, v) ==
  [s EXCEPT !.length = Size(s, v), !.lengthType = IF Size(s, v) # LengthMax THEN "FIXED" ELSE @]

AddValidValue(s, v) == [SetSize(s, v) EXCEPT !.validValues = Append(@, v)]
AddNonValidValue(s, v) == [SetSize(s, v) EXCEPT !.nonValidValues = Append(@, v)]
AddSemanticInterpretation(s, v) ==
  [s EXCEPT !.semanticInterpretation = @ \cup {v}, !.validValues = Append(@, v)]

(* A range is one of digits in ASCII, by the first character of its ends,  *)
(* and -1 where that is not a digit; otherwise it is one of numbers.       *)
DigitValue(end) == end.digit
Number(n) == [chars |-> IF n \in 0 .. 9 THEN 1 ELSE 2, blanks |-> 0, special |-> FALSE]

InRange(s, range) ==
  LET Upwards(from, to) == [i \in 1 .. (to - from + 1) |-> Number(from + i - 1)]
  IN  CASE s.interpretation = "ASCII" -> Upwards(DigitValue(range.start), DigitValue(range.end))
        [] range.end.number > 0 -> Upwards(range.start.number, range.end.number)
        [] OTHER -> <<>>

(* The attribute matchingBehaviour and the label of a value are left out. *)
Symbol(e) ==
  LET members == [length |-> e.length,
                  lengthType |-> IF e.length = LengthMax THEN "PROCESSED" ELSE "FIXED",
                  interpretation |-> e.interpretation, validValues |-> <<>>,
                  nonValidValues |-> <<>>, semanticInterpretation |-> {}]
      labelled == FoldLeft(AddSemanticInterpretation, members, e.labels)
      excluded == FoldLeft(AddNonValidValue, labelled, e.nonValidValues)
      listed == FoldLeft(AddValidValue, excluded, e.validValues)
      ranged == FoldLeft(AddValidValue, listed,
                         FlattenSeq([i \in DOMAIN e.range |-> InRange(listed, e.range[i])]))
  IN  FoldLeft(AddValidValue, ranged, e.value)
-----------------------------------------------------------------------------
(* An expression without an identifier gets the next number; it goes on    *)
(* over the three grammars.                                                *)
Generated(n) == <<"extrc", n>>
Identifier(e) == IF e.id = NoId THEN Generated(gId + 1) ELSE e.id
CountIdentifier(e) == gId' = IF e.id = NoId THEN gId + 1 ELSE gId

ItemType(e) ==
  CASE e.type = "structuringItem" -> "STRUCTURING"
    [] e.name # NoName -> "DEFINITION"
    [] OTHER -> "CONTEXT"

(* firstChildElement() of a section without an item is a null element,     *)
(* which is built as an item without attributes.                           *)
NullElement == [tag |-> "item", id |-> NoId, type |-> "", name |-> NoName, children |-> <<>>]
FirstChild(items) == IF items = <<>> THEN NullElement ELSE Head(items)

(* A section that may be absent is a sequence of at most one.  The         *)
(* templates follow the format description, in one grammar.                *)
Elements(s) ==
  LET Items(sections) == [i \in DOMAIN sections |-> FirstChild(sections[i])]
  IN  CASE s = 1 -> <<FirstChild(xcel.formatDescription)>> \o xcel.templates
        [] s = 2 -> Items(xcel.preProcessing)
        [] s = 3 -> Items(xcel.postProcessing)

NotReading == [file |-> NULL, root |-> NULL, index |-> <<>>]

Init ==
  /\ xcel \in Document /\ memory \in {"kept", "overwritten"}
  /\ phase = "between" /\ section = 1
  /\ open = <<>> /\ grammar = NULL /\ gId = 0
  /\ taken = <<>> /\ own = {} /\ reading = NotReading
  /\ heap = [object |-> <<>>, live |-> {}]

(* buildGrammar(), buildPreProcessingGrammar(), buildPostProcessingGrammar() *)
BuildGrammar ==
  /\ phase = "between" /\ section <= 3
  /\ LET free == IF grammar = NULL THEN heap ELSE Delete(heap, grammar)
     IN  heap' = Allocate(free, NewObject("item", NoId, "STRUCTURING", <<>>))
  /\ grammar' = Len(heap.object) + 1
  /\ open' = <<[item |-> grammar', rest |-> Elements(section)]>>
  /\ phase' = "building"
  /\ UNCHANGED <<xcel, section, gId, taken, own, reading, memory>>

At(tag) == phase = "building" /\ Last(open).rest # <<>> /\ Head(Last(open).rest).tag = tag
Element == Head(Last(open).rest)
Advanced == [open EXCEPT ![Len(open)].rest = Tail(@)]

(* The first part of buildItem(); the children follow. *)
OpenItem ==
  /\ At("item")
  /\ heap' = Allocate(heap, NewObject("item", Identifier(Element), ItemType(Element), <<>>))
  /\ open' = Append(Advanced, [item |-> Len(heap.object) + 1, rest |-> Element.children])
  /\ CountIdentifier(Element)
  /\ UNCHANGED <<xcel, phase, section, grammar, taken, own, reading, memory>>

BuildSymbol ==
  /\ At("symbol")
  /\ heap' = Add(heap, Last(open).item,
                 NewObject("symbol", Identifier(Element), "", <<Symbol(Element)>>))
  /\ open' = Advanced
  /\ CountIdentifier(Element)
  /\ UNCHANGED <<xcel, phase, section, grammar, taken, own, reading, memory>>

(* An instruction has no identifier of its own. *)
BuildProcessing ==
  /\ At("processing")
  /\ heap' = Add(heap, Last(open).item, NewObject("processing", NoId, "", <<>>))
  /\ open' = Advanced
  /\ UNCHANGED <<xcel, phase, section, grammar, gId, taken, own, reading, memory>>

(* The last part of buildItem(). *)
CloseItem_KeepsItem ==
  /\ phase = "building" /\ Len(open) > 1 /\ Last(open).rest = <<>>
  /\ heap' = Add(heap, Last(Front(open)).item, heap.object[Last(open).item])
  /\ open' = Front(open)
  /\ UNCHANGED <<xcel, phase, section, grammar, gId, taken, own, reading, memory>>
CloseItem ==
  /\ phase = "building" /\ Len(open) > 1 /\ Last(open).rest = <<>>
  /\ LET item == Last(open).item
     IN  heap' = Delete(Add(heap, Last(Front(open)).item, heap.object[item]), item)
  /\ open' = Front(open)
  /\ UNCHANGED <<xcel, phase, section, grammar, gId, taken, own, reading, memory>>

(* build() keeps a copy of what it is given. *)
TakeGrammar ==
  /\ phase = "building" /\ Len(open) = 1 /\ Last(open).rest = <<>>
  /\ heap' = Copy(heap, heap.object[grammar])
  /\ taken' = Append(taken, Len(heap.object) + 1)
  /\ open' = <<>>
  /\ section' = section + 1
  /\ phase' = "between"
  /\ UNCHANGED <<xcel, grammar, gId, own, reading, memory>>

(* The builder goes out of scope. *)
DestroyBuilder ==
  /\ phase = "between" /\ section = 4
  /\ heap' = Delete(heap, grammar)
  /\ grammar' = NULL
  /\ section' = 1 /\ phase' = "built"
  /\ UNCHANGED <<xcel, open, gId, taken, own, reading, memory>>

(***************************************************************************)
(* Preprocessing reads the second grammar, main processing the first,      *)
(* postprocessing the third.  The first two keep a copy of their own.      *)
(***************************************************************************)
Grammar == taken[<<2, 1, 3>>[section]]

Indexed_FirstLevel(h, root) ==
  {a \in Range(h.object[root].children) : h.object[a].kind # "processing"}
Indexed(h, root) ==
  {a \in Below(h, root) \ {root} : h.object[a].kind # "processing"}

(* Of several expressions with one identifier the last one is found. *)
Index(h, root) ==
  [id \in {h.object[a].id : a \in Indexed(h, root)} |->
     CHOOSE a \in Indexed(h, root) :
        h.object[a].id = id /\ \A b \in Indexed(h, root) : h.object[b].id = id => b <= a]

(* parseFile(), up to the call of parse(): getFirstChild() of a grammar    *)
(* without children is undefined.                                          *)
ParseFile ==
  /\ phase = "built" /\ section <= 3
  /\ LET kept == IF section = 3 THEN heap ELSE Copy(heap, heap.object[Grammar])
         file == Len(kept.object) + 1
         copied == SetParent(Copy(kept, heap.object[Grammar]), file, NULL)
         children == copied.object[file].children
     IN  /\ own' = IF section = 3 THEN own ELSE own \cup {Len(heap.object) + 1}
         /\ IF children = <<>>
            THEN /\ heap' = copied
                 /\ reading' = [NotReading EXCEPT !.file = file]
                 /\ phase' = "undefined"
            ELSE /\ heap' = Copy(copied, copied.object[Head(children)])
                 /\ reading' = [file |-> file, root |-> Len(copied.object) + 1,
                                index |-> Index(copied, file)]
                 /\ phase' = "parsing"
  /\ UNCHANGED <<xcel, section, open, grammar, gId, taken, memory>>

(* The end of parseFile(); a parse that throws is in the module Extractor. *)
EndOfParse ==
  /\ phase = "parsing"
  /\ heap' = Delete(Delete(heap, reading.file), reading.root)
  /\ reading' = NotReading
  /\ section' = section + 1
  /\ phase' = IF section = 3 THEN "done" ELSE "built"
  /\ UNCHANGED <<xcel, open, grammar, gId, taken, own, memory>>

Next ==
  \/ BuildGrammar \/ OpenItem \/ BuildSymbol \/ BuildProcessing \/ CloseItem
  \/ TakeGrammar \/ DestroyBuilder \/ ParseFile \/ EndOfParse

Spec == Init /\ [][Next]_vars

-----------------------------------------------------------------------------
(***************************************************************************)
(* What the copying, numbering and measuring must keep.                    *)
(***************************************************************************)
Object(a) == heap.object[a]
Trees == Range(taken)
AllOf(roots) == UNION {Below(heap, r) : r \in roots}

(* Every object has one owner: it is the child of one item, or a root that *)
(* someone holds; and no item that exists has a child that does not.  An   *)
(* item deletes its children, so a child with two owners would be deleted  *)
(* twice, and one without an owner never (XCLSyntaxItem.cpp:47).           *)
Roots ==
  Trees \cup own \cup {f.item : f \in Range(open)} \cup ({grammar, reading.file, reading.root} \ {NULL})

EveryObjectHasOneOwner ==
  LET owned == heap.live \ Roots
  IN  /\ heap.live = AllOf(Roots)
      /\ owned = UNION {Range(Object(a).children) : a \in heap.live}
      /\ Cardinality(owned) = MapThenSumSet(LAMBDA a : Len(Object(a).children), heap.live)

(* A grammar has the structure of its section, however often it has been   *)
(* copied: the same elements in the same order, the templates after the    *)
(* format description, and in place of an empty section an empty item      *)
(* (XCELGrammarBuilder.cpp:56).                                            *)
RECURSIVE Drawn(_)
Drawn(e) ==
  [kind |-> e.tag, id |-> IF e.tag = "processing" THEN NoId ELSE e.id,
   children |-> IF e.tag = "item" THEN [i \in DOMAIN e.children |-> Drawn(e.children[i])] ELSE <<>>]
RECURSIVE Shape(_)
Shape(a) ==
  [kind |-> Object(a).kind, id |-> IF \E n \in 1 .. gId : Object(a).id = Generated(n)
                                   THEN NoId ELSE Object(a).id,
   children |-> [i \in DOMAIN Object(a).children |-> Shape(Object(a).children[i])]]

DrawnSection(items) ==
  IF items = <<>> THEN <<[kind |-> "item", id |-> NoId, children |-> <<>>]>>
  ELSE [i \in DOMAIN items |-> Drawn(items[i])]
DrawnGrammar(s) ==
  LET Optional(sections) == FlattenSeq([i \in DOMAIN sections |-> DrawnSection(sections[i])])
      templates == [i \in DOMAIN xcel.templates |-> Drawn(xcel.templates[i])]
  IN  << DrawnSection(xcel.formatDescription) \o templates,
         Optional(xcel.preProcessing), Optional(xcel.postProcessing) >>[s]

GrammarMirrorsSection == \A s \in DOMAIN taken : Shape(taken[s]).children = DrawnGrammar(s)

(* While a grammar is read every expression of it is found by its          *)
(* identifier, and what is found is the object of the grammar that an      *)
(* instruction replaces and changes, not that of an earlier copy; and no   *)
(* other expression of the three grammars has its identifier, under which  *)
(* its values go from one phase to the next (XCELReader.cpp:241, 355,      *)
(* XCELGrammarBuilder.cpp:577).                                            *)
IsNamed(a) == Object(a).kind # "processing" /\ a \notin Trees

IndexFindsGrammar ==
  phase = "parsing" =>
    \A a \in {b \in Below(heap, Grammar) : IsNamed(b)} :
      LET id == Object(a).id IN
      /\ id \in DOMAIN reading.index
      /\ reading.index[id] \in Below(heap, reading.file) \cap heap.live
      /\ Object(reading.index[id]).kind = Object(a).kind
      /\ \A b \in AllOf(Trees) : IsNamed(b) /\ Object(b).id = id => a = b

(* Whatever is copied, a child of a structuring item refers to the item    *)
(* that contains it, not to the one it was copied from                     *)
(* (XCLSyntaxItem.cpp:110).                                                *)
ParentIsContainer ==
  \A a \in AllOf(Trees \cup own) :
     Object(a).kind = "item" /\ Object(a).itemType = "STRUCTURING" =>
       \A c \in Range(Object(a).children) : Object(c).parent = a

Symbols == {a \in AllOf(Trees) : Object(a).kind = "symbol"}
Content(a) == Object(a).content[1]
Measured(s) == s.interpretation \in {"ASCII", "uint8"} /\ s.semanticInterpretation = {}

(* A symbol that lists values reads as many bytes as one of them has,      *)
(* whatever length its attribute gives; otherwise none of them could ever  *)
(* be met (XCLSyntaxSymbol.cpp:163).                                       *)
SomeValueFits ==
  \A a \in Symbols :
     LET s == Content(a)
         listed == Range(s.validValues) \cup Range(s.nonValidValues)
     IN  Measured(s) /\ listed # {} =>
           s.lengthType = "FIXED" /\ \E v \in listed : s.length = Size(s, v)
=============================================================================
