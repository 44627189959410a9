---------------------------- MODULE MCProcessing ----------------------------
(***************************************************************************)
(* XCELs of one sequence: two offsets a, a count IDI, a text d, then one   *)
(* or two instructions on d, and d again; and sequences of addressing      *)
(* methods over files with and without separators.                         *)
(***************************************************************************)
EXTENDS ProcessingProperties

Named ==
  10 :> "~" @@ 32 :> " " @@ 33 :> "!" @@ 49 :> "1" @@ 50 :> "2" @@ 51 :> "3" @@ 52 :> "4" @@
  1 :> "A" @@ 2 :> "B" @@ 3 :> "C" @@ 4 :> "D" @@ 18 :> "R" @@ 5 :> "E" @@ 6 :> "F"
Characters == [code \in 0 .. 255 |-> IF code \in DOMAIN Named THEN Named[code] ELSE "?"]

Value(v) == [kind |-> "value", value |-> v]
Codes(v, codes) == [kind |-> "value", value |-> v, codes |-> codes]
Ref(i) == [kind |-> "valueRef", value |-> i]
NameRef(i) == [kind |-> "nameRef", value |-> i]
ListRef(i) == [kind |-> "listRef", value |-> i]
Math(t) == [kind |-> "mathEx", value |-> t]
Call(name, parameters) == [name |-> name, parameters |-> parameters]

Plain(i, interpretation, length) ==
  [identifier |-> i, interpretation |-> interpretation, length |-> length, start |-> 0,
   positionType |-> "SEQUENTIAL", lengthType |-> "FIXED", isBigEndian |-> FALSE, name |-> "",
   isOptional |-> FALSE, extSource |-> "", intSource |-> "", externalXCDL |-> "",
   filters |-> <<>>, relations |-> <<>>, validValues |-> {}]

TheGrammar ==
  "a" :> Plain("a", "uint8", 1) @@ "IDI" :> Plain("IDI", "uint8", 1) @@
  "d" :> Plain("d", "ASCII", 2) @@ "w" :> Plain("w", "uint16", 2) @@
  "v" :> [Plain("v", "ASCII", 1) EXCEPT !.validValues = {"!"}]
MCBefore == {0, 3, 268435400}
MCGrammars == {TheGrammar}

MCFonts == "F1" :> [hasCMap |-> FALSE, entries |-> <<>>] @@
           "F2" :> [hasCMap |-> TRUE, entries |-> <<[key |-> "1", value |-> "x"]>>] @@
           "F3" :> [hasCMap |-> TRUE, entries |-> <<>>]
MCFactors == {"1", "2", "3", "6", "0", "IDI", "ID0", "7", "1440", "999999", "1000000", "1000001",
              "16777217"}

\* Offsets 5 and 4, the count 2, the text "12", and what the offsets point to.
MCFiles == {<<5, 4, 2, 49, 50, 51, 33>>, <<5, 1, 3, 52, 49, 10, 32, 33, 10>>, <<1, 10, 10, 2, 10>>,
            <<6, 6, 1, 50, 49, 10>>}

Starts == {Call("setStartPosition", <<p>>) :
             p \in {Ref("a"), NameRef("a"), ListRef("a"), Value("3"), Ref("x")}}
Expressions == {x \o o \o y : x \in {"1", "6", "IDI", "ID0"}, o \in Operators,
                              y \in {"2", "0", "IDI"}}
               \cup {"1440*1440", "1440*7", "999999+1", "999999*1", "1000001-2", "1000000/3",
                     "1000001/2", "1000000/1", "999999/7", "1000001-16777217",
                     "1440*1440*2", "1440*1440+1", "-3+2", "-1000000*2+1", "-1*31000000", "+8/34",
                     "1+2+3", "1*2*3", "6"}
Lengths ==
  {Call("setLength", ps) :
     ps \in {<<Ref("IDI")>>, <<Value("1")>>, <<Ref("x")>>, <<>>, <<Ref("IDI"), Value("uint16")>>,
             <<Ref("a"), Value("uint32")>>, <<Value("2"), Value("uint8")>>,
             <<Math("7*7"), Value("uint8")>>}
            \cup {<<Math(t)>> : t \in Expressions}}
Values ==
  {Call("getItemNumber", <<Value("a"), Value("0")>>), Call("getItemNumber", <<Value("a"), Value("7")>>),
   Call("setValue", <<Ref("a")>>), Call("setValue", <<Ref("a"), Value("all")>>),
   Call("setValue", <<Value("12")>>), Call("interpretAsNumber", <<Value("16")>>),
   Call("interpretHexValues", <<Value("F1")>>), Call("interpretHexValues", <<Value("F2")>>),
   Call("interpretHexValues", <<Value("F3")>>), Call("interpretHexValues", <<Value("F4")>>)}
Others ==
  {Call("addFilter", <<Value("f"), Ref("a")>>), Call("addFilter", <<Value("f"), Ref("x")>>),
   Call("addRelation", <<Value("a"), Value("4")>>), Call("addRelation", <<Value("a"), Ref("x")>>),
   Call("setName", <<Value("name")>>), Call("setInterpretation", <<Value("uint16")>>),
   Call("setIdentifier", <<Value("a")>>), Call("setOptional", <<Value("true")>>),
   Call("setByteOrder", <<Value("bigEndian")>>), Call("setExternalSource", <<Ref("d")>>),
   Call("setInternalSource", <<Value("part")>>), Call("extract", <<Ref("d"), Value("x")>>),
   Call("isEqual", <<Ref("a"), Value("4")>>), Call("isNotEqual", <<Ref("a"), Value("4")>>),
   Call("isEqual", <<Ref("a"), Ref("a")>>), Call("valueIsNotInIndex", <<Value("a"), Ref("a")>>),
   Call("decompress", <<Value("z"), Value("0"), Value("1")>>), Call("mathOperationAdd", <<>>),
   Call("unzip", <<>>)}

Instruct(type, id, methods) == [type |-> type, reference |-> id, methods |-> methods]
Read1(id) == [type |-> "SYMBOL", object |-> id]
Xcel(preprocessing, steps) == [preprocessing |-> preprocessing, steps |-> steps]

Methods == {<<m>> : m \in Starts \cup Lengths \cup Values \cup Others} \cup
           {<<m, n>> : m \in Starts, n \in Lengths \cup Others} \cup
           {<<m, n>> : m, n \in Values \cup Others}

Instructed1 ==
  {Xcel(<<>>, <<Read1("a"), Read1("a"), Read1("IDI"), Read1("d"), Instruct(t, "d", ms), Read1("d")>>) :
     t \in {"PUSHXCEL", "PULLXCEL"}, ms \in Methods} \cup
  {Xcel(<<>>, <<Read1("a"), Read1("a"), Read1("d"), Instruct(t, "d", <<m>>), Read1("w")>>) :
     t \in {"CONFIGPARSER", "PUSHBINARY"}, m \in Starts \cup Lengths \cup Values \cup Others}

Scheme(ps) == Call("setAddressingScheme", ps)
Schemes == {Scheme(<<Codes("separator", <<>>), Codes("list", <<10>>)>>),
            Scheme(<<Codes("byte", <<>>)>>), Scheme(<<Codes("seperator", <<>>), Codes("list", <<10>>)>>),
            Scheme(<<Ref("a")>>)}
GoTo == {Call(n, <<>>) : n \in {"goToNextAddress", "goToPreviousAddress", "goToLastAddress"}}

Addressed ==
  {Xcel(<<>>, <<Instruct("CONFIGPARSER", "", <<s>> \o ms), Read1("d"), Instruct("PULLXCEL", "v", <<>>)>>) :
     s \in Schemes, ms \in UNION {[1 .. n -> GoTo] : n \in 1 .. 4}}

Prepared ==
  {Xcel(pre, <<Read1("d"), Read1("d"), Read1("a"), Read1("v"), Instruct("PULLXCEL", "none", <<>>)>>) :
     pre \in {<<>>, <<Call("setSymbolDoesNotMatchHandle", <<Value("skipWhiteSpace")>>)>>,
              <<Call("unzip", <<Value("dir")>>)>>, <<Call("unzip", <<Ref("a")>>)>>,
              <<Call("unknown", <<>>), Call("unzip", <<Value("dir")>>)>>}}
MCPrograms == Instructed1 \cup Addressed \cup Prepared
=============================================================================
