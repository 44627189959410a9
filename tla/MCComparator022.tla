--------------------------- MODULE MCComparator022 ---------------------------
(***************************************************************************)
(* Small documents and requests for the older comparator.                  *)
(***************************************************************************)
EXTENDS Comparator022Properties

MCNameOrder == <<"a", "b", "normData">>
MCGarbage == {0}

Lab(text, type) == [vals |-> <<<<text>>>>, types |-> <<type>>]
Values(id, lab) == [id |-> id, rawValue |-> FALSE, labValue |-> lab, objectRef |-> FALSE, dataRefs |-> 0]
P(name, valueSets) == [name |-> name, valueSets |-> valueSets]
A(lab) == P("a", <<Values(1, lab)>>)
B(lab) == P("b", <<Values(2, lab)>>)
Object(normData, properties, sets) ==
  [data |-> FALSE, normData |-> normData, properties |-> properties, propertySets |-> sets]
Doc(properties) == <<Object(<<>>, properties, 0)>>
Norm(type, pieces) == <<[type |-> type, pieces |-> pieces]>>

Five == Lab(<<5>>, "int")

\* Values of all types, with and without blanks; 8 is as large as an int of 4
\* bits is not.
Labs == {Five, Lab(<<8>>, "uint8"), Lab(<<0>>, "int"), Lab(<<1, 2>>, "int"), Lab(<<1, 3, 3>>, "int"),
         Lab(<<5>>, "rational"), Lab(<<5, 1>>, "rational"), Lab(<<8>>, "rational"),
         Lab(<<5>>, "string"), Lab(<<>>, "string"), Lab(<<5>>, "XCLLabel"),
         Lab(<<5>>, "ISO8601"), Lab(<<5>>, "unknown"), NULL}

\* What two documents with two properties may be.
Docs == {
  Doc(<<A(Five), B(NULL)>>), Doc(<<B(Five), A(Five), A(Lab(<<3>>, "int"))>>), Doc(<<A(Five)>>), Doc(<<P("c", <<Values(3, Five)>>), A(NULL)>>),
  <<Object(Norm("image", <<<<1, 2>>>>), <<A(Five), B(Lab(<<4>>, "int"))>>, 1)>>,
  <<Object(Norm("image", <<<<1, 2>>, <<3>>>>), <<B(Five)>>, 0)>>,
  <<Object(Norm("text", <<<<1>>>>), <<B(Five)>>, 2)>>,
  <<Object(Norm("text", <<<<1>>>>), <<>>, 0)>>,
  <<Object(<<>>, <<A(Five)>>, 0), Object(<<>>, <<B(Five)>>, 0)>>,
  Doc(<<P("a", <<Values(1, Five), Values(2, Lab(<<3>>, "int"))>>), B(Five)>>),
  Doc(<<P("a", <<Values(1, [vals |-> <<<<<<5>>>>, <<<<3>>>>>>, types |-> <<"int">>])>>), B(Five)>>),
  Doc(<<P("a", <<Values(1, [vals |-> <<<<<<5>>, <<3>>>>>>, types |-> <<"int", "string">>])>>), B(Five)>>),
  Doc(<<P("a", <<[Values(1, Five) EXCEPT !.rawValue = TRUE]>>), B(Five)>>),
  Doc(<<P("a", <<[Values(1, Five) EXCEPT !.dataRefs = 1]>>), B(Five)>>),
  Doc(<<B(Five), P("a", <<[Values(1, Five) EXCEPT !.objectRef = TRUE]>>)>>),
  <<[Object(<<>>, <<A(Five)>>, 0) EXCEPT !.data = TRUE]>>,
  <<Object(Norm("image", <<<<1>>>>) \o Norm("image", <<<<2>>>>), <<A(Five)>>, 0)>>}

Asked(id, name, ids) ==
  [id |-> id, name |-> name,
   metrics |-> [i \in DOMAIN ids |-> [id |-> ids[i], param |-> IF ids[i] = 12 THEN 2 ELSE NoParam]]]
AskInt == <<Asked(1, "a", <<1, 2, 4, 6, 8, 10>>)>>
AskSets == <<Asked(1, "a", <<11, 12, 17, 20, 1>>)>>
AskRational == <<Asked(1, "a", <<1, 3, 5, 7, 9, 10>>)>>
AskEqual == <<Asked(1, "a", <<1, 15>>)>>
AskLabel == <<Asked(1, "a", <<1>>)>>
AskBoth == <<Asked(1, "a", <<1>>), Asked(2, "b", <<1, 2>>), Asked(3, "normData", <<11, 15, 12>>)>>
AskB == <<Asked(2, "b", <<1>>)>>
AskTwice == <<Asked(1, "a", <<1>>), Asked(1, "b", <<2>>), [Asked(4, "a", <<2>>) EXCEPT !.metrics = <<[id |-> 2, param |-> NoParam], [id |-> 2, param |-> 3]>>]>>
AskNoParam == <<Asked(2, "b", <<1>>), [Asked(3, "normData", <<>>) EXCEPT !.metrics = <<[id |-> 12, param |-> NoParam]>>]>>

Ok(content) == [state |-> "ok", content |-> content]
Args == <<"src", "t1", "t2", "-c", "pcr">>
OneTarget == <<"src", "t1", "-c", "pcr", "-o", "dir">>
World(argv, src, t1, t2, pcr) ==
  [argv |-> argv, files |-> [src |-> src, t1 |-> t1, t2 |-> t2, pcr |-> pcr]]

\* Every value with every value; every document with every two.
ByValue ==
  {World(OneTarget, Ok(Doc(<<A(x)>>)), Ok(Doc(<<A(y)>>)), Ok(<<>>), Ok(<<sets>>)) :
     x \in Labs, y \in Labs, sets \in {AskInt, AskSets, AskRational, AskEqual, AskLabel}}
ByDocument ==
  {World(Args, Ok(s), Ok(t1), Ok(t2), Ok(pcr)) :
     s \in Docs, t1 \in Docs, t2 \in {Doc(<<A(Five), B(NULL)>>), Doc(<<B(Five), A(Five)>>)},
     pcr \in {<<AskBoth, AskB>>, <<AskTwice, AskLabel>>, <<AskNoParam, AskBoth>>}}

\* Bad files, and requests and arguments that do not fit.
States == {[state |-> s, content |-> Doc(<<A(Five)>>)] : s \in {"ok", "invalid", "missing"}}
ByFile ==
  {World(Args, s, t, Ok(Doc(<<A(Five)>>)), Ok(pcr)) : s \in States, t \in States, pcr \in {<<AskLabel, AskLabel>>, <<AskLabel>>}}
Arguments == {
  <<>>, <<"src">>, <<"src", "-c", "pcr">>, <<"src", "t1">>, <<"src", "t1", "-c">>, <<"src", "t1", "-i", "x", "-c", "pcr">>,
  <<"src", "t1", "-o", "dir">>, <<"src", "t1", "-o", "dir", "-c", "pcr">>, <<"src", "t1", "-c", "pcr", "t2">>}
ByArguments == {World(argv, Ok(Doc(<<A(Five)>>)), Ok(Doc(<<A(Five)>>)), Ok(<<>>), Ok(<<AskLabel>>)) : argv \in Arguments}

MCWorlds == ByValue \cup ByDocument \cup ByFile \cup ByArguments
=============================================================================
