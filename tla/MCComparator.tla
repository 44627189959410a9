---------------------------- MODULE MCComparator ----------------------------
(***************************************************************************)
(* Small documents, configurations and command lines for the comparator.   *)
(* Property "a" has no data references, "b" has.  An int is less than 8.  *)
(***************************************************************************)
EXTENDS ComparatorProperties

MCNameOrder == <<"a", "b", "normData">>
MCGarbage == {-1, 6}
MCMetricParam == {0, 2, NoParam}

\* Values, value sets and properties.
Value(type, text) == [labelled |-> TRUE, val |-> <<text>>, type |-> <<type>>, dataRefs |-> <<>>]
Unlabelled == [labelled |-> FALSE, val |-> <<>>, type |-> <<>>, dataRefs |-> <<>>]
Empty(type) == [labelled |-> TRUE, val |-> <<>>, type |-> <<type>>, dataRefs |-> <<>>]
Referring(v, setIds) ==
  [v EXCEPT !.dataRefs = [i \in DOMAIN setIds |-> [ind |-> "normSpecific", propSetId |-> setIds[i]]]]

A(valueSets) == [name |-> "a", valueSets |-> valueSets]
B(valueSets) == [name |-> "b", valueSets |-> valueSets]
Range4(b, e) == [begin |-> b, end |-> e]
Set(id, refs) == [id |-> id, refs |-> refs]
Data(id, type, text) == [id |-> id, type |-> type, text |-> text]
Object(properties, sets, normData) ==
  [properties |-> properties, propertySets |-> sets, normData |-> normData]

\* Properties without references, and normData.
As == {
  <<Value("int", <<3>>)>>, <<Value("int", <<0>>)>>, <<Value("int", <<9>>)>>, <<Empty("int")>>,
  <<Value("rational", <<3>>)>>, <<Value("string", <<3, 5>>)>>, <<Value("string", <<5>>)>>, <<Empty("string")>>,
  <<Unlabelled>>, <<Value("int", <<3>>), Value("int", <<5>>)>>, <<Value("int", <<3>>), Value("int", <<3>>)>>}
Simple == {<<Object(<<A(a)>>, <<>>, <<>>)>> : a \in As}

NormDatas == {
  <<Data(1, "image", <<1, 2, 3>>)>>, <<Data(1, "image", <<3, 2, 1>>)>>, <<Data(1, "image", <<2>>)>>,
  <<Data(1, "text", <<1, 2, 3>>)>>, <<Data(1, "text", <<1, 2>>)>>, <<Data(1, "sound", <<1>>)>>,
  <<Data(2, "text", <<1, 2>>), Data(1, "image", <<4>>)>>}
Normed == {<<Object(<<>>, <<>>, n)>> : n \in NormDatas}

\* Properties with references to the ranges of property sets.
Two(x, y) == <<Referring(Value("int", <<3>>), x), Referring(Value("int", <<5>>), y)>>
Sets1 == <<Set("s", <<Range4(0, 2)>>), Set("t", <<Range4(2, 5), Range4(6, 7)>>)>>
Sets2 == <<Set("s", <<Range4(2, 5)>>), Set("t", <<Range4(0, 2), Range4(6, 7)>>)>>
Sets3 == <<Set("s", <<Range4(0, 3)>>)>>
WithoutSets == <<Object(<<B(<<Referring(Value("int", <<3>>), <<"s">>)>>)>>, <<>>, <<>>)>>
Referred ==
  {<<Object(<<A(<<Value("int", <<3>>)>>), B(two)>>, sets, <<>>)>> :
     two \in {Two(<<"s">>, <<"t">>), Two(<<"t">>, <<"s">>)}, sets \in {Sets1, Sets2}} \cup
  {<<Object(<<A(<<Value("int", <<3>>)>>), B(<<Referring(Value("int", <<3>>), <<"s">>)>>)>>, Sets3, <<>>)>>,
   WithoutSets}

\* The second object of a file refers to a set of the first.
Dangled == <<Object(<<>>, Sets3, <<>>), Object(<<B(<<Referring(Value("int", <<3>>), <<"s">>)>>)>>, <<Set("u", <<Range4(1, 2)>>)>>, <<>>)>>

-----------------------------------------------------------------------------
Metric(m) == [id |-> m, param |-> NoParam]
Metrics(ids) == [i \in DOMAIN ids |-> IF ids[i] = 12 THEN [id |-> 12, param |-> 2] ELSE Metric(ids[i])]
Asked(id, name, ids) == [id |-> id, name |-> name, metrics |-> Metrics(ids)]

AskA == Asked(1, "a", <<1, 2, 4, 6, 8, 11, 15, 101, 121, 122, 124, 125, 126, 199>>)
AskAFew == Asked(1, "a", <<1, 2, 101, 121, 123>>)
AskRational == Asked(1, "a", <<3, 5, 7, 9, 99, 102, 123, 251>>)
AskB == Asked(2, "b", <<122, 123, 251, 252, 253, 254>>)
AskBFew == Asked(2, "b", <<1, 254, 255>>)
AskNormData == Asked(9, "normData", <<11, 12, 13, 17, 20, 30>>)
AskWrong == [id |-> 9, name |-> "normData", metrics |-> <<Metric(12), Metric(31)>>]
AskNothing == Asked(1, "a", <<>>)
AskNoPieces == [id |-> 9, name |-> "normData", metrics |-> <<Metric(11), [id |-> 12, param |-> 0], Metric(20)>>]
AskNoMetric == Asked(9, "normData", <<>>)

Ok(content) == [state |-> "ok", content |-> content]
Files(src, tar, coco) == [name \in {"src", "tar", "coco"} |->
  CASE name = "src" -> src [] name = "tar" -> tar [] name = "coco" -> coco]

Plain == <<<<"src">>, <<"tar">>, <<"-c">>, <<"coco">>>>
World(argv, src, tar, coco) == [argv |-> argv, files |-> Files(src, tar, coco)]
Comparisons(documents, cocos) ==
  {World(Plain, Ok(s), Ok(t), Ok(c)) : s \in documents, t \in documents, c \in cocos}

ADocument == <<Object(<<A(<<Value("int", <<3>>)>>)>>, <<>>, <<Data(1, "image", <<1, 2, 3>>)>>)>>
ACoco == <<<<AskA, AskB, AskNormData>>>>

\* All documents of a kind with each other.
ByContent ==
  Comparisons(Simple, {<<<<AskA>>>>, <<<<AskRational>>>>}) \cup
  Comparisons(Normed, {<<<<AskNormData>>>>, <<<<AskWrong>>>>, <<<<AskNoPieces>>>>, <<<<AskNoMetric>>>>}) \cup
  Comparisons(Referred, {<<<<AskB, AskAFew>>>>, <<<<AskBFew>>>>}) \cup
  Comparisons({WithoutSets, <<Object(<<B(<<Value("int", <<3>>)>>)>>, <<>>, <<>>)>>}, {<<<<AskB>>>>}) \cup
  Comparisons({Dangled, WithoutSets}, {<<<<AskBFew>>>>}) \cup
  Comparisons({ADocument}, {<<<<AskNothing, AskNormData>>, <<AskA>>>>, <<<<AskA>>, <<AskA, AskB>>>>})

\* All states of the files, with and without validation, and mistaken arguments.
Bad == {[state |-> s, content |-> ADocument] : s \in {"ok", "invalid", "malformed", "missing"}}
BadCoco == {[state |-> s, content |-> ACoco] : s \in {"ok", "malformed", "missing"}} \cup {[state |-> "invalid", content |-> <<>>]}
ByFiles == {World(argv, s, t, c) : argv \in {Plain, Append(Plain, <<"-novalidation">>)}, s \in Bad, t \in Bad, c \in BadCoco}

Arguments == {
  <<>>, <<<<"src">>, <<"tar">>, <<"-nolog">>, <<"-c">>>>, <<<<"src">>, <<"-c">>, <<"coco">>, <<"tar">>>>,
  <<<<"src">>, <<"tar">>, <<"-nolog">>, <<"-novalidation">>>>,
  Plain \o <<<<"-o">>, <<"dir">>, <<"-nolog">>>>, Plain \o <<<<"-outdata">>>>, Plain \o <<<<"-outdata">>, <<"ALL">>>>,
  Plain \o <<<<"-outdata">>, <<"PROPVAL">>>>, Plain \o <<<<"-outdata">>, <<"PROPVAL", "NORMDATA">>>>}
ByArguments ==
  {World(argv, Ok(ADocument), Ok(ADocument), Ok(coco)) :
     argv \in Arguments, coco \in {ACoco, <<<<AskA, AskNoMetric>>>>, <<<<AskNoPieces>>>>}}

MCWorlds == ByContent \cup ByFiles \cup ByArguments
=============================================================================
