------------------------- MODULE XCELPostProcessor -------------------------
(***************************************************************************)
(* The post processor works on the finished parse tree: an instruction     *)
(* names a node and has a list of methods.  Of the methods that can be     *)
(* registered only addFilter(), isEqual() and isNotEqual() answer here;    *)
(* the postprocess() of every other one returns FALSE, which is an         *)
(* exception like any answer FALSE.                                        *)
(***************************************************************************)
EXTENDS ParsingTree

CONSTANTS Inflate(_),   \* the zlib library; <<>> for bytes it cannot read
          Paint(_)      \* the palette filters

(***************************************************************************)
(* XCLDataConverter::filter(): addFilter() gives every filter the value    *)
(* "Mu-Law".  Of the compressions that stands for zlib; the filter of PNG  *)
(* does not know it and throws a pointer, which no handler takes; a filter *)
(* class without selector and a failing filter are exceptions.             *)
(***************************************************************************)
Filtered(bytes, chain) ==
  FoldLeft(LAMBDA c, class :
             IF c.outcome # "ok" THEN c
             ELSE IF class = "pngFilterMethod" THEN [c EXCEPT !.outcome = "terminated"]
             ELSE IF class \notin {"compression", "chunkyPalette"} THEN [c EXCEPT !.outcome = "exception"]
             ELSE IF class = "chunkyPalette" THEN [c EXCEPT !.bytes = Paint(@)]
             ELSE [outcome |-> IF Inflate(c.bytes) = <<>> THEN "exception" ELSE "ok",
                   bytes |-> Inflate(c.bytes)],
           [outcome |-> "ok", bytes |-> bytes], chain)

AllBytes(t, nodes) == FoldLeft(LAMBDA v, n : v \o Bytes(t, n), <<>>, nodes)

(* The symbol that takes the place of the nodes; it goes to the end of the *)
(* root and has the identifier of the first of them.                       *)
FilteredSymbol(t, first, bytes) ==
  [id |-> first.id, parent |-> Root(t).id, isItem |-> FALSE, original |-> first.original,
   name |-> first.name, value |-> bytes, type |-> InterpretationType(t, first),
   newObject |-> FALSE, normDataRelation |-> FALSE, relations |-> <<>>]

(***************************************************************************)
(* addFilter(): a filter of a class the node has already is not added.     *)
(* What goes wrong from here on is printed and forgotten; the chain keeps  *)
(* the filter.                                                             *)
(***************************************************************************)
AddFilter(c, data, class) ==
  LET chain == IF class \in Range(c.chain) THEN c.chain ELSE Append(c.chain, class)
      result == Filtered(AllBytes(c.read, data), chain)
  IN  IF result.outcome = "terminated" THEN [c EXCEPT !.chain = chain, !.outcome = "terminated"]
      ELSE IF result.outcome = "exception" \/ ~ HasValue(c.read, data[1])
           THEN [c EXCEPT !.chain = chain]
           ELSE [c EXCEPT !.chain = chain,
                          !.tree = Append(RemoveExpressions(@, data[1].name),
                                          FilteredSymbol(c.read, data[1], result.bytes))]

(* isEqual() and isNotEqual() both ask whether the values are equal. *)
IsEqual(c, data, value) ==
  IF HasValue(c.read, data[1]) /\ InterpretedValue(c.read, data[1]) = value
  THEN c ELSE [c EXCEPT !.outcome = "exception"]
IsNotEqual(c, data, value) == IsEqual(c, data, value)

(* executeGrammarMethods(), executeFileMethods(): the nodes are collected  *)
(* once, before the first method; the first FALSE is the last method.      *)
CallMethod(c, data, m) ==
  IF c.outcome # "ok" THEN c
  ELSE IF m.method = "addFilter" /\ m.known THEN AddFilter(c, data, m.class)
  ELSE IF m.method = "isEqual" THEN IsEqual(c, data, m.value)
  ELSE IF m.method = "isNotEqual" THEN IsNotEqual(c, data, m.value)
  ELSE [c EXCEPT !.outcome = "exception"]

Execute(t, instruction) ==
  LET data == OrderedData(t, instruction.name)
      methods == instruction.methods
      start == [read |-> t, tree |-> t, chain |-> <<>>, outcome |-> "ok"]
      After[k \in 0 .. Len(methods)] ==
        IF k = 0 THEN start ELSE CallMethod(After[k - 1], data, methods[k])
  IN  IF data = <<>> THEN [start EXCEPT !.outcome = "exception"] ELSE After[Len(methods)]
=============================================================================
