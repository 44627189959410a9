----------------------------- MODULE Extractor -----------------------------
(***************************************************************************)
(* One run of the extractor: the format is identified, the names library   *)
(* is read, the file is parsed in three passes (XCELTreeBuilder::build())  *)
(* and the tree is written as an XCDL document.  What the reader makes of  *)
(* a file is the subject of XCELReader; here it is any tree of Documents,  *)
(* or an exception.                                                        *)
(***************************************************************************)
EXTENDS XCDLDomBuilder, XCELPostProcessor, FormatIdentifier

CONSTANTS Documents,     \* trees the main pass may give
          Instructions,  \* lists of instructions for the post processor
          Libraries,     \* the names libraries: their entries [id, name]
          Ignored        \* the names the configuration ignores

(* What the reader makes of a file is a tree, and no two of its nodes have *)
(* one identifier (generateIDs() numbers them).                            *)
ASSUME DocumentsAssumption ==
  \A t \in Documents : IsTree(t) /\ \A i, j \in DOMAIN t : t[i].id = t[j].id => i = j

ASSUME InstructionsAssumption ==
  \A list \in Instructions :
    /\ list \in Seq(Range(list))
    /\ \A x \in Range(list) : x.methods \in Seq(Range(x.methods))

VARIABLES phase,         \* "identify", "configure", "pre", "main", "post", "translate", "ended"
          reader,        \* whether the pointer has been assigned
          instructions,
          outcome        \* "none", "nothing", "failed", "crashed" or "written"

passVars == <<phase, reader, instructions, outcome>>
vars == <<treeVars, domVars, identifierVars, passVars>>

(* NamesLibXMLParser: an entry is taken unless its id has been met before. *)
Library ==
  LET Add(entries, e) == IF \E f \in Range(entries) : f.id = e.id THEN entries ELSE Append(entries, e)
      entries == FoldLeft(Add, <<>>, FlattenSeq(Libraries))
  IN  [i \in DOMAIN entries |-> entries[i].name]

(* XCDLWriterFactory::removeIgnoredProperties(): the index goes on after a *)
(* removal, so that a name behind an ignored one is not looked at.         *)
RemoveIgnored(names, word) ==
  LET Loop(c, k) ==
        IF c.i > Len(c.names) THEN c
        ELSE IF c.names[c.i] = word THEN [names |-> RemoveAt(c.names, c.i), i |-> c.i + 1]
        ELSE [c EXCEPT !.i = @ + 1]
  IN  FoldLeft(Loop, [names |-> names, i |-> 1], [k \in DOMAIN names |-> k]).names

Init ==
  /\ IdentifierInit
  /\ TreeInit(<<>>, <<>>)
  /\ DomInit
  /\ phase = "identify" /\ reader = FALSE /\ outcome = "none" /\ instructions = <<>>

End(result) == phase' = "ended" /\ outcome' = result

IdentifyFormat ==
  /\ phase = "identify" /\ Identify
  /\ UNCHANGED <<treeVars, domVars, passVars>>

(* main(), 246: nothing is extracted without a grammar, or again.  What    *)
(* the identification was about is not read any more and is forgotten.     *)
Configure ==
  /\ phase = "identify" /\ identification = "done"
  /\ xcelPath # NoGrammar /\ ~ extracted
  /\ definedProperties' = FoldLeft(RemoveIgnored, Library, Ignored)
  /\ phase' = "configure"
  /\ Forget
  /\ UNCHANGED <<parseTree, objects, object, fileObjects, creation, domVars, reader,
                 instructions, outcome>>

Stop ==
  /\ phase = "identify"
  /\ \/ identification = "done" /\ (xcelPath = NoGrammar \/ extracted) /\ End("nothing")
     \/ identification = "exited" /\ End("nothing")
     \/ identification = "failed" /\ End("failed")
  /\ UNCHANGED <<treeVars, domVars, identifierVars, reader, instructions>>

(* build(), 89-114: the XCEL document is validated and read. *)
BuildGrammars ==
  /\ phase = "configure"
  /\ \/ phase' = "pre" /\ instructions' \in Instructions /\ UNCHANGED outcome
     \/ End("failed") /\ UNCHANGED instructions
  /\ UNCHANGED <<treeVars, domVars, identifierVars, reader>>

(* build(), 156-169: the exception of the first pass is printed only; the  *)
(* pointer to the reader is assigned by the call that has thrown.          *)
Preprocess ==
  /\ phase = "pre"
  /\ phase' = "main" /\ reader' \in BOOLEAN
  /\ UNCHANGED <<treeVars, domVars, identifierVars, instructions, outcome>>

(* build(), 172-197: an exception out of range is the end of the file and  *)
(* the tree has what was read; any other ends the extraction.              *)
Mainprocess ==
  /\ phase = "main"
  /\ \/ /\ reader
        /\ \E t \in Documents : parseTree' = GenerateIDs(t)
        /\ phase' = "post" /\ UNCHANGED outcome
     \/ /\ reader /\ End("failed") /\ UNCHANGED parseTree
     \/ /\ ~ reader /\ End("crashed") /\ UNCHANGED parseTree
  /\ UNCHANGED <<definedProperties, objects, object, fileObjects, creation, domVars,
                 identifierVars, reader, instructions>>

(* build(), 199-208: an exception ends the post processing, nothing else. *)
Postprocess ==
  /\ phase = "post" /\ instructions # <<>>
  /\ \E c \in {Execute(parseTree, Head(instructions))} :
       /\ parseTree' = c.tree
       /\ instructions' = IF c.outcome = "ok" THEN Tail(instructions) ELSE <<>>
       /\ IF c.outcome = "terminated" THEN End("crashed") ELSE UNCHANGED <<phase, outcome>>
  /\ UNCHANGED <<definedProperties, objects, object, fileObjects, creation, domVars,
                 identifierVars, reader>>

Translation ==
  /\ phase = "post" /\ instructions = <<>>
  /\ phase' = "translate"
  /\ UNCHANGED <<treeVars, domVars, identifierVars, reader, instructions, outcome>>

Create == phase = "translate" /\ (Begin \/ CreateObject \/ CreateMain \/ ChooseMain)
          /\ UNCHANGED <<domVars, identifierVars, passVars>>
Write  == phase = "translate" /\ (WriteMain \/ WriteFileObject \/ WriteEnd)
          /\ UNCHANGED <<identifierVars, passVars>>

Finish ==
  /\ phase = "translate" /\ creation \in {"failed", "crashed", "written"}
  /\ End(creation)
  /\ UNCHANGED <<treeVars, domVars, identifierVars, reader, instructions>>

Next == \/ IdentifyFormat \/ Configure \/ Stop \/ BuildGrammars \/ Preprocess \/ Mainprocess
        \/ Postprocess \/ Translation \/ Create \/ Write \/ Finish

Spec == Init /\ [][Next]_vars
=============================================================================
