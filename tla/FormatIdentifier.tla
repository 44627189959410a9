-------------------------- MODULE FormatIdentifier --------------------------
(***************************************************************************)
(* Which grammar reads which file (FormatIdentifier::identify() and the    *)
(* command line of the extractor).  DROID and ImageMagick are other        *)
(* programs; without a command processor nothing is run, and the output    *)
(* that DROID has left for another file is read.                           *)
(***************************************************************************)
EXTENDS Naturals

CONSTANTS Formats,     \* config.xml: identifier of DROID -> [xcel, command]
          Magick,      \* the grammar for the listing of ImageMagick
          NoGrammar, NoIdentifier

VARIABLES given,       \* the command line: the grammar, and whether the file
          isListing,   \*   is a listing already
          shell,       \* whether there is a command processor
          droidOutput, \* the identifier in DROID_out.xml
          xcelPath, source, extracted,
          identification  \* "open", "droid", "lookup", "done", "exited" or "failed"

identifierVars == <<given, isListing, shell, droidOutput, xcelPath, source, extracted, identification>>

IdentifierInit ==
  /\ given \in {NoGrammar, Magick} \cup {f.xcel : f \in {Formats[i] : i \in DOMAIN Formats}}
  /\ isListing \in BOOLEAN /\ shell \in BOOLEAN
  /\ droidOutput \in DOMAIN Formats \cup {NoIdentifier}
  /\ xcelPath = NoGrammar /\ source = "file" /\ extracted = FALSE /\ identification = "open"

UnchangedWorld == UNCHANGED <<given, isListing, shell>>

(* A call of another program: its result, or nothing without a shell. *)
RunTool(state) ==
  \/ /\ shell /\ source' = "listing" /\ identification' = state
  \/ /\ shell /\ source' = source /\ identification' = "failed"
  \/ /\ ~ shell /\ source' = source /\ identification' = state

(* A grammar that is given is taken; only that for ImageMagick needs a run. *)

TakeGiven ==
  /\ identification = "open"
  /\ given # NoGrammar \/ isListing
  /\ xcelPath' = given
  /\ IF given = Magick /\ ~ isListing THEN RunTool("done")
     ELSE identification' = "done" /\ UNCHANGED source
  /\ UNCHANGED <<droidOutput, extracted>> /\ UnchangedWorld

AskDroid ==
  /\ identification = "open"
  /\ given = NoGrammar /\ ~ isListing
  /\ \/ /\ shell
        /\ \/ /\ \E i \in DOMAIN Formats : droidOutput' = i
              /\ identification' = "lookup"
           \/ /\ droidOutput' = NoIdentifier
              /\ identification' = "exited"
     \/ /\ ~ shell
        /\ identification' = IF droidOutput = NoIdentifier THEN "exited" ELSE "lookup"
        /\ UNCHANGED droidOutput
  /\ UNCHANGED <<xcelPath, source, extracted>> /\ UnchangedWorld

(* The entry of the configuration: a grammar, a grammar for the listing of *)
(* a program, or a program that writes the document itself.                *)
LookUp ==
  /\ identification = "lookup"
  /\ LET f == Formats[droidOutput] IN
     /\ xcelPath' = f.xcel
     /\ IF f.command /\ f.xcel = Magick THEN RunTool("done") /\ UNCHANGED extracted
        ELSE IF f.command /\ f.xcel = NoGrammar /\ shell
        THEN \/ extracted' = TRUE /\ identification' = "done" /\ UNCHANGED source
             \/ identification' = "failed" /\ UNCHANGED <<extracted, source>>
        ELSE identification' = "done" /\ UNCHANGED <<extracted, source>>
  /\ UNCHANGED droidOutput /\ UnchangedWorld

Forget ==
  /\ given' = NoGrammar /\ isListing' = FALSE /\ shell' = TRUE /\ droidOutput' = NoIdentifier
  /\ xcelPath' = NoGrammar /\ source' = "file" /\ extracted' = FALSE /\ identification' = "done"

Identify == TakeGiven \/ AskDroid \/ LookUp
=============================================================================
