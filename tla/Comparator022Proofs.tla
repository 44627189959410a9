------------------------- MODULE Comparator022Proofs -------------------------
(***************************************************************************)
(* Two proofs about the older comparator, for all arguments, requests and  *)
(* documents: that it writes one whole report (ReportIsWholeCorrect), and  *)
(* that it ends early only for a reason (EndsEarlyForReasonCorrect).       *)
(***************************************************************************)
EXTENDS Comparator022Properties, CollectionsProofs, FiniteSetTheorems, SequenceTheorems, TLAPS

-----------------------------------------------------------------------------
(***************************************************************************)
(* Lists of parts                                                          *)
(***************************************************************************)
IsList(list) == \E S : list \in Seq(S)

\* A list with one part more.
LEMMA AppendFacts ==
  ASSUME NEW list, IsList(list), NEW part
  PROVE  /\ IsList(Append(list, part)) /\ Append(list, part) # list
         /\ Len(list) \in Nat /\ Len(Append(list, part)) = Len(list) + 1
         /\ Append(list, part)[Len(list) + 1] = part
         /\ \A i \in 1 .. Len(list) : Append(list, part)[i] = list[i]
<1>1. PICK S : list \in Seq(S)
  BY DEF IsList
<1>. DEFINE T == S \cup {part}
<1>2. list \in Seq(T) /\ part \in T
  BY <1>1
<1>. HIDE DEF T
<1>3. Append(list, part) \in Seq(T)
  BY <1>2
<1>4. /\ Len(list) \in Nat /\ Len(Append(list, part)) = Len(list) + 1
      /\ Append(list, part)[Len(list) + 1] = part
      /\ \A i \in 1 .. Len(list) : Append(list, part)[i] = list[i]
  BY <1>2
<1>5. Append(list, part) # list
  BY <1>4
<1>. QED
  BY <1>3, <1>4, <1>5 DEF IsList

-----------------------------------------------------------------------------
(***************************************************************************)
(* The inductive invariant.  ReportIsWhole does not say what the report    *)
(* may be made of while it is written: comparison sets with the numbers of *)
(* targets that are done.  And that there is one file only rests on the    *)
(* flag: there is none before it is set, and the one that outDir names     *)
(* afterwards.                                                             *)
(***************************************************************************)
\* A report with comparison sets up to the n-th.
Growing(file, n, p) ==
  /\ IsList(file) /\ Len(file) >= 1 /\ file[1] = Frame
  /\ \A i \in 2 .. Len(file) :
       /\ file[i].tag = "compSet" /\ file[i].id \in 0 .. n
       /\ file[i].id # 0 => file[i].source = p.sourceXCDL /\ file[i].target = p.targetXCDLs[file[i].id]
  /\ \A i, j \in 2 .. Len(file) : i < j => file[i].id < file[j].id

\* ... and one that is done.
Whole(file, p) ==
  /\ IsList(file) /\ Len(file) >= 2 /\ file[1] = Frame /\ file[Len(file)] = EndTag
  /\ \A i \in 2 .. Len(file) - 1 :
       /\ file[i].tag \in {"compSet", "error"}
       /\ (file[i].tag = "compSet" /\ file[i].id # 0) =>
            file[i].source = p.sourceXCDL /\ file[i].target = p.targetXCDLs[file[i].id]
  /\ \A i, j \in 2 .. Len(file) - 1 :
       i < j => file[i].tag = "compSet" /\ file[j].tag = "compSet" /\ file[i].id < file[j].id

IsParams(p) ==
  /\ DOMAIN p = DOMAIN NewInputParams
  /\ p.compsetCount \in Nat /\ IsList(p.outDir) /\ p.outFlag \in BOOLEAN
  /\ p.compsetCount > 0 => p.targetXCDL = p.targetXCDLs[p.compsetCount]

Early == {"arguments", "files", "validation", "request"}
Late  == {"pairs", "source", "closing", "exited", "crashed"}

\* The pairs that may be in the report already.
Reported == IF stage = "source" THEN pInputParams.compsetCount - 1 ELSE pInputParams.compsetCount

ReportInv ==
  /\ stage \in Early \cup Late \cup {"done"}
  /\ IsParams(pInputParams)
  /\ stage \in Early => DOMAIN cpr = {} /\ ~pInputParams.outFlag /\ pInputParams.compsetCount = 0
  /\ stage \in Late =>
       /\ DOMAIN cpr = IF pInputParams.outFlag THEN {pInputParams.outDir} ELSE {}
       /\ \A path \in DOMAIN cpr : Growing(cpr[path], Reported, pInputParams)
  /\ stage = "done" =>
       /\ \E path : DOMAIN cpr \subseteq {path}
       /\ \A path \in DOMAIN cpr : Whole(cpr[path], pInputParams)

-----------------------------------------------------------------------------
\* The frame is made once, and then outDir names the file.
LEMMA FramedFacts ==
  ASSUME NEW p, IsParams(p)
  PROVE  /\ IsParams(Framed(p)) /\ Framed(p).outFlag = TRUE
         /\ p.outFlag => Framed(p) = p
         /\ ~p.outFlag => Framed(p).outDir # p.outDir
         /\ Framed(p).sourceXCDL = p.sourceXCDL /\ Framed(p).targetXCDLs = p.targetXCDLs
         /\ Framed(p).compsetCount = p.compsetCount /\ Framed(p).targetXCDL = p.targetXCDL
<1>1. CASE p.outFlag
  BY <1>1 DEF Framed, IsParams
<1>2. CASE ~p.outFlag
  <2>1. DOMAIN p = {"sourceXCDL", "targetXCDLs", "PCRFile", "outDir", "outFlag",
                    "compsetCount", "targetXCDL"}
    BY DEF IsParams, NewInputParams
  <2>2. Framed(p) = [p EXCEPT !.outFlag = TRUE, !.outDir = Append(p.outDir, CprName)]
    BY <1>2 DEF Framed
  <2>3. /\ DOMAIN Framed(p) = DOMAIN p
        /\ Framed(p).outFlag = TRUE /\ Framed(p).outDir = Append(p.outDir, CprName)
        /\ Framed(p).sourceXCDL = p.sourceXCDL /\ Framed(p).targetXCDLs = p.targetXCDLs
        /\ Framed(p).compsetCount = p.compsetCount /\ Framed(p).targetXCDL = p.targetXCDL
    BY <2>1, <2>2
  <2>4. IsList(Append(p.outDir, CprName)) /\ Append(p.outDir, CprName) # p.outDir
    BY AppendFacts DEF IsParams
  <2>. QED
    BY <1>2, <2>3, <2>4 DEF IsParams
<1>. QED
  BY <1>1, <1>2

\* A report that is but a frame.
LEMMA FrameGrows ==
  ASSUME NEW n, NEW p
  PROVE  Growing(<<Frame>>, n, p)
<1>1. IsList(<<Frame>>)
  <2>1. <<Frame>> \in Seq({Frame})
    OBVIOUS
  <2>. QED
    BY <2>1 DEF IsList
<1>2. Len(<<Frame>>) = 1 /\ <<Frame>>[1] = Frame
  OBVIOUS
<1>3. \A i : i \notin 2 .. Len(<<Frame>>)
  BY <1>2
<1>. QED
  BY <1>1, <1>2, <1>3 DEF Growing

\* Only the source and the targets of the parameters matter to a report.
LEMMA SameReport ==
  ASSUME NEW file, NEW n, NEW p, NEW q, p.sourceXCDL = q.sourceXCDL, p.targetXCDLs = q.targetXCDLs
  PROVE  Growing(file, n, p) => Growing(file, n, q)
BY DEF Growing

\* A report with a comparison set more.
LEMMA ReportGrows ==
  ASSUME NEW file, NEW n \in Nat, NEW p, Growing(file, n - 1, p),
         NEW part, part.tag = "compSet", part.id = n,
         n # 0 => part.source = p.sourceXCDL /\ part.target = p.targetXCDLs[n]
  PROVE  Growing(Append(file, part), n, p)
<1>. DEFINE longer == Append(file, part)
            m == Len(file)
<1>1. /\ IsList(longer) /\ m \in Nat /\ Len(longer) = m + 1
      /\ longer[m + 1] = part /\ \A i \in 1 .. m : longer[i] = file[i]
  BY AppendFacts DEF Growing
<1>2. /\ m >= 1 /\ file[1] = Frame
      /\ \A i \in 2 .. m :
           /\ file[i].tag = "compSet" /\ file[i].id \in 0 .. n - 1
           /\ file[i].id # 0 => file[i].source = p.sourceXCDL /\ file[i].target = p.targetXCDLs[file[i].id]
      /\ \A i, j \in 2 .. m : i < j => file[i].id < file[j].id
  BY DEF Growing
<1>. HIDE DEF longer, m
<1>3. Len(longer) >= 1 /\ longer[1] = Frame
  BY <1>1, <1>2
<1>4. \A i \in 2 .. m : longer[i] = file[i]
  BY <1>1
<1>5. ASSUME NEW i \in 2 .. Len(longer)
      PROVE  /\ longer[i].tag = "compSet" /\ longer[i].id \in 0 .. n
             /\ longer[i].id # 0 =>
                  longer[i].source = p.sourceXCDL /\ longer[i].target = p.targetXCDLs[longer[i].id]
  <2>1. CASE i = m + 1
    BY <1>1, <2>1
  <2>2. CASE i # m + 1
    <3>1. i \in 2 .. m
      BY <1>1, <2>2
    <3>2. longer[i] = file[i] /\ file[i].id \in 0 .. n
      BY <1>2, <1>4, <3>1
    <3>. QED
      BY <1>2, <3>1, <3>2
  <2>. QED
    BY <2>1, <2>2
<1>6. ASSUME NEW i \in 2 .. Len(longer), NEW j \in 2 .. Len(longer), i < j
      PROVE  longer[i].id < longer[j].id
  <2>1. i \in 2 .. m /\ longer[i] = file[i]
    BY <1>1, <1>4, <1>6
  <2>2. CASE j = m + 1
    BY <1>1, <1>2, <2>1, <2>2
  <2>3. CASE j # m + 1
    <3>1. j \in 2 .. m /\ longer[j] = file[j]
      BY <1>1, <1>4, <2>3
    <3>. QED
      BY <1>2, <1>6, <2>1, <3>1
  <2>. QED
    BY <2>2, <2>3
<1>7. IsList(longer)
  BY <1>1
<1>8. Growing(longer, n, p)
  BY <1>3, <1>5, <1>6, <1>7 DEF Growing
<1>. QED
  BY <1>8 DEF longer

\* A report that may hold more pairs than it does.
LEMMA GrowsFurther ==
  ASSUME NEW file, NEW n \in Nat, NEW p, Growing(file, n - 1, p)
  PROVE  Growing(file, n, p)
<1>1. \A k : k \in 0 .. n - 1 => k \in 0 .. n
  OBVIOUS
<1>. QED
  BY <1>1 DEF Growing

\* A report is closed.
LEMMA ReportCloses ==
  ASSUME NEW file, NEW n, NEW p, Growing(file, n, p)
  PROVE  Whole(Append(file, EndTag), p)
<1>. DEFINE longer == Append(file, EndTag)
            m == Len(file)
<1>1. /\ IsList(longer) /\ m \in Nat /\ Len(longer) = m + 1
      /\ longer[m + 1] = EndTag /\ \A i \in 1 .. m : longer[i] = file[i]
  BY AppendFacts DEF Growing
<1>2. /\ m >= 1 /\ file[1] = Frame
      /\ \A i \in 2 .. m :
           /\ file[i].tag = "compSet"
           /\ file[i].id # 0 => file[i].source = p.sourceXCDL /\ file[i].target = p.targetXCDLs[file[i].id]
      /\ \A i, j \in 2 .. m : i < j => file[i].id < file[j].id
  BY DEF Growing
<1>. HIDE DEF longer, m
<1>3. Len(longer) >= 2 /\ longer[1] = Frame /\ longer[Len(longer)] = EndTag /\ Len(longer) - 1 = m
  BY <1>1, <1>2
<1>4. \A i \in 2 .. m : longer[i] = file[i]
  BY <1>1
<1>5. IsList(longer)
  BY <1>1
<1>6. \A i \in 2 .. Len(longer) - 1 :
        /\ longer[i].tag = "compSet"
        /\ longer[i].id # 0 =>
             longer[i].source = p.sourceXCDL /\ longer[i].target = p.targetXCDLs[longer[i].id]
  BY <1>2, <1>3, <1>4
<1>7. \A i, j \in 2 .. Len(longer) - 1 : i < j => longer[i].id < longer[j].id
  BY <1>2, <1>3, <1>4
<1>8. Whole(longer, p)
  BY <1>3, <1>5, <1>6, <1>7 DEF Whole
<1>. QED
  BY <1>8 DEF longer

\* The report of an error is whole.
LEMMA ErrorIsWhole ==
  ASSUME NEW p
  PROVE  Whole(ErrorReport, p)
<1>1. /\ ErrorReport \in Seq({Frame, ErrorTag, EndTag}) /\ Len(ErrorReport) = 3
      /\ ErrorReport[1] = Frame /\ ErrorReport[2] = ErrorTag /\ ErrorReport[3] = EndTag
  BY DEF ErrorReport
<1>2. ErrorTag.tag = "error"
  BY DEF ErrorTag
<1>3. IsList(ErrorReport)
  BY <1>1 DEF IsList
<1>. HIDE DEF ErrorReport
<1>4. \A i \in 2 .. Len(ErrorReport) - 1 : i = 2
  BY <1>1
<1>. QED
  BY <1>1, <1>2, <1>3, <1>4 DEF Whole

-----------------------------------------------------------------------------
(***************************************************************************)
(* The files that are written                                              *)
(***************************************************************************)
\* The report is one file with a frame, whether it was there before or not.
LEMMA FramedFilesFacts ==
  ASSUME IsParams(pInputParams), NEW n,
         DOMAIN cpr = IF pInputParams.outFlag THEN {pInputParams.outDir} ELSE {},
         \A path \in DOMAIN cpr : Growing(cpr[path], n, pInputParams)
  PROVE  /\ DOMAIN FramedFiles(pInputParams) = {Framed(pInputParams).outDir}
         /\ Growing(FramedFiles(pInputParams)[Framed(pInputParams).outDir], n, pInputParams)
<1>. DEFINE q == Framed(pInputParams)
            files == FramedFiles(pInputParams)
<1>1. CASE pInputParams.outFlag
  <2>1. q = pInputParams /\ files = cpr
    BY <1>1, FramedFacts DEF FramedFiles
  <2>. QED
    BY <1>1, <2>1
<1>2. CASE ~pInputParams.outFlag
  <2>1. files = Written(q.outDir, <<Frame>>)
    BY <1>2, FramedFacts DEF FramedFiles
  <2>2. DOMAIN files = {q.outDir} /\ files[q.outDir] = <<Frame>>
    <3>. DEFINE path == q.outDir
    <3>1. DOMAIN cpr = {} /\ files = Written(path, <<Frame>>)
      BY <1>2, <2>1
    <3>. HIDE DEF path, files
    <3>2. DOMAIN files = {path} /\ files[path] = <<Frame>>
      BY <3>1 DEF Written
    <3>. QED
      BY <3>2 DEF path
  <2>. QED
    BY <2>2, FrameGrows
<1>. QED
  BY <1>1, <1>2

\* A part more in the only file.
LEMMA AppendedFacts ==
  ASSUME NEW files, NEW path, NEW part, DOMAIN files \subseteq {path}
  PROVE  /\ DOMAIN Appended(files, path, part) = DOMAIN files
         /\ \A f \in DOMAIN files : Appended(files, path, part)[f] = Append(files[f], part)
<1>1. CASE path \in DOMAIN files
  <2>1. Appended(files, path, part) = [files EXCEPT ![path] = Append(files[path], part)]
    BY <1>1 DEF Appended
  <2>. QED
    BY <1>1, <2>1
<1>2. CASE path \notin DOMAIN files
  BY <1>2 DEF Appended
<1>. QED
  BY <1>1, <1>2

\* The comparison set of the next pair is added to the report.
LEMMA ReportedPair ==
  ASSUME IsParams(pInputParams), NEW n, n = pInputParams.compsetCount,
         DOMAIN cpr = IF pInputParams.outFlag THEN {pInputParams.outDir} ELSE {},
         \A path \in DOMAIN cpr : Growing(cpr[path], n - 1, pInputParams),
         NEW part, part.tag = "compSet", part.id = n,
         part.source = pInputParams.sourceXCDL, part.target = pInputParams.targetXCDL,
         pInputParams' = Framed(pInputParams),
         cpr' = Appended(FramedFiles(pInputParams), pInputParams'.outDir, part)
  PROVE  /\ IsParams(pInputParams)' /\ pInputParams'.outFlag = TRUE
         /\ pInputParams'.compsetCount = n
         /\ DOMAIN cpr' = {pInputParams'.outDir}
         /\ \A path \in DOMAIN cpr' : Growing(cpr'[path], n, pInputParams')
<1>. DEFINE q == Framed(pInputParams)
            files == FramedFiles(pInputParams)
<1>1. /\ IsParams(q) /\ q.outFlag = TRUE /\ q.compsetCount = n
      /\ q.sourceXCDL = pInputParams.sourceXCDL /\ q.targetXCDLs = pInputParams.targetXCDLs
  BY FramedFacts
<1>2. DOMAIN files = {q.outDir} /\ Growing(files[q.outDir], n - 1, pInputParams)
  BY FramedFilesFacts
<1>3. n \in Nat /\ (n # 0 => pInputParams.targetXCDL = pInputParams.targetXCDLs[n])
  BY DEF IsParams
<1>4. Growing(Append(files[q.outDir], part), n, pInputParams)
  <2>. HIDE DEF files, q
  <2>. QED
    BY <1>2, <1>3, ReportGrows
<1>5. Growing(Append(files[q.outDir], part), n, q)
  <2>. HIDE DEF files, q
  <2>. QED
    BY <1>1, <1>4, SameReport
<1>. HIDE DEF files, q
<1>6. cpr' = Appended(files, q.outDir, part) /\ pInputParams' = q
  BY DEF files, q
<1>7. DOMAIN cpr' = {q.outDir} /\ cpr'[q.outDir] = Append(files[q.outDir], part)
  BY <1>2, <1>6, AppendedFacts
<1>8. IsParams(pInputParams)'
  BY <1>1, <1>6 DEF IsParams
<1>. QED
  BY <1>1, <1>5, <1>6, <1>7, <1>8

-----------------------------------------------------------------------------
(***************************************************************************)
(* The steps                                                               *)
(***************************************************************************)
\* A step that writes nothing while the source is read.
LEMMA ReadingKeepsReport ==
  ASSUME ReportInv, UNCHANGED <<pInputParams, cpr>>,
         \/ stage' = stage
         \/ stage = "source" /\ stage' \in {"pairs", "crashed", "exited"}
  PROVE  ReportInv'
<1>1. CASE stage' = stage
  <2>1. Reported' = Reported /\ cpr' = cpr /\ pInputParams' = pInputParams
    BY <1>1 DEF Reported
  <2>2. IsParams(pInputParams')
    BY <2>1 DEF ReportInv
  <2>3. stage' \in Late =>
          /\ DOMAIN cpr' = IF pInputParams'.outFlag THEN {pInputParams'.outDir} ELSE {}
          /\ \A path \in DOMAIN cpr' : Growing(cpr'[path], Reported', pInputParams')
    BY <1>1, <2>1 DEF ReportInv
  <2>4. stage' = "done" =>
          /\ \E path : DOMAIN cpr' \subseteq {path}
          /\ \A path \in DOMAIN cpr' : Whole(cpr'[path], pInputParams')
    BY <1>1, <2>1 DEF ReportInv
  <2>. QED
    BY <1>1, <2>1, <2>2, <2>3, <2>4 DEF ReportInv, IsParams
<1>2. CASE stage = "source" /\ stage' \in {"pairs", "crashed", "exited"}
  <2>1. IsParams(pInputParams) /\ IsParams(pInputParams)' /\ pInputParams.compsetCount \in Nat
    BY DEF ReportInv, IsParams
  <2>2. /\ stage \in Late /\ stage' \in Late /\ stage' \notin Early /\ stage' # "done"
        /\ Reported = pInputParams.compsetCount - 1 /\ Reported' = pInputParams.compsetCount
    BY <1>2 DEF Late, Early, Reported
  <2>3. /\ DOMAIN cpr = IF pInputParams.outFlag THEN {pInputParams.outDir} ELSE {}
        /\ \A path \in DOMAIN cpr : Growing(cpr[path], pInputParams.compsetCount - 1, pInputParams)
    BY <2>2 DEF ReportInv
  <2>4. \A path \in DOMAIN cpr : Growing(cpr[path], pInputParams.compsetCount, pInputParams)
    BY <2>1, <2>3, GrowsFurther
  <2>5. \A path \in DOMAIN cpr' : Growing(cpr'[path], Reported', pInputParams')
    BY <2>2, <2>4
  <2>. QED
    BY <2>1, <2>2, <2>3, <2>5 DEF ReportInv
<1>. QED
  BY <1>1, <1>2

\* main(): mistaken arguments.
LEMMA ParseArgumentsKeeps ==
  ASSUME ReportInv, stage = "arguments" => pInputParams = NewInputParams, ParseArguments
  PROVE  ReportInv'
<1>1. DOMAIN cpr = {} /\ stage = "arguments" /\ IsParams(pInputParams) /\ pInputParams = NewInputParams
  BY DEF ReportInv, ParseArguments, Early
<1>2. CASE WellFormed(world.argv)
  <2>1. pInputParams' = parseArgs(world.argv) /\ stage' = "files" /\ cpr' = cpr
    BY <1>2 DEF ParseArguments
  <2>2. \E src, tars, tar, pcr, dir :
          pInputParams' = [NewInputParams EXCEPT
             !.sourceXCDL = src, !.targetXCDLs = tars, !.targetXCDL = tar,
             !.PCRFile = pcr, !.outDir = IF dir = NULL THEN <<>> ELSE <<dir>>]
    BY <2>1 DEF parseArgs
  <2>3. PICK src, tars, tar, pcr, dir :
          pInputParams' = [NewInputParams EXCEPT
             !.sourceXCDL = src, !.targetXCDLs = tars, !.targetXCDL = tar,
             !.PCRFile = pcr, !.outDir = IF dir = NULL THEN <<>> ELSE <<dir>>]
    BY <2>2
  <2>. DEFINE out == IF dir = NULL THEN <<>> ELSE <<dir>>
  <2>4. IsList(out)
    <3>1. <<>> \in Seq({dir}) /\ <<dir>> \in Seq({dir})
      OBVIOUS
    <3>2. out = <<>> \/ out = <<dir>>
      OBVIOUS
    <3>. HIDE DEF out
    <3>. QED
      BY <3>1, <3>2 DEF IsList
  <2>. HIDE DEF out
  <2>5. pInputParams' = [NewInputParams EXCEPT
             !.sourceXCDL = src, !.targetXCDLs = tars, !.targetXCDL = tar,
             !.PCRFile = pcr, !.outDir = out]
    BY <2>3 DEF out
  <2>6. /\ DOMAIN pInputParams' = DOMAIN NewInputParams
        /\ pInputParams'.compsetCount = 0 /\ pInputParams'.outFlag = FALSE
        /\ pInputParams'.outDir = out
    BY <2>5 DEF NewInputParams
  <2>7. IsParams(pInputParams)'
    <3>1. DOMAIN pInputParams' = DOMAIN NewInputParams /\ IsList(pInputParams'.outDir)
      BY <2>4, <2>6
    <3>2. pInputParams'.compsetCount \in Nat /\ ~(pInputParams'.compsetCount > 0)
      BY <2>6
    <3>3. pInputParams'.outFlag \in BOOLEAN
      BY <2>6, Zenon
    <3>. QED
      BY <3>1, <3>2, <3>3 DEF IsParams
  <2>. QED
    BY <1>1, <2>1, <2>6, <2>7 DEF ReportInv, Early, Late
<1>3. CASE ~WellFormed(world.argv)
  <2>1. cpr' = Written(<<CprName>>, ErrorReport) /\ stage' = "done" /\ pInputParams' = pInputParams
    BY <1>3 DEF ParseArguments
  <2>2. DOMAIN cpr' = {<<CprName>>} /\ cpr'[<<CprName>>] = ErrorReport
    BY <1>1, <2>1 DEF Written
  <2>3. \A path \in DOMAIN cpr' : Whole(cpr'[path], pInputParams')
    BY <2>2, ErrorIsWhole
  <2>4. IsParams(pInputParams)'
    BY <1>1, <2>1 DEF IsParams
  <2>. QED
    BY <2>1, <2>2, <2>3, <2>4 DEF ReportInv, Early, Late
<1>. QED
  BY <1>2, <1>3

\* A file that is missing or invalid is the whole report.
LEMMA RequireKeeps ==
  ASSUME ReportInv, stage \in {"files", "validation"}, NEW state, NEW next \in Early,
         Require(state, next)
  PROVE  ReportInv'
<1>1. DOMAIN cpr = {} /\ IsParams(pInputParams) /\ stage \in Early
      /\ ~pInputParams.outFlag /\ pInputParams.compsetCount = 0
  BY DEF ReportInv, Early
<1>2. CASE stage' = "done" /\ WriteErrorReport
  <2>1. pInputParams' = Framed(pInputParams) /\ cpr' = Written(pInputParams'.outDir, ErrorReport)
    BY <1>2 DEF WriteErrorReport
  <2>2. DOMAIN cpr' = {pInputParams'.outDir} /\ cpr'[pInputParams'.outDir] = ErrorReport
    <3>. DEFINE path == pInputParams'.outDir
    <3>1. cpr' = Written(path, ErrorReport)
      BY <2>1
    <3>. HIDE DEF path
    <3>2. DOMAIN cpr' = {path} /\ cpr'[path] = ErrorReport
      BY <1>1, <3>1 DEF Written
    <3>. QED
      BY <3>2 DEF path
  <2>3. \A path \in DOMAIN cpr' : Whole(cpr'[path], pInputParams')
    BY <2>2, ErrorIsWhole
  <2>4. IsParams(pInputParams)'
    BY <1>1, <2>1, FramedFacts DEF IsParams
  <2>. QED
    BY <1>2, <2>2, <2>3, <2>4 DEF ReportInv, Early, Late
<1>3. CASE stage' = next /\ UNCHANGED <<pInputParams, cpr>>
  <2>1. IsParams(pInputParams)'
    BY <1>1, <1>3 DEF IsParams
  <2>2. stage' \notin Late /\ stage' # "done"
    BY <1>3 DEF Early, Late
  <2>. QED
    BY <1>1, <1>3, <2>1, <2>2 DEF ReportInv
<1>. QED
  BY <1>2, <1>3 DEF Require

\* A request that does not fit the targets is the first and last part of the report.
LEMMA LoadRequestKeeps ==
  ASSUME ReportInv, LoadRequest
  PROVE  ReportInv'
<1>1. DOMAIN cpr = {} /\ IsParams(pInputParams) /\ stage = "request"
      /\ ~pInputParams.outFlag /\ pInputParams.compsetCount = 0
  BY DEF ReportInv, Early, LoadRequest
<1>2. CASE stage' = "pairs" /\ UNCHANGED <<pInputParams, cpr>>
  <2>1. IsParams(pInputParams)'
    BY <1>1, <1>2 DEF IsParams
  <2>. QED
    BY <1>1, <1>2, <2>1 DEF ReportInv, Early, Late
<1>. DEFINE part == [tag |-> "compSet", id |-> pInputParams.compsetCount,
                     source |-> pInputParams.sourceXCDL, target |-> pInputParams.targetXCDL,
                     properties |-> <<ErrorTag>>]
<1>3. CASE /\ stage' = "closing" /\ pInputParams' = Framed(pInputParams)
           /\ cpr' = Appended(FramedFiles(pInputParams), pInputParams'.outDir, part)
  <2>1. /\ part.tag = "compSet" /\ part.id = pInputParams.compsetCount
        /\ part.source = pInputParams.sourceXCDL /\ part.target = pInputParams.targetXCDL
    OBVIOUS
  <2>. HIDE DEF part
  <2>2. /\ IsParams(pInputParams)' /\ pInputParams'.outFlag = TRUE
        /\ pInputParams'.compsetCount = pInputParams.compsetCount
        /\ DOMAIN cpr' = {pInputParams'.outDir}
        /\ \A path \in DOMAIN cpr' : Growing(cpr'[path], pInputParams.compsetCount, pInputParams')
    BY <1>1, <1>3, <2>1, ReportedPair
  <2>. QED
    BY <1>3, <2>2 DEF ReportInv, Early, Late, Reported
<1>. QED
  BY <1>2, <1>3 DEF LoadRequest

\* The next pair has the next number.
LEMMA BeginPairKeeps ==
  ASSUME ReportInv, BeginPair
  PROVE  ReportInv'
<1>. DEFINE n == pInputParams.compsetCount + 1
<1>1. /\ stage = "pairs" /\ stage' = "source" /\ cpr' = cpr
      /\ pInputParams' = [pInputParams EXCEPT !.compsetCount = n,
                                              !.targetXCDL = pInputParams.targetXCDLs[n]]
  BY DEF BeginPair
<1>2. /\ IsParams(pInputParams) /\ Reported = pInputParams.compsetCount
      /\ DOMAIN cpr = IF pInputParams.outFlag THEN {pInputParams.outDir} ELSE {}
      /\ \A path \in DOMAIN cpr : Growing(cpr[path], Reported, pInputParams)
  BY <1>1 DEF ReportInv, Late, Reported
<1>3. /\ DOMAIN pInputParams = {"sourceXCDL", "targetXCDLs", "PCRFile", "outDir", "outFlag",
                                "compsetCount", "targetXCDL"}
      /\ pInputParams.compsetCount \in Nat
  BY <1>2 DEF IsParams, NewInputParams
<1>4. n \in Nat /\ n - 1 = pInputParams.compsetCount
  BY <1>3
<1>. HIDE DEF n
<1>5. /\ DOMAIN pInputParams' = DOMAIN pInputParams
      /\ pInputParams'.compsetCount = n /\ pInputParams'.targetXCDL = pInputParams.targetXCDLs[n]
      /\ pInputParams'.sourceXCDL = pInputParams.sourceXCDL
      /\ pInputParams'.targetXCDLs = pInputParams.targetXCDLs
      /\ pInputParams'.outDir = pInputParams.outDir /\ pInputParams'.outFlag = pInputParams.outFlag
  BY <1>1, <1>3
<1>6. IsParams(pInputParams)'
  BY <1>2, <1>4, <1>5 DEF IsParams
<1>7. Reported' = Reported
  BY <1>1, <1>2, <1>4, <1>5 DEF Reported
<1>8. \A path \in DOMAIN cpr' : Growing(cpr'[path], Reported', pInputParams')
  BY <1>1, <1>2, <1>5, <1>7, SameReport
<1>. QED
  BY <1>1, <1>2, <1>5, <1>6, <1>8 DEF ReportInv, Early, Late

\* createCPROutputEnd()
LEMMA CloseReportKeeps ==
  ASSUME ReportInv, CloseReport
  PROVE  ReportInv'
<1>1. /\ stage = "closing" /\ stage' = "done" /\ pInputParams' = pInputParams
      /\ cpr' = Appended(cpr, pInputParams.outDir, EndTag)
  BY DEF CloseReport
<1>2. /\ IsParams(pInputParams)
      /\ DOMAIN cpr \subseteq {pInputParams.outDir}
      /\ \A path \in DOMAIN cpr : Growing(cpr[path], Reported, pInputParams)
  BY <1>1 DEF ReportInv, Late
<1>3. /\ DOMAIN cpr' = DOMAIN cpr
      /\ \A path \in DOMAIN cpr : cpr'[path] = Append(cpr[path], EndTag)
  BY <1>1, <1>2, AppendedFacts
<1>4. \A path \in DOMAIN cpr' : Whole(cpr'[path], pInputParams')
  BY <1>1, <1>2, <1>3, ReportCloses
<1>5. IsParams(pInputParams)'
  BY <1>1, <1>2 DEF IsParams
<1>. QED
  BY <1>1, <1>2, <1>3, <1>4, <1>5 DEF ReportInv, Early, Late

\* endDocument() of the source.
LEMMA EndSourceKeeps ==
  ASSUME ReportInv, EndSource
  PROVE  ReportInv'
<1>. DEFINE n == pInputParams.compsetCount
<1>1. /\ stage = "source" /\ IsParams(pInputParams) /\ n \in Nat
      /\ DOMAIN cpr = IF pInputParams.outFlag THEN {pInputParams.outDir} ELSE {}
      /\ \A path \in DOMAIN cpr : Growing(cpr[path], n - 1, pInputParams)
  BY DEF EndSource, ReportInv, Late, Reported, IsParams
<1>2. CASE stage' = "crashed" /\ pInputParams' = Framed(pInputParams) /\ cpr' = FramedFiles(pInputParams)
  <2>1. /\ DOMAIN cpr' = {pInputParams'.outDir}
        /\ Growing(cpr'[pInputParams'.outDir], n - 1, pInputParams)
    BY <1>1, <1>2, FramedFilesFacts
  <2>2. /\ IsParams(pInputParams)' /\ pInputParams'.outFlag = TRUE /\ pInputParams'.compsetCount = n
        /\ pInputParams'.sourceXCDL = pInputParams.sourceXCDL
        /\ pInputParams'.targetXCDLs = pInputParams.targetXCDLs
    BY <1>1, <1>2, FramedFacts DEF IsParams
  <2>. HIDE DEF n
  <2>3. Growing(cpr'[pInputParams'.outDir], n, pInputParams')
    BY <1>1, <2>1, <2>2, GrowsFurther, SameReport
  <2>4. Reported' = n
    BY <1>2, <2>2 DEF Reported
  <2>. QED
    BY <1>2, <2>1, <2>2, <2>3, <2>4 DEF ReportInv, Early, Late
<1>3. CASE stage' \in {"pairs", "crashed"} /\ UNCHANGED <<pInputParams, cpr>>
  BY <1>1, <1>3, ReadingKeepsReport
<1>4. CASE stage' \in {"pairs", "crashed"} /\ OutputForPlato
  <2>. DEFINE part == CompSetTag(pInputParams)
  <2>1. /\ part.tag = "compSet" /\ part.id = n
        /\ part.source = pInputParams.sourceXCDL /\ part.target = pInputParams.targetXCDL
    BY DEF CompSetTag
  <2>2. /\ pInputParams' = Framed(pInputParams)
        /\ cpr' = Appended(FramedFiles(pInputParams), pInputParams'.outDir, part)
    BY <1>4 DEF OutputForPlato
  <2>. HIDE DEF part
  <2>3. /\ IsParams(pInputParams)' /\ pInputParams'.outFlag = TRUE
        /\ pInputParams'.compsetCount = n
        /\ DOMAIN cpr' = {pInputParams'.outDir}
        /\ \A path \in DOMAIN cpr' : Growing(cpr'[path], n, pInputParams')
    BY <1>1, <2>1, <2>2, ReportedPair
  <2>4. Reported' = n
    BY <1>4, <2>3 DEF Reported
  <2>. QED
    BY <1>4, <2>3, <2>4 DEF ReportInv, Early, Late
<1>. QED
  BY <1>2, <1>3, <1>4 DEF EndSource, AfterDeleting

\* The parameters are new until they are parsed.
NewAtFirst == stage = "arguments" => pInputParams = NewInputParams

\* Every step keeps the invariant.
LEMMA NextReport ==
  ASSUME ReportInv, NewAtFirst, [Next]_vars
  PROVE  ReportInv' /\ NewAtFirst'
<1>1. NewAtFirst'
  <2>1. stage' = "arguments" => stage = "arguments" /\ pInputParams' = pInputParams
    BY DEF Next, vars, handlers, ParseArguments, TestIfFileIs, DoXMLValidation, Require, LoadRequest,
           FailToLoadRequest, BeginPair, EndPairs, CloseReport, SourceStartElement, SourceCharacters,
           SourceEndElement, EndSource, FailToParseSource, BeginTarget, TargetStartElement,
           TargetCharacters, TargetEndElement, CompareWithTarget, EndTarget, FailToParseTarget,
           AfterTarget, AfterDeleting, ReadsSource, ReadsTarget
  <2>. QED
    BY <2>1 DEF NewAtFirst
<1>. SUFFICES ReportInv'
  BY <1>1
<1>2. CASE ParseArguments
  BY <1>2, ParseArgumentsKeeps DEF NewAtFirst
<1>3. CASE TestIfFileIs \/ DoXMLValidation
  BY <1>3, RequireKeeps DEF TestIfFileIs, DoXMLValidation, Early
<1>4. CASE LoadRequest
  BY <1>4, LoadRequestKeeps
<1>5. CASE FailToLoadRequest
  <2>1. stage = "request" /\ stage' = "done" /\ UNCHANGED <<pInputParams, cpr>>
    BY <1>5 DEF FailToLoadRequest
  <2>2. DOMAIN cpr' = {} /\ IsParams(pInputParams)'
    BY <2>1 DEF ReportInv, Early, IsParams
  <2>. QED
    BY <2>1, <2>2 DEF ReportInv, Early, Late
<1>6. CASE BeginPair
  BY <1>6, BeginPairKeeps
<1>7. CASE EndPairs
  <2>1. stage = "pairs" /\ stage' = "closing" /\ UNCHANGED <<pInputParams, cpr>>
    BY <1>7 DEF EndPairs
  <2>2. Reported' = Reported /\ IsParams(pInputParams)'
    BY <2>1 DEF Reported, ReportInv, IsParams
  <2>. QED
    BY <2>1, <2>2 DEF ReportInv, Early, Late
<1>8. CASE CloseReport
  BY <1>8, CloseReportKeeps
<1>9. CASE EndSource
  BY <1>9, EndSourceKeeps
<1>10. CASE SourceStartElement \/ SourceCharacters \/ SourceEndElement \/ FailToParseSource
            \/ BeginTarget \/ TargetStartElement \/ TargetCharacters \/ TargetEndElement
            \/ CompareWithTarget \/ EndTarget \/ FailToParseTarget
  <2>1. /\ UNCHANGED <<pInputParams, cpr>>
        /\ \/ stage' = stage
           \/ stage = "source" /\ stage' \in {"pairs", "crashed", "exited"}
    BY <1>10 DEF SourceStartElement, SourceCharacters, SourceEndElement, FailToParseSource,
                 BeginTarget, TargetStartElement, TargetCharacters, TargetEndElement,
                 CompareWithTarget, EndTarget, FailToParseTarget, AfterTarget, AfterDeleting,
                 ReadsSource, ReadsTarget
  <2>. QED
    BY <2>1, ReadingKeepsReport
<1>11. CASE UNCHANGED vars
  BY <1>11, ReadingKeepsReport DEF vars
<1>. QED
  BY <1>2, <1>3, <1>4, <1>5, <1>6, <1>7, <1>8, <1>9, <1>10, <1>11 DEF Next

-----------------------------------------------------------------------------
\* What is growing or done is whole as far as it goes.
LEMMA InvIsWhole ==
  ASSUME ReportInv
  PROVE  ReportIsWhole
<1>1. \E path : DOMAIN cpr \subseteq {path}
  BY DEF ReportInv, Early, Late
<1>2. Cardinality(DOMAIN cpr) <= 1
  <2>1. PICK path : DOMAIN cpr \subseteq {path}
    BY <1>1
  <2>2. IsFiniteSet({path}) /\ Cardinality({path}) = 1
    BY FS_Singleton
  <2>. QED
    BY <2>1, <2>2, FS_Subset
<1>3. ASSUME NEW path \in DOMAIN cpr, stage # "done"
      PROVE  Growing(cpr[path], Reported, pInputParams)
  BY <1>3 DEF ReportInv, Early, Late
<1>4. ASSUME NEW path \in DOMAIN cpr, stage = "done"
      PROVE  Whole(cpr[path], pInputParams)
  BY <1>4 DEF ReportInv
<1>5. ASSUME NEW path \in DOMAIN cpr
      PROVE  LET file == cpr[path]
                 last == IF stage = "done" THEN Len(file) - 1 ELSE Len(file)
             IN  /\ file[1] = Frame
                 /\ stage = "done" => Len(file) >= 2 /\ Last(file) = EndTag
                 /\ \A i \in 2 .. last : file[i].tag \in {"compSet", "error"}
                 /\ \A i, j \in 2 .. last :
                      (i < j) => /\ file[i].tag = "compSet" /\ file[j].tag = "compSet"
                                 /\ file[i].id < file[j].id
                 /\ \A i \in 2 .. last :
                      (file[i].tag = "compSet" /\ file[i].id # 0) =>
                        /\ file[i].source = pInputParams.sourceXCDL
                        /\ file[i].target = pInputParams.targetXCDLs[file[i].id]
  <2>1. CASE stage = "done"
    BY <1>4, <1>5, <2>1 DEF Whole, Last
  <2>2. CASE stage # "done"
    BY <1>3, <1>5, <2>2 DEF Growing
  <2>. QED
    BY <2>1, <2>2
<1>. QED
  BY <1>2, <1>5 DEF ReportIsWhole

\* The report is growing from the start.
LEMMA InitReport ==
  ASSUME Init
  PROVE  ReportInv /\ NewAtFirst
<1>1. /\ stage = "arguments" /\ pInputParams = NewInputParams /\ DOMAIN cpr = {}
  BY DEF Init
<1>2. IsList(<<>>)
  <2>1. <<>> \in Seq({})
    OBVIOUS
  <2>. QED
    BY <2>1 DEF IsList
<1>3. /\ NewInputParams.compsetCount = 0 /\ NewInputParams.outDir = <<>>
      /\ NewInputParams.outFlag = FALSE
  BY DEF NewInputParams
<1>4. IsParams(NewInputParams)
  <2>1. NewInputParams.compsetCount \in Nat /\ ~(NewInputParams.compsetCount > 0)
        /\ IsList(NewInputParams.outDir)
    BY <1>2, <1>3
  <2>2. NewInputParams.outFlag \in BOOLEAN
    BY <1>3, Zenon
  <2>. QED
    BY <2>1, <2>2 DEF IsParams
<1>5. IsParams(pInputParams)
  BY <1>1, <1>4
<1>. QED
  BY <1>1, <1>3, <1>5 DEF ReportInv, NewAtFirst, Early, Late

\* The report of the older comparator is one whole file: it begins with the one frame and,
\* when the program is done, ends with the one end of it; in between are comparison sets in
\* the order of the targets, each with the source and its own target (ComparatorOutput.cpp,
\* createCPROutputFrame to createCPROutputEnd), whatever file is bad, missing or spoilt,
\* whatever pair is given up and wherever the program dies.
THEOREM ReportIsWholeCorrect == Spec => []ReportIsWhole
<1>1. Init => ReportInv /\ NewAtFirst
  BY InitReport
<1>2. ReportInv /\ NewAtFirst /\ [Next]_vars => (ReportInv /\ NewAtFirst)'
  BY NextReport
<1>3. ReportInv => ReportIsWhole
  BY InvIsWhole
<1>. QED
  BY <1>1, <1>2, <1>3, PTL DEF Spec

-----------------------------------------------------------------------------
(***************************************************************************)
(* Places in a document.  A place says which element is open or was closed *)
(* last, how many objects have begun, and how many normData and properties *)
(* in the last of them.                                                    *)
(***************************************************************************)
At == {"before", "xcdl", "object", "data", "afterData", "normData", "normText", "afterNormData",
       "property", "name", "nameText", "named", "valueSet", "rawValue", "afterRawValue", "labValue",
       "val", "afterVal", "type", "afterType", "labelled", "objectRef", "afterObjectRef", "dataRef",
       "afterDataRef", "valued", "afterProperty", "propertySet", "valueSetRelations", "afterRelations", "afterPropertySet", "end"}
Place == [at : At, object : Nat, normData : Nat, property : Nat]
Outside == [at |-> "before", object |-> 0, normData |-> 0, property |-> 0]

\* The places where an element may start, and those where it may end.
BeforeStart ==
  [xcdl |-> {"before"}, object |-> {"xcdl"}, data |-> {"object"},
   normData |-> {"object", "afterData", "afterNormData"},
   property |-> {"object", "afterData", "afterNormData", "afterProperty"},
   propertySet |-> {"object", "afterData", "afterNormData", "afterProperty", "afterPropertySet"},
   valueSetRelations |-> {"propertySet"}, name |-> {"property"}, valueSet |-> {"named", "valued"},
   rawValue |-> {"valueSet"}, labValue |-> {"valueSet", "afterRawValue"},
   objectRef |-> {"valueSet", "afterRawValue", "labelled"},
   dataRef |-> {"valueSet", "afterRawValue", "labelled", "afterObjectRef", "afterDataRef"},
   val |-> {"labValue", "afterVal"}, type |-> {"afterVal", "afterType"}]

BeforeEnd ==
  [xcdl |-> {"xcdl"},
   object |-> {"object", "afterData", "afterNormData", "afterProperty", "afterPropertySet"},
   data |-> {"data"}, normData |-> {"normText"}, property |-> {"valued"},
   propertySet |-> {"afterRelations"}, valueSetRelations |-> {"valueSetRelations"},
   name |-> {"nameText"}, valueSet |-> {"valueSet", "afterRawValue", "labelled", "afterObjectRef", "afterDataRef"},
   rawValue |-> {"rawValue"}, labValue |-> {"afterType"}, objectRef |-> {"objectRef"}, dataRef |-> {"dataRef"},
   val |-> {"val"}, type |-> {"type"}]

After ==
  [xcdl |-> "end", object |-> "xcdl", data |-> "afterData", normData |-> "afterNormData",
   property |-> "afterProperty", propertySet |-> "afterPropertySet",
   valueSetRelations |-> "afterRelations", name |-> "named", valueSet |-> "valued",
   rawValue |-> "afterRawValue", labValue |-> "labelled", objectRef |-> "afterObjectRef", dataRef |-> "afterDataRef",
   val |-> "afterVal", type |-> "afterType"]

AfterText ==
  [normData |-> "normText", normText |-> "normText", name |-> "nameText", val |-> "val", type |-> "type"]

To(c, at) == [at |-> at, object |-> c.object, normData |-> c.normData, property |-> c.property]

Into(c, element) ==
  CASE element = "object"   -> [at |-> element, object |-> c.object + 1, normData |-> 0, property |-> 0]
    [] element = "normData" -> [at |-> element, object |-> c.object, normData |-> c.normData + 1, property |-> c.property]
    [] element = "property" -> [at |-> element, object |-> c.object, normData |-> c.normData, property |-> c.property + 1]
    [] OTHER                -> To(c, element)

\* An event of document doc leads from place c to place d.
Begins(doc, c, e, d) ==
  /\ e.event = "start" /\ e.element \in DOMAIN BeforeStart /\ c.at \in BeforeStart[e.element]
  /\ d = Into(c, e.element)
  /\ e.element = "object" => d.object <= Len(doc)
  /\ e.element = "data" => doc[d.object].data
  /\ e.element = "normData" => d.normData <= Len(doc[d.object].normData)
  /\ e.element = "property" => d.property <= Len(doc[d.object].properties)
  /\ e.element = "valueSet" /\ c.at = "valued" => Manifold(doc)

Says(doc, c, e, d) ==
  /\ e.event = "characters" /\ c.at \in DOMAIN AfterText /\ d = To(c, AfterText[c.at])
  /\ c.at = "name" => e.text = doc[c.object].properties[c.property].name /\ e.text # NormData
  /\ c.at = "type" /\ e.text = "ISO8601" => HasDate(doc)

Finishes(doc, c, e, d) ==
  /\ e.event = "end" /\ e.element \in DOMAIN BeforeEnd /\ c.at \in BeforeEnd[e.element]
  /\ d = To(c, After[e.element])
  /\ e.element = "object" =>
       c.normData = Len(doc[c.object].normData) /\ c.property = Len(doc[c.object].properties)
  /\ e.element = "xcdl" => c.object = Len(doc)

Moves(doc, c, e, d) == Begins(doc, c, e, d) \/ Says(doc, c, e, d) \/ Finishes(doc, c, e, d)

\* ... and so do events one after the other.
Leads(doc, c, events, d) ==
  /\ IsList(events)
  /\ \E path \in [0 .. Len(events) -> Place] :
       /\ path[0] = c /\ path[Len(events)] = d
       /\ \A i \in 1 .. Len(events) : Moves(doc, path[i - 1], events[i], path[i])

-----------------------------------------------------------------------------
\* A place that is left for another is one.
LEMMA PlaceFacts ==
  ASSUME NEW c \in Place
  PROVE  /\ \A at \in At : To(c, at) \in Place
         /\ \A at : /\ To(c, at).at = at /\ To(c, at).object = c.object
                    /\ To(c, at).normData = c.normData /\ To(c, at).property = c.property
         /\ \A at, other : To(To(c, at), other) = To(c, other)
         /\ \A element : element \notin {"object", "normData", "property"} => Into(c, element) = To(c, element)
BY DEF Place, To, Into

\* No event leads nowhere else.
LEMMA NothingLeads ==
  ASSUME NEW doc, NEW c \in Place
  PROVE  Leads(doc, c, <<>>, c)
<1>. DEFINE path == [i \in 0 .. 0 |-> c]
<1>1. IsList(<<>>) /\ Len(<<>>) = 0
  <2>1. <<>> \in Seq({})
    OBVIOUS
  <2>. QED
    BY <2>1 DEF IsList
<1>2. path \in [0 .. 0 -> Place] /\ path[0] = c
  OBVIOUS
<1>3. \A i \in 1 .. 0 : FALSE
  OBVIOUS
<1>. HIDE DEF path
<1>4. \E p \in [0 .. Len(<<>>) -> Place] :
        /\ p[0] = c /\ p[Len(<<>>)] = c
        /\ \A i \in 1 .. Len(<<>>) : Moves(doc, p[i - 1], <<>>[i], p[i])
  BY <1>1, <1>2, <1>3
<1>. QED
  BY <1>1, <1>4 DEF Leads

\* One event does.
LEMMA OneLeads ==
  ASSUME NEW doc, NEW c \in Place, NEW e, NEW d \in Place, Moves(doc, c, e, d)
  PROVE  Leads(doc, c, <<e>>, d)
<1>. DEFINE path == [i \in 0 .. 1 |-> IF i = 0 THEN c ELSE d]
<1>1. <<e>> \in Seq({e}) /\ Len(<<e>>) = 1 /\ <<e>>[1] = e
  OBVIOUS
<1>2. path \in [0 .. 1 -> Place] /\ path[0] = c /\ path[1] = d
  OBVIOUS
<1>3. \A i \in 1 .. 1 : Moves(doc, path[i - 1], <<e>>[i], path[i])
  <2>. HIDE DEF path
  <2>. QED
    BY <1>1, <1>2
<1>. HIDE DEF path
<1>4. \E p \in [0 .. Len(<<e>>) -> Place] :
        /\ p[0] = c /\ p[Len(<<e>>)] = d
        /\ \A i \in 1 .. Len(<<e>>) : Moves(doc, p[i - 1], <<e>>[i], p[i])
  BY <1>1, <1>2, <1>3
<1>5. IsList(<<e>>)
  BY <1>1 DEF IsList
<1>. QED
  BY <1>4, <1>5 DEF Leads

\* Events and then others.
LEMMA BothLead ==
  ASSUME NEW doc, NEW b, NEW c, NEW d, NEW s, NEW t, Leads(doc, b, s, c), Leads(doc, c, t, d)
  PROVE  Leads(doc, b, s \o t, d)
<1>1. PICK S, T : s \in Seq(S) /\ t \in Seq(T)
  BY DEF Leads, IsList
<1>2. s \in Seq(S \cup T) /\ t \in Seq(S \cup T)
  BY <1>1
<1>. DEFINE m == Len(s)
            n == Len(t)
            u == s \o t
<1>3. /\ u \in Seq(S \cup T) /\ Len(u) = m + n /\ m \in Nat /\ n \in Nat
      /\ \A i \in 1 .. m : u[i] = s[i]
      /\ \A i \in 1 .. n : u[m + i] = t[i]
  BY <1>2
<1>4. PICK p \in [0 .. m -> Place] :
        /\ p[0] = b /\ p[m] = c
        /\ \A i \in 1 .. m : Moves(doc, p[i - 1], s[i], p[i])
  BY DEF Leads
<1>5. PICK q \in [0 .. n -> Place] :
        /\ q[0] = c /\ q[n] = d
        /\ \A i \in 1 .. n : Moves(doc, q[i - 1], t[i], q[i])
  BY DEF Leads
<1>. DEFINE path == [i \in 0 .. m + n |-> IF i <= m THEN p[i] ELSE q[i - m]]
<1>. HIDE DEF u, m, n
<1>6. path \in [0 .. m + n -> Place]
  BY <1>3
<1>7. path[0] = b
  BY <1>3, <1>4
<1>8. \A i \in 0 .. n : path[m + i] = q[i]
  BY <1>3, <1>4, <1>5
<1>9. path[m + n] = d
  <2>1. n \in 0 .. n
    BY <1>3
  <2>. QED
    BY <1>5, <1>8, <2>1
<1>10. \A i \in 0 .. m : path[i] = p[i]
  BY <1>3
<1>. HIDE DEF path
<1>11. ASSUME NEW i \in 1 .. m + n
       PROVE  Moves(doc, path[i - 1], u[i], path[i])
  <2>1. CASE i <= m
    <3>1. i \in 1 .. m /\ i \in 0 .. m /\ i - 1 \in 0 .. m
      BY <1>3, <2>1
    <3>. QED
      BY <1>3, <1>4, <1>10, <3>1
  <2>2. CASE i > m
    <3>. DEFINE j == i - m
    <3>1. j \in 1 .. n /\ j \in 0 .. n /\ j - 1 \in 0 .. n /\ m + j = i /\ m + (j - 1) = i - 1
      BY <1>3, <2>2
    <3>2. u[i] = t[j] /\ path[i] = q[j] /\ path[i - 1] = q[j - 1]
      <4>. HIDE DEF j
      <4>. QED
        BY <1>3, <1>8, <3>1
    <3>. HIDE DEF j
    <3>. QED
      BY <1>5, <3>1, <3>2
  <2>. QED
    BY <1>3, <2>1, <2>2
<1>12. \E r \in [0 .. Len(u) -> Place] :
        /\ r[0] = b /\ r[Len(u)] = d
        /\ \A i \in 1 .. Len(u) : Moves(doc, r[i - 1], u[i], r[i])
  BY <1>3, <1>6, <1>7, <1>9, <1>11
<1>13. IsList(u)
  BY <1>3 DEF IsList
<1>. QED
  BY <1>12, <1>13 DEF Leads, u

\* Lists of events, each from where the one before has led.
LEMMA AllLead ==
  ASSUME NEW doc, NEW n \in Nat, NEW seqs, seqs = [i \in 1 .. n |-> seqs[i]],
         NEW place \in [0 .. n -> Place],
         \A i \in 1 .. n : Leads(doc, place[i - 1], seqs[i], place[i])
  PROVE  Leads(doc, place[0], FlattenSeq(seqs), place[n])
<1>1. Len(seqs) = n
  OBVIOUS
<1>2. CASE n = 0
  <2>1. seqs = <<>>
    BY <1>2
  <2>2. FlattenSeq(seqs) = <<>>
    BY <1>1, <1>2, <2>1 DEF FlattenSeq
  <2>. QED
    BY <1>2, <2>2, NothingLeads
<1>3. CASE n # 0
  <2>1. PICK g : /\ g = [i \in 1 .. n |-> IF i = 1 THEN seqs[i] ELSE g[i - 1] \o seqs[i]]
                 /\ FlattenSeq(seqs) = g[n]
    BY <1>1, <1>3, FlattenIsDefined
  <2>. DEFINE Good == {m \in Nat : m + 1 <= n => Leads(doc, place[0], g[m + 1], place[m + 1])}
  <2>2. 0 \in Good
    <3>1. 1 \in 1 .. n /\ g[1] = seqs[1]
      BY <1>1, <1>3, <2>1
    <3>. QED
      BY <3>1
  <2>3. ASSUME NEW m \in Nat, m \in Good
        PROVE  m + 1 \in Good
    <3>. SUFFICES ASSUME m + 2 <= n
         PROVE  Leads(doc, place[0], g[m + 2], place[m + 2])
      OBVIOUS
    <3>1. Leads(doc, place[0], g[m + 1], place[m + 1])
      BY <2>3
    <3>2. m + 2 \in 1 .. n /\ m + 2 # 1 /\ (m + 2) - 1 = m + 1
      OBVIOUS
    <3>3. g[m + 2] = g[m + 1] \o seqs[m + 2]
      BY <1>1, <2>1, <3>2
    <3>4. Leads(doc, place[m + 1], seqs[m + 2], place[m + 2])
      BY <3>2
    <3>. QED
      BY <3>1, <3>3, <3>4, BothLead
  <2>4. Nat \subseteq Good
    <3>. HIDE DEF Good
    <3>. QED
      BY <2>2, <2>3, Induction
  <2>5. n - 1 \in Nat /\ (n - 1) + 1 = n
    BY <1>3
  <2>6. n - 1 \in Good
    <3>. HIDE DEF Good
    <3>. QED
      BY <2>4, <2>5
  <2>7. Leads(doc, place[0], g[(n - 1) + 1], place[(n - 1) + 1])
    BY <2>5, <2>6
  <2>. QED
    BY <2>1, <2>5, <2>7
<1>. QED
  BY <1>2, <1>3

-----------------------------------------------------------------------------
(***************************************************************************)
(* The events of a document lead through it.                               *)
(***************************************************************************)
LEMMA EventFacts ==
  ASSUME NEW element, NEW text, NEW x
  PROVE  /\ Start(element).event = "start" /\ Start(element).element = element
         /\ [Start(element) EXCEPT !.id = x].event = "start"
         /\ [Start(element) EXCEPT !.id = x].element = element
         /\ [Start(element) EXCEPT !.type = x].event = "start"
         /\ [Start(element) EXCEPT !.type = x].element = element
         /\ Chars(text).event = "characters" /\ Chars(text).text = text
         /\ End(element).event = "end" /\ End(element).element = element
BY DEF Start, Chars, End

\* An element with what is in it.
LEMMA EnclosedLeads ==
  ASSUME NEW doc, NEW c \in Place, NEW b \in Place, NEW f \in Place, NEW d \in Place, NEW start, NEW events,
         Begins(doc, c, start, b), Leads(doc, b, events, f), Finishes(doc, f, End(start.element), d)
  PROVE  Leads(doc, c, Enclosed(start, events), d)
<1>1. Leads(doc, c, <<start>>, b)
  BY OneLeads DEF Moves
<1>2. Leads(doc, f, <<End(start.element)>>, d)
  BY OneLeads DEF Moves
<1>3. Leads(doc, c, <<start>> \o events, f)
  BY <1>1, BothLead
<1>. QED
  BY <1>2, <1>3, BothLead DEF Enclosed

\* An element with nothing in it that counts.
LEMMA EmptyLeads ==
  ASSUME NEW doc, NEW c \in Place,
         NEW element \in {"data", "rawValue", "objectRef", "dataRef", "valueSetRelations"},
         c.at \in BeforeStart[element], element = "data" => doc[c.object].data
  PROVE  Leads(doc, c, Element(element, <<>>), To(c, After[element]))
<1>. DEFINE b == To(c, element)
            d == To(c, After[element])
<1>1. After[element] \in At /\ element \in DOMAIN BeforeStart /\ element \in DOMAIN BeforeEnd
      /\ element \in BeforeEnd[element] /\ element \in At
  <2>1. CASE element = "data"
    BY <2>1 DEF After, BeforeStart, BeforeEnd, At
  <2>2. CASE element = "rawValue"
    BY <2>2 DEF After, BeforeStart, BeforeEnd, At
  <2>3. CASE element = "dataRef"
    BY <2>3 DEF After, BeforeStart, BeforeEnd, At
  <2>4. CASE element = "valueSetRelations"
    BY <2>4 DEF After, BeforeStart, BeforeEnd, At
  <2>5. CASE element = "objectRef"
    BY <2>5 DEF After, BeforeStart, BeforeEnd, At
  <2>. QED
    BY <2>1, <2>2, <2>3, <2>4, <2>5
<1>2. b \in Place /\ d \in Place /\ b.at = element /\ b.object = c.object /\ Into(c, element) = b
      /\ d = To(b, After[element])
  BY <1>1, PlaceFacts DEF At
<1>. HIDE DEF b, d
<1>3. Begins(doc, c, Start(element), b)
  BY <1>1, <1>2, EventFacts DEF Begins
<1>4. Finishes(doc, b, End(Start(element).element), d)
  BY <1>1, <1>2, EventFacts DEF Finishes
<1>. QED
  BY <1>2, <1>3, <1>4, NothingLeads, EnclosedLeads DEF Element, d

\* The pieces of a text.
LEMMA PiecesLead ==
  ASSUME NEW doc, NEW texts, NEW n \in Nat, texts \in [1 .. n -> Seq(Int)],
         NEW place \in [0 .. n -> Place],
         \A i \in 1 .. n : Says(doc, place[i - 1], Chars(texts[i]), place[i])
  PROVE  Leads(doc, place[0], Pieces022(texts), place[n])
<1>. DEFINE events == Pieces022(texts)
<1>1. events = [i \in 1 .. n |-> Chars(texts[i])]
  BY DEF Pieces022
<1>2. events \in Seq({Chars(texts[i]) : i \in 1 .. n}) /\ Len(events) = n
      /\ \A i \in 1 .. n : events[i] = Chars(texts[i])
  <2>. DEFINE S == {Chars(texts[i]) : i \in 1 .. n}
  <2>1. events \in [1 .. n -> S] /\ \A i \in 1 .. n : events[i] = Chars(texts[i])
    BY <1>1
  <2>. HIDE DEF events, S
  <2>2. events \in Seq(S) /\ Len(events) = n
    BY <2>1
  <2>. QED
    BY <2>1, <2>2 DEF S
<1>. HIDE DEF events
<1>3. IsList(events)
  BY <1>2 DEF IsList
<1>4. \A i \in 1 .. n : Moves(doc, place[i - 1], events[i], place[i])
  BY <1>2 DEF Moves
<1>. QED
  BY <1>2, <1>3, <1>4 DEF Leads, events

\* A <val>.
LEMMA ValLeads ==
  ASSUME NEW doc, NEW c \in Place, c.at \in {"labValue", "afterVal"}, NEW texts \in Seq(Seq(Int))
  PROVE  Leads(doc, c, Element("val", Pieces022(texts)), To(c, "afterVal"))
<1>. DEFINE b == To(c, "val")
            d == To(c, "afterVal")
            n == Len(texts)
            place == [i \in 0 .. n |-> b]
<1>1. b \in Place /\ d \in Place /\ b.at = "val" /\ Into(c, "val") = b /\ d = To(b, "afterVal") /\ To(b, "val") = b
  <2>1. "val" \in At /\ "afterVal" \in At
    BY DEF At
  <2>. QED
    BY <2>1, PlaceFacts
<1>2. n \in Nat /\ texts \in [1 .. n -> Seq(Int)]
  OBVIOUS
<1>. HIDE DEF b, d, n
<1>3. Begins(doc, c, Start("val"), b)
  BY <1>1, EventFacts DEF Begins, BeforeStart
<1>4. Finishes(doc, b, End(Start("val").element), d)
  <2>1. "val" \in DOMAIN BeforeEnd /\ "val" \in BeforeEnd["val"] /\ After["val"] = "afterVal"
    BY DEF BeforeEnd, After
  <2>. QED
    BY <1>1, <2>1, EventFacts DEF Finishes
<1>5. \A text : Says(doc, b, Chars(text), b)
  BY <1>1, EventFacts DEF Says, AfterText
<1>6. /\ place \in [0 .. n -> Place] /\ place[0] = b /\ place[n] = b
      /\ \A i \in 1 .. n : place[i - 1] = b /\ place[i] = b
  BY <1>1, <1>2
<1>. HIDE DEF place
<1>7. \A i \in 1 .. n : Says(doc, place[i - 1], Chars(texts[i]), place[i])
  BY <1>5, <1>6
<1>8. Leads(doc, b, Pieces022(texts), b)
  BY <1>2, <1>6, <1>7, PiecesLead
<1>. QED
  BY <1>1, <1>3, <1>4, <1>8, EnclosedLeads DEF Element, d

\* A <type>.
LEMMA TypeLeads ==
  ASSUME NEW doc, NEW c \in Place, c.at \in {"afterVal", "afterType"}, NEW text,
         text = "ISO8601" => HasDate(doc)
  PROVE  Leads(doc, c, Element("type", <<Chars(text)>>), To(c, "afterType"))
<1>. DEFINE b == To(c, "type")
            d == To(c, "afterType")
<1>1. b \in Place /\ d \in Place /\ b.at = "type" /\ Into(c, "type") = b /\ d = To(b, "afterType") /\ To(b, "type") = b
  BY PlaceFacts DEF At
<1>. HIDE DEF b, d
<1>3. Begins(doc, c, Start("type"), b)
  BY <1>1, EventFacts DEF Begins, BeforeStart
<1>4. Finishes(doc, b, End(Start("type").element), d)
  BY <1>1, EventFacts DEF Finishes, BeforeEnd, After
<1>5. Says(doc, b, Chars(text), b)
  BY <1>1, EventFacts DEF Says, AfterText
<1>8. Leads(doc, b, <<Chars(text)>>, b)
  BY <1>1, <1>5, OneLeads DEF Moves
<1>. QED
  BY <1>1, <1>3, <1>4, <1>8, EnclosedLeads DEF Element, d

\* A labelled value.
LEMMA LabValueLeads ==
  ASSUME NEW doc, NEW c \in Place, c.at \in {"valueSet", "afterRawValue"}, NEW l \in LabValue,
         "ISO8601" \in ToSet(l.types) => HasDate(doc)
  PROVE  Leads(doc, c, LabValueEvents(l), To(c, "labelled"))
<1>. DEFINE b == To(c, "labValue")
            v == To(c, "afterVal")
            t == To(c, "afterType")
            d == To(c, "labelled")
            m == Len(l.vals)
            n == Len(l.types)
            vals == [i \in DOMAIN l.vals |-> Element("val", Pieces022(l.vals[i]))]
            types == [i \in DOMAIN l.types |-> Element("type", <<Chars(l.types[i])>>)]
            place1 == [i \in 0 .. m |-> IF i = 0 THEN b ELSE v]
            place2 == [i \in 0 .. n |-> IF i = 0 THEN v ELSE t]
<1>1. /\ b \in Place /\ v \in Place /\ t \in Place /\ d \in Place
      /\ b.at = "labValue" /\ v.at = "afterVal" /\ t.at = "afterType"
      /\ Into(c, "labValue") = b /\ v = To(b, "afterVal") /\ v = To(v, "afterVal")
      /\ t = To(v, "afterType") /\ t = To(t, "afterType") /\ d = To(t, "labelled")
  BY PlaceFacts DEF At
<1>2. /\ m \in Nat \ {0} /\ \A i \in 1 .. m : l.vals[i] \in Seq(Seq(Int))
      /\ n \in Nat \ {0} /\ DOMAIN l.types = 1 .. n /\ DOMAIN l.vals = 1 .. m
  BY DEF LabValue
<1>. HIDE DEF b, v, t, d, m, n
<1>3. /\ vals = [i \in 1 .. m |-> vals[i]] /\ types = [i \in 1 .. n |-> types[i]]
      /\ \A i \in 1 .. m : vals[i] = Element("val", Pieces022(l.vals[i]))
      /\ \A i \in 1 .. n : types[i] = Element("type", <<Chars(l.types[i])>>)
  BY <1>2
<1>4. /\ place1 \in [0 .. m -> Place] /\ place1[0] = b /\ place1[m] = v
      /\ \A i \in 1 .. m : place1[i - 1] \in {b, v} /\ place1[i] = v
  BY <1>1, <1>2
<1>5. /\ place2 \in [0 .. n -> Place] /\ place2[0] = v /\ place2[n] = t
      /\ \A i \in 1 .. n : place2[i - 1] \in {v, t} /\ place2[i] = t
  BY <1>1, <1>2
<1>. HIDE DEF vals, types, place1, place2
<1>6. \A i \in 1 .. m : Leads(doc, place1[i - 1], vals[i], place1[i])
  BY <1>1, <1>2, <1>3, <1>4, ValLeads
<1>7. ASSUME NEW i \in 1 .. n
      PROVE  Leads(doc, place2[i - 1], types[i], place2[i])
  <2>1. l.types[i] = "ISO8601" => HasDate(doc)
    BY <1>2 DEF ToSet
  <2>2. place2[i - 1] \in {v, t} /\ place2[i] = t
    BY <1>5
  <2>3. Leads(doc, place2[i - 1], Element("type", <<Chars(l.types[i])>>), To(place2[i - 1], "afterType"))
    BY <1>1, <2>1, <2>2, TypeLeads
  <2>. QED
    BY <1>1, <1>3, <2>2, <2>3
<1>8. Leads(doc, b, FlattenSeq(vals), v)
  <2>1. m \in Nat
    BY <1>2
  <2>. QED
    BY <1>3, <1>4, <1>6, <2>1, AllLead
<1>9. Leads(doc, v, FlattenSeq(types), t)
  <2>1. n \in Nat
    BY <1>2
  <2>. QED
    BY <1>3, <1>5, <1>7, <2>1, AllLead
<1>10. Leads(doc, b, FlattenSeq(vals) \o FlattenSeq(types), t)
  BY <1>8, <1>9, BothLead
<1>11. Begins(doc, c, Start("labValue"), b)
  BY <1>1, EventFacts DEF Begins, BeforeStart
<1>12. Finishes(doc, t, End(Start("labValue").element), d)
  BY <1>1, EventFacts DEF Finishes, BeforeEnd, After
<1>. QED
  BY <1>1, <1>10, <1>11, <1>12, EnclosedLeads DEF Element, LabValueEvents, d, vals, types

\* A value set.  Only a property with several has one after another.
LEMMA ValueSetLeads ==
  ASSUME NEW doc, NEW c \in Place, c.at \in {"named", "valued"}, c.at = "valued" => Manifold(doc),
         NEW v \in ValueSet,
         v.labValue # NULL /\ "ISO8601" \in ToSet(v.labValue.types) => HasDate(doc)
  PROVE  Leads(doc, c, ValueSetEvents(v), To(c, "valued"))
<1>. DEFINE b == To(c, "valueSet")
            r == IF v.rawValue THEN To(c, "afterRawValue") ELSE b
            l == IF v.labValue = NULL THEN r ELSE To(c, "labelled")
            o == IF v.objectRef THEN To(c, "afterObjectRef") ELSE l
            f == IF v.dataRefs = 0 THEN o ELSE To(c, "afterDataRef")
            d == To(c, "valued")
            start == [Start("valueSet") EXCEPT !.id = v.id]
            raw == IF v.rawValue THEN Element("rawValue", <<>>) ELSE <<>>
            lab == IF v.labValue = NULL THEN <<>> ELSE LabValueEvents(v.labValue)
            obj == IF v.objectRef THEN Element("objectRef", <<>>) ELSE <<>>
            n == v.dataRefs
            refs == [i \in 1 .. n |-> Element("dataRef", <<>>)]
            place == [i \in 0 .. n |-> IF i = 0 THEN o ELSE To(c, "afterDataRef")]
<1>1. /\ b \in Place /\ r \in Place /\ l \in Place /\ o \in Place /\ f \in Place /\ d \in Place
      /\ To(c, "afterDataRef") \in Place
      /\ b.at = "valueSet" /\ r.at \in {"valueSet", "afterRawValue"}
      /\ l.at \in {"valueSet", "afterRawValue", "labelled"}
      /\ o.at \in {"valueSet", "afterRawValue", "labelled", "afterObjectRef"}
      /\ f.at \in {"valueSet", "afterRawValue", "labelled", "afterObjectRef", "afterDataRef"}
      /\ To(c, "afterDataRef").at = "afterDataRef"
  BY PlaceFacts DEF At
<1>2. /\ Into(c, "valueSet") = b
      /\ v.rawValue => r = To(b, "afterRawValue")
      /\ v.labValue # NULL => l = To(r, "labelled")
      /\ v.objectRef => o = To(l, "afterObjectRef")
      /\ To(o, "afterDataRef") = To(c, "afterDataRef")
      /\ To(To(c, "afterDataRef"), "afterDataRef") = To(c, "afterDataRef")
      /\ d = To(f, "valued")
  BY PlaceFacts
<1>3. n \in Nat /\ v.labValue \in LabValue \cup {NULL}
  BY DEF ValueSet
<1>4. start.event = "start" /\ start.element = "valueSet"
  BY EventFacts
<1>5. ValueSetEvents(v) = Enclosed(start, raw \o lab \o obj \o FlattenSeq(refs))
  BY DEF ValueSetEvents
<1>6. Leads(doc, b, raw, r)
  <2>1. "rawValue" \in {"data", "rawValue", "objectRef", "dataRef", "valueSetRelations"} /\ After["rawValue"] = "afterRawValue"
        /\ "valueSet" \in BeforeStart["rawValue"]
    BY DEF After, BeforeStart
  <2>2. CASE v.rawValue
    <3>1. Leads(doc, b, Element("rawValue", <<>>), To(b, After["rawValue"]))
      BY <1>1, <2>1, EmptyLeads
    <3>. QED
      BY <1>2, <2>1, <2>2, <3>1
  <2>3. CASE ~v.rawValue
    BY <1>1, <2>3, NothingLeads
  <2>. QED
    BY <2>2, <2>3
<1>7. Leads(doc, r, lab, l)
  <2>1. CASE v.labValue = NULL
    BY <1>1, <2>1, NothingLeads
  <2>2. CASE v.labValue # NULL
    <3>1. Leads(doc, r, LabValueEvents(v.labValue), To(r, "labelled"))
      BY <1>1, <1>3, <2>2, LabValueLeads
    <3>. QED
      BY <1>2, <2>2, <3>1
  <2>. QED
    BY <2>1, <2>2
<1>13. Leads(doc, l, obj, o)
  <2>1. After["objectRef"] = "afterObjectRef" /\ BeforeStart["objectRef"] = {"valueSet", "afterRawValue", "labelled"}
    BY DEF After, BeforeStart
  <2>2. CASE v.objectRef
    <3>1. Leads(doc, l, Element("objectRef", <<>>), To(l, After["objectRef"]))
      BY <1>1, <2>1, EmptyLeads
    <3>. QED
      BY <1>2, <2>1, <2>2, <3>1
  <2>3. CASE ~v.objectRef
    BY <1>1, <2>3, NothingLeads
  <2>. QED
    BY <2>2, <2>3
<1>8. Leads(doc, o, FlattenSeq(refs), f)
  <2>1. /\ place \in [0 .. n -> Place] /\ place[0] = o /\ place[n] = f
        /\ \A i \in 1 .. n : place[i - 1] \in {o, To(c, "afterDataRef")} /\ place[i] = To(c, "afterDataRef")
    <3>. HIDE DEF o
    <3>. QED
      BY <1>1, <1>3
  <2>2. refs = [i \in 1 .. n |-> refs[i]] /\ \A i \in 1 .. n : refs[i] = Element("dataRef", <<>>)
    OBVIOUS
  <2>. HIDE DEF place, refs, o, n, f
  <2>3. "dataRef" \in {"data", "rawValue", "objectRef", "dataRef", "valueSetRelations"} /\ After["dataRef"] = "afterDataRef"
        /\ BeforeStart["dataRef"] = {"valueSet", "afterRawValue", "labelled", "afterObjectRef", "afterDataRef"}
    BY DEF After, BeforeStart
  <2>4. ASSUME NEW i \in 1 .. n
        PROVE  Leads(doc, place[i - 1], refs[i], place[i])
    <3>. DEFINE p == place[i - 1]
    <3>1. p \in {o, To(c, "afterDataRef")} /\ place[i] = To(c, "afterDataRef") /\ refs[i] = Element("dataRef", <<>>)
      BY <2>1, <2>2
    <3>. HIDE DEF p
    <3>2. p \in Place /\ p.at \in BeforeStart["dataRef"]
      BY <1>1, <2>3, <3>1
    <3>3. Leads(doc, p, Element("dataRef", <<>>), To(p, After["dataRef"]))
      BY <2>3, <3>2, EmptyLeads
    <3>4. To(p, "afterDataRef") = To(c, "afterDataRef")
      BY <1>2, <3>1
    <3>5. Leads(doc, p, refs[i], place[i])
      BY <2>3, <3>1, <3>3, <3>4
    <3>. QED
      BY <3>5 DEF p
  <2>. QED
    BY <1>3, <2>1, <2>2, <2>4, AllLead
<1>. HIDE DEF b, r, l, o, f, d, start, raw, lab, obj, refs
<1>9. Leads(doc, b, raw \o lab \o obj \o FlattenSeq(refs), f)
  BY <1>6, <1>7, <1>8, <1>13, BothLead
<1>10. Begins(doc, c, start, b)
  <2>1. "valueSet" \in DOMAIN BeforeStart /\ BeforeStart["valueSet"] = {"named", "valued"}
    BY DEF BeforeStart
  <2>2. start.element \notin {"object", "data", "normData", "property"}
    BY <1>4
  <2>. QED
    BY <1>1, <1>2, <1>4, <2>1, <2>2 DEF Begins
<1>11. Finishes(doc, f, End(start.element), d)
  <2>1. "valueSet" \in DOMAIN BeforeEnd /\ After["valueSet"] = "valued"
        /\ BeforeEnd["valueSet"] = {"valueSet", "afterRawValue", "labelled", "afterObjectRef", "afterDataRef"}
    BY DEF BeforeEnd, After
  <2>. QED
    BY <1>1, <1>2, <1>4, <2>1, EventFacts DEF Finishes
<1>12. Leads(doc, c, ValueSetEvents(v), d)
  BY <1>1, <1>5, <1>9, <1>10, <1>11, EnclosedLeads
<1>. QED
  BY <1>12 DEF d

\* An element of a sequence.
LEMMA ElementOf ==
  ASSUME NEW S, NEW s \in Seq(S), NEW k \in 1 .. Len(s)
  PROVE  s[k] \in S /\ s[k] \in ToSet(s)
BY DEF ToSet

\* The parts of a document.
LEMMA DocumentParts ==
  ASSUME NEW doc \in Document, NEW o \in 1 .. Len(doc)
  PROVE  /\ doc[o] \in DocumentObject
         /\ Len(doc[o].properties) \in Nat /\ Len(doc[o].normData) \in Nat
         /\ doc[o].propertySets \in Nat
         /\ DOMAIN doc[o].properties = 1 .. Len(doc[o].properties)
         /\ DOMAIN doc[o].normData = 1 .. Len(doc[o].normData)
         /\ \A k \in 1 .. Len(doc[o].properties) :
              LET p == doc[o].properties[k]
              IN  /\ p \in Property /\ Len(p.valueSets) \in Nat \ {0}
                  /\ DOMAIN p.valueSets = 1 .. Len(p.valueSets)
                  /\ \A i \in 1 .. Len(p.valueSets) :
                       LET v == p.valueSets[i]
                       IN  /\ v \in ValueSet
                           /\ v.labValue # NULL /\ "ISO8601" \in ToSet(v.labValue.types) => HasDate(doc)
                           /\ i > 1 => Manifold(doc)
         /\ \A k \in 1 .. Len(doc[o].normData) :
              LET n == doc[o].normData[k]
              IN  /\ n.type \in STRING /\ Len(n.pieces) \in Nat \ {0}
                  /\ n.pieces \in [1 .. Len(n.pieces) -> Seq(Int)]
<1>1. doc \in Seq(DocumentObject) /\ doc[o] \in DocumentObject /\ o \in DOMAIN doc
  BY DEF Document
<1>2. /\ doc[o].properties \in Seq(Property) /\ doc[o].propertySets \in Nat
      /\ doc[o].normData \in Seq([type : STRING, pieces : SomePieces])
  BY <1>1 DEF DocumentObject
<1>3. ASSUME NEW k \in 1 .. Len(doc[o].properties)
      PROVE  LET p == doc[o].properties[k]
             IN  /\ p \in Property /\ Len(p.valueSets) \in Nat \ {0}
                 /\ DOMAIN p.valueSets = 1 .. Len(p.valueSets)
                 /\ \A i \in 1 .. Len(p.valueSets) :
                      LET v == p.valueSets[i]
                      IN  /\ v \in ValueSet
                          /\ v.labValue # NULL /\ "ISO8601" \in ToSet(v.labValue.types) => HasDate(doc)
                          /\ i > 1 => Manifold(doc)
  <2>. DEFINE p == doc[o].properties[k]
  <2>1. p \in Property /\ p.valueSets \in Seq(ValueSet) \ {<<>>}
    <3>1. p \in Property
      BY <1>2, ElementOf
    <3>. HIDE DEF p
    <3>. QED
      BY <3>1 DEF Property
  <2>2. doc[o] \in ToSet(doc) /\ p \in ToSet(doc[o].properties)
    BY <1>1, <1>2 DEF ToSet
  <2>. HIDE DEF p
  <2>3. Len(p.valueSets) \in Nat \ {0} /\ DOMAIN p.valueSets = 1 .. Len(p.valueSets)
    BY <2>1
  <2>4. ASSUME NEW i \in 1 .. Len(p.valueSets)
        PROVE  LET v == p.valueSets[i]
               IN  /\ v \in ValueSet
                   /\ v.labValue # NULL /\ "ISO8601" \in ToSet(v.labValue.types) => HasDate(doc)
                   /\ i > 1 => Manifold(doc)
    <3>1. p.valueSets[i] \in ValueSet /\ p.valueSets[i] \in ToSet(p.valueSets)
      BY <2>1, <2>3 DEF ToSet
    <3>2. i > 1 => Len(p.valueSets) > 1
      BY <2>3
    <3>. QED
      BY <2>2, <3>1, <3>2 DEF HasDate, Manifold
  <2>5. /\ p \in Property /\ Len(p.valueSets) \in Nat \ {0}
        /\ DOMAIN p.valueSets = 1 .. Len(p.valueSets)
        /\ \A i \in 1 .. Len(p.valueSets) :
             LET v == p.valueSets[i]
             IN  /\ v \in ValueSet
                 /\ v.labValue # NULL /\ "ISO8601" \in ToSet(v.labValue.types) => HasDate(doc)
                 /\ i > 1 => Manifold(doc)
    BY <2>1, <2>3, <2>4
  <2>. QED
    BY <2>5 DEF p
<1>4. ASSUME NEW k \in 1 .. Len(doc[o].normData)
      PROVE  LET n == doc[o].normData[k]
             IN  /\ n.type \in STRING /\ Len(n.pieces) \in Nat \ {0}
                 /\ n.pieces \in [1 .. Len(n.pieces) -> Seq(Int)]
  <2>1. doc[o].normData[k] \in [type : STRING, pieces : SomePieces]
    BY <1>2, ElementOf
  <2>. DEFINE n == doc[o].normData[k]
  <2>. HIDE DEF n
  <2>2. n.type \in STRING /\ n.pieces \in Seq(Seq(Int)) \ {<<>>}
    BY <2>1 DEF n, SomePieces
  <2>3. Len(n.pieces) \in Nat \ {0} /\ n.pieces \in [1 .. Len(n.pieces) -> Seq(Int)]
    BY <2>2
  <2>. QED
    BY <2>2, <2>3 DEF n
<1>. QED
  BY <1>1, <1>2, <1>3, <1>4

\* A property.
LEMMA PropertyLeads ==
  ASSUME NEW doc \in Document, NEW c \in Place, c.object \in 1 .. Len(doc),
         NEW k \in 1 .. Len(doc[c.object].properties), c.property = k - 1,
         c.at \in {"object", "afterData", "afterNormData", "afterProperty"},
         NEW d, d = [at |-> "afterProperty", object |-> c.object, normData |-> c.normData, property |-> k]
  PROVE  d \in Place /\ Leads(doc, c, PropertyEvents(doc[c.object].properties[k]), d)
<1>. DEFINE p == doc[c.object].properties[k]
            b == Into(c, "property")
            m == To(b, "name")
            t == To(b, "nameText")
            f == To(b, "named")
            v == To(b, "valued")
            n == Len(p.valueSets)
            sets == [i \in DOMAIN p.valueSets |-> ValueSetEvents(p.valueSets[i])]
            place == [i \in 0 .. n |-> IF i = 0 THEN f ELSE v]
<1>1. /\ b = [at |-> "property", object |-> c.object, normData |-> c.normData, property |-> k]
      /\ b \in Place
  BY DEF Into, Place, At
<1>2. /\ b.at = "property" /\ b.object = c.object /\ b.property = k
      /\ m \in Place /\ t \in Place /\ f \in Place /\ v \in Place /\ d \in Place
      /\ m.at = "name" /\ t.at = "nameText" /\ f.at = "named" /\ v.at = "valued"
      /\ m.object = c.object /\ m.property = k
      /\ t = To(m, "nameText") /\ f = To(t, "named") /\ v = To(f, "valued") /\ v = To(v, "valued")
      /\ m = Into(b, "name") /\ d = To(v, "afterProperty")
  <2>1. /\ m \in Place /\ t \in Place /\ f \in Place /\ v \in Place
        /\ m.at = "name" /\ t.at = "nameText" /\ f.at = "named" /\ v.at = "valued"
        /\ t = To(m, "nameText") /\ f = To(t, "named") /\ v = To(f, "valued") /\ v = To(v, "valued")
        /\ m = Into(b, "name") /\ To(b, "afterProperty") \in Place /\ To(v, "afterProperty") = To(b, "afterProperty")
        /\ m.object = b.object /\ m.property = b.property
    <3>. HIDE DEF b
    <3>1. {"name", "nameText", "named", "valued", "afterProperty"} \subseteq At
          /\ "name" \notin {"object", "normData", "property"}
      BY DEF At
    <3>. QED
      BY <1>1, <3>1, PlaceFacts
  <2>2. d = To(b, "afterProperty")
    BY <1>1 DEF To
  <2>. QED
    BY <1>1, <2>1, <2>2
<1>3. /\ n \in Nat \ {0} /\ DOMAIN p.valueSets = 1 .. n
      /\ \A i \in 1 .. n :
           LET w == p.valueSets[i]
           IN  /\ w \in ValueSet
               /\ w.labValue # NULL /\ "ISO8601" \in ToSet(w.labValue.types) => HasDate(doc)
               /\ i > 1 => Manifold(doc)
  BY DocumentParts
<1>4. PropertyEvents(p) = Enclosed(Start("property"), Enclosed(Start("name"), <<Chars(p.name)>>) \o FlattenSeq(sets))
  BY DEF PropertyEvents, Element
<1>5. Begins(doc, c, Start("property"), b)
  <2>1. "property" \in DOMAIN BeforeStart
        /\ BeforeStart["property"] = {"object", "afterData", "afterNormData", "afterProperty"}
    BY DEF BeforeStart
  <2>2. k <= Len(doc[c.object].properties)
    BY DocumentParts
  <2>3. b = Into(c, "property")
    OBVIOUS
  <2>. HIDE DEF b
  <2>. QED
    BY <1>2, <2>1, <2>2, <2>3, EventFacts DEF Begins
<1>6. Says(doc, m, Chars(p.name), t)
  <2>1. m.at = "name" /\ t = To(m, "nameText") /\ doc[m.object].properties[m.property] = p
    BY <1>2
  <2>2. p.name # NormData
    BY DocumentParts DEF Property
  <2>. HIDE DEF m, t, p
  <2>. QED
    BY <2>1, <2>2, EventFacts DEF Says, AfterText
<1>. HIDE DEF p, b, m, t, f, v, n
<1>7. /\ sets = [i \in 1 .. n |-> sets[i]]
      /\ \A i \in 1 .. n : sets[i] = ValueSetEvents(p.valueSets[i])
  BY <1>3
<1>8. /\ place \in [0 .. n -> Place] /\ place[0] = f /\ place[n] = v
      /\ \A i \in 1 .. n : place[i] = v /\ (place[i - 1] = f \/ (place[i - 1] = v /\ i > 1))
  BY <1>2, <1>3
<1>. HIDE DEF sets, place
<1>9. Leads(doc, b, Enclosed(Start("name"), <<Chars(p.name)>>), f)
  <2>1. Begins(doc, b, Start("name"), m)
    BY <1>2, EventFacts DEF Begins, BeforeStart
  <2>2. Finishes(doc, t, End(Start("name").element), f)
    BY <1>2, EventFacts DEF Finishes, BeforeEnd, After
  <2>3. Leads(doc, m, <<Chars(p.name)>>, t)
    BY <1>2, <1>6, OneLeads DEF Moves
  <2>. QED
    BY <1>1, <1>2, <2>1, <2>2, <2>3, EnclosedLeads
<1>10. ASSUME NEW i \in 1 .. n
       PROVE  Leads(doc, place[i - 1], sets[i], place[i])
  <2>1. CASE place[i - 1] = f
    <3>1. Leads(doc, f, ValueSetEvents(p.valueSets[i]), To(f, "valued"))
      BY <1>2, <1>3, ValueSetLeads
    <3>. QED
      BY <1>2, <1>7, <1>8, <2>1, <3>1
  <2>2. CASE place[i - 1] = v /\ i > 1
    <3>1. Leads(doc, v, ValueSetEvents(p.valueSets[i]), To(v, "valued"))
      BY <1>2, <1>3, <2>2, ValueSetLeads
    <3>. QED
      BY <1>2, <1>7, <1>8, <2>2, <3>1
  <2>. QED
    BY <1>8, <2>1, <2>2
<1>11. Leads(doc, f, FlattenSeq(sets), v)
  <2>1. n \in Nat
    BY <1>3
  <2>. QED
    BY <1>7, <1>8, <1>10, <2>1, AllLead
<1>12. Leads(doc, b, Enclosed(Start("name"), <<Chars(p.name)>>) \o FlattenSeq(sets), v)
  BY <1>9, <1>11, BothLead
<1>13. Finishes(doc, v, End(Start("property").element), d)
  <2>1. "property" \in DOMAIN BeforeEnd /\ After["property"] = "afterProperty" /\ BeforeEnd["property"] = {"valued"}
    BY DEF BeforeEnd, After
  <2>. QED
    BY <1>2, <2>1, EventFacts DEF Finishes
<1>14. Leads(doc, c, PropertyEvents(p), d)
  BY <1>1, <1>2, <1>4, <1>5, <1>12, <1>13, EnclosedLeads
<1>. QED
  BY <1>2, <1>14 DEF p

\* NormData, with its text in one piece or in several.
LEMMA NormDataLeads ==
  ASSUME NEW doc \in Document, NEW c \in Place, c.object \in 1 .. Len(doc),
         NEW k \in 1 .. Len(doc[c.object].normData), c.normData = k - 1,
         c.at \in {"object", "afterData", "afterNormData"},
         NEW d, d = [at |-> "afterNormData", object |-> c.object, normData |-> k, property |-> c.property]
  PROVE  d \in Place /\ Leads(doc, c, NormDataEvents(doc[c.object].normData[k]), d)
<1>. DEFINE p == doc[c.object].normData[k]
            b == Into(c, "normData")
            t == To(b, "normText")
            n == Len(p.pieces)
            start == [Start("normData") EXCEPT !.type = p.type]
            place == [i \in 0 .. n |-> IF i = 0 THEN b ELSE t]
<1>1. /\ b = [at |-> "normData", object |-> c.object, normData |-> k, property |-> c.property]
      /\ b \in Place
  BY DEF Into, Place, At
<1>2. /\ b.at = "normData" /\ b.object = c.object /\ b.normData = k
      /\ t \in Place /\ d \in Place
      /\ t.at = "normText" /\ t = To(b, "normText") /\ t = To(t, "normText")
      /\ d = To(t, "afterNormData")
  <2>1. /\ t \in Place /\ t.at = "normText" /\ t = To(t, "normText")
        /\ To(b, "afterNormData") \in Place /\ To(t, "afterNormData") = To(b, "afterNormData")
    <3>. HIDE DEF b
    <3>. QED
      BY <1>1, PlaceFacts DEF At
  <2>2. d = To(b, "afterNormData")
    BY <1>1 DEF To
  <2>. QED
    BY <1>1, <2>1, <2>2
<1>3. n \in Nat \ {0} /\ p.pieces \in [1 .. n -> Seq(Int)]
  BY DocumentParts
<1>4. NormDataEvents(p) = Enclosed(start, Pieces022(p.pieces)) /\ start.event = "start" /\ start.element = "normData"
  BY EventFacts DEF NormDataEvents
<1>5. Begins(doc, c, start, b)
  <2>1. "normData" \in DOMAIN BeforeStart
        /\ BeforeStart["normData"] = {"object", "afterData", "afterNormData"}
    BY DEF BeforeStart
  <2>2. k <= Len(doc[c.object].normData)
    BY DocumentParts
  <2>3. b = Into(c, "normData")
    OBVIOUS
  <2>. HIDE DEF b, start
  <2>. QED
    BY <1>2, <1>4, <2>1, <2>2, <2>3 DEF Begins
<1>. HIDE DEF p, b, t, n, start
<1>6. \A text : Says(doc, b, Chars(text), t) /\ Says(doc, t, Chars(text), t)
  BY <1>2, EventFacts DEF Says, AfterText
<1>7. /\ place \in [0 .. n -> Place] /\ place[0] = b /\ place[n] = t
      /\ \A i \in 1 .. n : place[i] = t /\ place[i - 1] \in {b, t}
  BY <1>1, <1>2, <1>3
<1>. HIDE DEF place
<1>8. \A i \in 1 .. n : Says(doc, place[i - 1], Chars(p.pieces[i]), place[i])
  BY <1>6, <1>7
<1>9. Leads(doc, b, Pieces022(p.pieces), t)
  BY <1>3, <1>7, <1>8, PiecesLead
<1>10. Finishes(doc, t, End(start.element), d)
  <2>1. "normData" \in DOMAIN BeforeEnd /\ After["normData"] = "afterNormData" /\ BeforeEnd["normData"] = {"normText"}
    BY DEF BeforeEnd, After
  <2>. QED
    BY <1>2, <1>4, <2>1, EventFacts DEF Finishes
<1>11. Leads(doc, c, NormDataEvents(p), d)
  BY <1>1, <1>2, <1>4, <1>5, <1>9, <1>10, EnclosedLeads
<1>. QED
  BY <1>2, <1>11 DEF p

\* A set of properties, which nobody reads.
LEMMA PropertySetLeads ==
  ASSUME NEW doc, NEW c \in Place,
         c.at \in {"object", "afterData", "afterNormData", "afterProperty", "afterPropertySet"}
  PROVE  Leads(doc, c, Element("propertySet", Element("valueSetRelations", <<>>)), To(c, "afterPropertySet"))
<1>. DEFINE b == To(c, "propertySet")
            f == To(c, "afterRelations")
            d == To(c, "afterPropertySet")
<1>1. /\ b \in Place /\ f \in Place /\ d \in Place
      /\ b.at = "propertySet" /\ f.at = "afterRelations"
      /\ Into(c, "propertySet") = b /\ f = To(b, "afterRelations") /\ d = To(f, "afterPropertySet")
  BY PlaceFacts DEF At
<1>. HIDE DEF b, f, d
<1>2. "valueSetRelations" \in {"data", "rawValue", "objectRef", "dataRef", "valueSetRelations"}
      /\ After["valueSetRelations"] = "afterRelations" /\ "propertySet" \in BeforeStart["valueSetRelations"]
  BY DEF After, BeforeStart
<1>3. Leads(doc, b, Element("valueSetRelations", <<>>), f)
  <2>1. Leads(doc, b, Element("valueSetRelations", <<>>), To(b, After["valueSetRelations"]))
    BY <1>1, <1>2, EmptyLeads
  <2>. QED
    BY <1>1, <1>2, <2>1
<1>4. Begins(doc, c, Start("propertySet"), b)
  <2>1. "propertySet" \in DOMAIN BeforeStart
        /\ BeforeStart["propertySet"] = {"object", "afterData", "afterNormData", "afterProperty", "afterPropertySet"}
    BY DEF BeforeStart
  <2>. QED
    BY <1>1, <2>1, EventFacts DEF Begins
<1>5. Finishes(doc, f, End(Start("propertySet").element), d)
  <2>1. "propertySet" \in DOMAIN BeforeEnd /\ BeforeEnd["propertySet"] = {"afterRelations"}
        /\ After["propertySet"] = "afterPropertySet"
    BY DEF BeforeEnd, After
  <2>. QED
    BY <1>1, <2>1, EventFacts DEF Finishes
<1>. QED
  BY <1>1, <1>3, <1>4, <1>5, EnclosedLeads DEF Element, d

\* Behind an object.
AfterObject(doc, o) ==
  [at |-> "xcdl", object |-> o, normData |-> Len(doc[o].normData), property |-> Len(doc[o].properties)]

\* An object.
LEMMA ObjectLeads ==
  ASSUME NEW doc \in Document, NEW o \in 1 .. Len(doc), NEW c \in Place, c.at = "xcdl", c.object = o - 1
  PROVE  AfterObject(doc, o) \in Place /\ Leads(doc, c, ObjectEvents(doc[o]), AfterObject(doc, o))
<1>. DEFINE ob == doc[o]
            m == Len(ob.normData)
            n == Len(ob.properties)
            s == ob.propertySets
            b == [at |-> "object", object |-> o, normData |-> 0, property |-> 0]
            a == IF ob.data THEN To(b, "afterData") ELSE b
            norm(i) == [at |-> "afterNormData", object |-> o, normData |-> i, property |-> 0]
            prop(i) == [at |-> "afterProperty", object |-> o, normData |-> m, property |-> i]
            g == IF m = 0 THEN a ELSE norm(m)
            h == IF n = 0 THEN g ELSE prop(n)
            q == To(h, "afterPropertySet")
            f == IF s = 0 THEN h ELSE q
            data == IF ob.data THEN Element("data", <<>>) ELSE <<>>
            norms == [i \in DOMAIN ob.normData |-> NormDataEvents(ob.normData[i])]
            props == [i \in DOMAIN ob.properties |-> PropertyEvents(ob.properties[i])]
            sets == [i \in 1 .. ob.propertySets |-> Element("propertySet", Element("valueSetRelations", <<>>))]
            place1 == [i \in 0 .. m |-> IF i = 0 THEN a ELSE norm(i)]
            place2 == [i \in 0 .. n |-> IF i = 0 THEN g ELSE prop(i)]
            place3 == [i \in 0 .. s |-> IF i = 0 THEN h ELSE q]
<1>1. /\ o \in Nat /\ m \in Nat /\ n \in Nat /\ s \in Nat
      /\ DOMAIN ob.normData = 1 .. m /\ DOMAIN ob.properties = 1 .. n
  BY DocumentParts
<1>2. /\ b \in Place /\ b.at = "object" /\ b.object = o /\ b.normData = 0 /\ b.property = 0
      /\ b = Into(c, "object")
  BY <1>1 DEF Place, At, Into
<1>3. /\ a \in Place /\ a.at \in {"object", "afterData"} /\ a.object = o /\ a.normData = 0 /\ a.property = 0
      /\ ob.data => a = To(b, "afterData")
  <2>. HIDE DEF b
  <2>1. "afterData" \in At
    BY DEF At
  <2>. QED
    BY <1>2, <2>1, PlaceFacts
<1>4. \A i \in 0 .. m : /\ norm(i) \in Place /\ norm(i).at = "afterNormData" /\ norm(i).object = o
                        /\ norm(i).normData = i /\ norm(i).property = 0
  BY <1>1 DEF Place, At
<1>5. \A i \in 0 .. n : /\ prop(i) \in Place /\ prop(i).at = "afterProperty" /\ prop(i).object = o
                        /\ prop(i).normData = m /\ prop(i).property = i
  BY <1>1 DEF Place, At
<1>6. ObjectEvents(ob) = Enclosed(Start("object"),
                           data \o FlattenSeq(norms) \o FlattenSeq(props) \o FlattenSeq(sets))
  BY DEF ObjectEvents, Element
<1>7. Begins(doc, c, Start("object"), b)
  <2>1. "object" \in DOMAIN BeforeStart /\ BeforeStart["object"] = {"xcdl"}
    BY DEF BeforeStart
  <2>2. o <= Len(doc)
    BY DEF Document
  <2>. HIDE DEF b
  <2>. QED
    BY <1>2, <2>1, <2>2, EventFacts DEF Begins
<1>8. /\ norms = [i \in 1 .. m |-> norms[i]] /\ \A i \in 1 .. m : norms[i] = NormDataEvents(ob.normData[i])
      /\ props = [i \in 1 .. n |-> props[i]] /\ \A i \in 1 .. n : props[i] = PropertyEvents(ob.properties[i])
      /\ sets = [i \in 1 .. s |-> sets[i]]
      /\ \A i \in 1 .. s : sets[i] = Element("propertySet", Element("valueSetRelations", <<>>))
  BY <1>1
<1>9. Leads(doc, b, data, a)
  <2>1. CASE ob.data
    <3>1. "data" \in {"data", "rawValue", "objectRef", "dataRef", "valueSetRelations"} /\ After["data"] = "afterData"
          /\ "object" \in BeforeStart["data"]
      BY DEF After, BeforeStart
    <3>. HIDE DEF b
    <3>2. Leads(doc, b, Element("data", <<>>), To(b, After["data"]))
      BY <1>2, <2>1, <3>1, EmptyLeads
    <3>. QED
      BY <1>3, <2>1, <3>1, <3>2
  <2>2. CASE ~ob.data
    BY <1>2, <2>2, NothingLeads
  <2>. QED
    BY <2>1, <2>2
<1>10. /\ g \in Place /\ g.at \in {"object", "afterData", "afterNormData"} /\ g.object = o /\ g.normData = m
       /\ g.property = 0
  <2>. HIDE DEF a, norm
  <2>. QED
    BY <1>1, <1>3, <1>4
<1>11. Leads(doc, a, FlattenSeq(norms), g)
  <2>1. /\ place1 \in [0 .. m -> Place] /\ place1[0] = a /\ place1[m] = g
        /\ \A i \in 1 .. m : /\ place1[i] = norm(i)
                             /\ place1[i - 1] = IF i = 1 THEN a ELSE norm(i - 1)
    <3>. HIDE DEF a, norm
    <3>. QED
      BY <1>1, <1>3, <1>4
  <2>2. ASSUME NEW i \in 1 .. m
        PROVE  Leads(doc, place1[i - 1], norms[i], place1[i])
    <3>. DEFINE p == place1[i - 1]
    <3>1. p \in Place /\ p.at \in {"object", "afterData", "afterNormData"} /\ p.object = o /\ p.normData = i - 1
          /\ p.property = 0
      <4>1. CASE i = 1
        BY <1>3, <2>1, <4>1
      <4>2. CASE i # 1
        <5>1. i - 1 \in 0 .. m
          BY <1>1
        <5>. HIDE DEF norm
        <5>. QED
          BY <1>4, <2>1, <4>2, <5>1
      <4>. QED
        BY <4>1, <4>2
    <3>. HIDE DEF place1, norms, a
    <3>2. /\ place1[i] = [at |-> "afterNormData", object |-> p.object, normData |-> i, property |-> p.property]
          /\ p.object \in 1 .. Len(doc) /\ norms[i] = NormDataEvents(doc[p.object].normData[i])
          /\ i \in 1 .. Len(doc[p.object].normData)
      BY <1>8, <2>1, <3>1
    <3>. HIDE DEF p
    <3>3. Leads(doc, p, norms[i], place1[i])
      BY <3>1, <3>2, NormDataLeads
    <3>. QED
      BY <3>3 DEF p
  <2>. HIDE DEF place1, norms, a, g, norm, m
  <2>. QED
    BY <1>1, <1>8, <2>1, <2>2, AllLead
<1>12. /\ h \in Place /\ h.object = o /\ h.normData = m /\ h.property = n
       /\ h.at \in {"object", "afterData", "afterNormData", "afterProperty"}
  <2>. HIDE DEF g, prop
  <2>. QED
    BY <1>1, <1>5, <1>10
<1>13. Leads(doc, g, FlattenSeq(props), h)
  <2>1. /\ place2 \in [0 .. n -> Place] /\ place2[0] = g /\ place2[n] = h
        /\ \A i \in 1 .. n : /\ place2[i] = prop(i)
                             /\ place2[i - 1] = IF i = 1 THEN g ELSE prop(i - 1)
    <3>. HIDE DEF g, prop
    <3>. QED
      BY <1>1, <1>5, <1>10
  <2>2. ASSUME NEW i \in 1 .. n
        PROVE  Leads(doc, place2[i - 1], props[i], place2[i])
    <3>. DEFINE p == place2[i - 1]
    <3>1. /\ p \in Place /\ p.at \in {"object", "afterData", "afterNormData", "afterProperty"}
          /\ p.object = o /\ p.normData = m /\ p.property = i - 1
      <4>1. CASE i = 1
        <5>. HIDE DEF g
        <5>. QED
          BY <1>10, <2>1, <4>1
      <4>2. CASE i # 1
        <5>1. i - 1 \in 0 .. n
          BY <1>1
        <5>. HIDE DEF prop
        <5>. QED
          BY <1>5, <2>1, <4>2, <5>1
      <4>. QED
        BY <4>1, <4>2
    <3>. HIDE DEF place2, props, g
    <3>2. /\ place2[i] = [at |-> "afterProperty", object |-> p.object, normData |-> p.normData, property |-> i]
          /\ p.object \in 1 .. Len(doc) /\ props[i] = PropertyEvents(doc[p.object].properties[i])
          /\ i \in 1 .. Len(doc[p.object].properties)
      BY <1>8, <2>1, <3>1
    <3>. HIDE DEF p
    <3>3. Leads(doc, p, props[i], place2[i])
      BY <3>1, <3>2, PropertyLeads
    <3>. QED
      BY <3>3 DEF p
  <2>. HIDE DEF place2, props, g, h, prop, n
  <2>. QED
    BY <1>1, <1>8, <2>1, <2>2, AllLead
<1>14. /\ q \in Place /\ q.at = "afterPropertySet" /\ q = To(h, "afterPropertySet") /\ q = To(q, "afterPropertySet")
       /\ q.object = o /\ q.normData = m /\ q.property = n
  <2>. HIDE DEF h
  <2>1. "afterPropertySet" \in At
    BY DEF At
  <2>. QED
    BY <1>12, <2>1, PlaceFacts
<1>15. Leads(doc, h, FlattenSeq(sets), f)
  <2>. HIDE DEF h, q
  <2>1. /\ place3 \in [0 .. s -> Place] /\ place3[0] = h /\ place3[s] = f
        /\ \A i \in 1 .. s : place3[i] = q /\ place3[i - 1] \in {h, q}
    BY <1>1, <1>12, <1>14
  <2>. HIDE DEF place3, sets, f, s
  <2>2. ASSUME NEW i \in 1 .. s
        PROVE  Leads(doc, place3[i - 1], sets[i], place3[i])
    <3>1. place3[i - 1] \in {h, q} /\ place3[i] = q /\ sets[i] = Element("propertySet", Element("valueSetRelations", <<>>))
      BY <1>8, <2>1
    <3>2. Leads(doc, h, Element("propertySet", Element("valueSetRelations", <<>>)), q)
      BY <1>12, <1>14, PropertySetLeads
    <3>3. Leads(doc, q, Element("propertySet", Element("valueSetRelations", <<>>)), q)
      BY <1>14, PropertySetLeads
    <3>. QED
      BY <3>1, <3>2, <3>3
  <2>. QED
    BY <1>1, <1>8, <2>1, <2>2, AllLead
<1>16. /\ f \in Place /\ f.object = o /\ f.normData = m /\ f.property = n
       /\ f.at \in {"object", "afterData", "afterNormData", "afterProperty", "afterPropertySet"}
  <2>. HIDE DEF h, q
  <2>. QED
    BY <1>12, <1>14
<1>17. /\ AfterObject(doc, o) \in Place /\ AfterObject(doc, o) = To(f, "xcdl")
  <2>1. AfterObject(doc, o) \in Place
    BY <1>1 DEF AfterObject, Place, At
  <2>. HIDE DEF f
  <2>. QED
    BY <1>16, <2>1 DEF AfterObject, To
<1>. HIDE DEF b, a, g, h, q, f, data, norms, props, sets
<1>18. Leads(doc, b, data \o FlattenSeq(norms) \o FlattenSeq(props) \o FlattenSeq(sets), f)
  <2>1. Leads(doc, b, data \o FlattenSeq(norms), g)
    BY <1>9, <1>11, BothLead
  <2>2. Leads(doc, b, data \o FlattenSeq(norms) \o FlattenSeq(props), h)
    BY <1>13, <2>1, BothLead
  <2>. QED
    BY <1>15, <2>2, BothLead
<1>19. Finishes(doc, f, End(Start("object").element), AfterObject(doc, o))
  <2>1. "object" \in DOMAIN BeforeEnd /\ After["object"] = "xcdl"
        /\ BeforeEnd["object"] = {"object", "afterData", "afterNormData", "afterProperty", "afterPropertySet"}
    BY DEF BeforeEnd, After
  <2>2. "object" # "xcdl"
    OBVIOUS
  <2>. QED
    BY <1>16, <1>17, <2>1, <2>2, EventFacts DEF Finishes
<1>20. Leads(doc, c, ObjectEvents(ob), AfterObject(doc, o))
  BY <1>2, <1>6, <1>7, <1>16, <1>17, <1>18, <1>19, EnclosedLeads
<1>. QED
  BY <1>17, <1>20

\* Behind a document.
AfterDocument(doc) == To(AfterObject(doc, Len(doc)), "end")

\* A document.
LEMMA DocumentLeads ==
  ASSUME NEW doc \in Document
  PROVE  Leads(doc, Outside, DocumentEvents(doc), AfterDocument(doc))
<1>. DEFINE b == To(Outside, "xcdl")
            n == Len(doc)
            f == AfterObject(doc, n)
            objects == [i \in DOMAIN doc |-> ObjectEvents(doc[i])]
            place == [i \in 0 .. n |-> IF i = 0 THEN b ELSE AfterObject(doc, i)]
<1>1. n \in Nat \ {0} /\ DOMAIN doc = 1 .. n
  BY DEF Document
<1>2. /\ Outside \in Place /\ Outside.at = "before" /\ b \in Place /\ b.at = "xcdl" /\ b.object = 0
      /\ Into(Outside, "xcdl") = b
  BY DEF Outside, Place, At, To, Into
<1>3. \A i \in 1 .. n : /\ AfterObject(doc, i) \in Place /\ AfterObject(doc, i).at = "xcdl"
                        /\ AfterObject(doc, i).object = i
  <2>. TAKE i \in 1 .. n
  <2>1. Len(doc[i].normData) \in Nat /\ Len(doc[i].properties) \in Nat
    BY DocumentParts
  <2>. QED
    BY <1>1, <2>1 DEF AfterObject, Place, At
<1>. HIDE DEF b
<1>4. /\ objects = [i \in 1 .. n |-> objects[i]] /\ \A i \in 1 .. n : objects[i] = ObjectEvents(doc[i])
  BY <1>1
<1>5. /\ place \in [0 .. n -> Place] /\ place[0] = b /\ place[n] = f
      /\ \A i \in 1 .. n : /\ place[i] = AfterObject(doc, i) /\ place[i - 1] \in Place
                           /\ place[i - 1].at = "xcdl" /\ place[i - 1].object = i - 1
  <2>1. place \in [0 .. n -> Place] /\ place[0] = b /\ place[n] = f
    BY <1>1, <1>2, <1>3
  <2>2. ASSUME NEW i \in 1 .. n
        PROVE  place[i - 1] \in Place /\ place[i - 1].at = "xcdl" /\ place[i - 1].object = i - 1
    <3>1. CASE i = 1
      BY <1>1, <1>2, <3>1
    <3>2. CASE i # 1
      <4>1. i - 1 \in 1 .. n /\ place[i - 1] = AfterObject(doc, i - 1)
        BY <1>1, <3>2
      <4>. QED
        BY <1>3, <4>1
    <3>. QED
      BY <3>1, <3>2
  <2>3. \A i \in 1 .. n : place[i] = AfterObject(doc, i)
    BY <1>1
  <2>. QED
    BY <2>1, <2>2, <2>3
<1>. HIDE DEF place, objects
<1>6. \A i \in 1 .. n : Leads(doc, place[i - 1], objects[i], place[i])
  BY <1>4, <1>5, ObjectLeads
<1>7. Leads(doc, b, FlattenSeq(objects), f)
  <2>1. n \in Nat
    BY <1>1
  <2>. HIDE DEF n, f
  <2>. QED
    BY <1>4, <1>5, <1>6, <2>1, AllLead
<1>8. f \in Place /\ f.at = "xcdl" /\ f.object = n
  BY <1>1, <1>3
<1>9. Begins(doc, Outside, Start("xcdl"), b)
  <2>1. "xcdl" \in DOMAIN BeforeStart /\ BeforeStart["xcdl"] = {"before"}
    BY DEF BeforeStart
  <2>. QED
    BY <1>2, <2>1, EventFacts DEF Begins
<1>10. To(f, "end") \in Place
  BY <1>8, PlaceFacts DEF At
<1>11. Finishes(doc, f, End(Start("xcdl").element), To(f, "end"))
  <2>1. "xcdl" \in DOMAIN BeforeEnd /\ After["xcdl"] = "end" /\ BeforeEnd["xcdl"] = {"xcdl"}
    BY DEF BeforeEnd, After
  <2>. QED
    BY <1>8, <2>1, EventFacts DEF Finishes
<1>12. DocumentEvents(doc) = Enclosed(Start("xcdl"), FlattenSeq(objects))
  BY DEF DocumentEvents, Element, objects
<1>. QED
  BY <1>2, <1>7, <1>8, <1>9, <1>10, <1>11, <1>12, EnclosedLeads DEF AfterDocument

\* Events lead by the first of them.
LEMMA LeadsOn ==
  ASSUME NEW doc, NEW c, NEW d, NEW events, Leads(doc, c, events, d)
  PROVE  /\ c \in Place /\ d \in Place
         /\ events = <<>> => c = d
         /\ events # <<>> => \E b \in Place : Moves(doc, c, Head(events), b) /\ Leads(doc, b, Tail(events), d)
<1>1. PICK S : events \in Seq(S)
  BY DEF Leads, IsList
<1>. DEFINE n == Len(events)
<1>2. n \in Nat
  BY <1>1
<1>3. PICK p \in [0 .. n -> Place] :
        /\ p[0] = c /\ p[n] = d
        /\ \A i \in 1 .. n : Moves(doc, p[i - 1], events[i], p[i])
  BY DEF Leads
<1>4. c \in Place /\ d \in Place /\ (events = <<>> => c = d)
  <2>1. 0 \in 0 .. n /\ n \in 0 .. n /\ (events = <<>> => n = 0)
    BY <1>1, <1>2
  <2>. QED
    BY <1>3, <2>1
<1>5. ASSUME events # <<>>
      PROVE  \E b \in Place : Moves(doc, c, Head(events), b) /\ Leads(doc, b, Tail(events), d)
  <2>. DEFINE rest == Tail(events)
              q == [i \in 0 .. n - 1 |-> p[i + 1]]
  <2>1. /\ n >= 1 /\ Head(events) = events[1] /\ rest \in Seq(S) /\ Len(rest) = n - 1
        /\ \A i \in 1 .. n - 1 : rest[i] = events[i + 1]
    BY <1>1, <1>5
  <2>. HIDE DEF n, rest
  <2>2. 1 \in 0 .. n /\ 1 \in 1 .. n /\ 1 - 1 = 0
    BY <1>2, <2>1
  <2>3. p[1] \in Place /\ Moves(doc, c, Head(events), p[1])
    <3>1. Moves(doc, p[1 - 1], events[1], p[1])
      BY <1>3, <2>2
    <3>. QED
      BY <1>3, <2>1, <2>2, <3>1
  <2>4. /\ q \in [0 .. n - 1 -> Place] /\ q[0] = p[1] /\ q[n - 1] = d
        /\ \A i \in 0 .. n - 1 : q[i] = p[i + 1]
    BY <1>2, <1>3, <2>1
  <2>. HIDE DEF q
  <2>5. ASSUME NEW i \in 1 .. n - 1
        PROVE  Moves(doc, q[i - 1], rest[i], q[i])
    <3>1. i + 1 \in 1 .. n /\ (i + 1) - 1 = i /\ i - 1 \in 0 .. n - 1 /\ i \in 0 .. n - 1 /\ (i - 1) + 1 = i
      BY <1>2
    <3>2. Moves(doc, p[(i + 1) - 1], events[i + 1], p[i + 1])
      BY <1>3, <3>1
    <3>3. q[i - 1] = p[(i - 1) + 1] /\ q[i] = p[i + 1] /\ rest[i] = events[i + 1]
      BY <2>1, <2>4, <3>1
    <3>. QED
      BY <3>1, <3>2, <3>3
  <2>6. Leads(doc, p[1], rest, d)
    <3>1. IsList(rest)
      BY <2>1 DEF IsList
    <3>. QED
      BY <2>1, <2>4, <2>5, <3>1 DEF Leads
  <2>. QED
    BY <2>3, <2>6 DEF rest
<1>. QED
  BY <1>4, <1>5

-----------------------------------------------------------------------------
\* A place that there is in a document.
Proper(doc, c) ==
  /\ c \in Place /\ c.object <= Len(doc)
  /\ c.at = "before" => c.object = 0
  /\ c.at \notin {"before", "xcdl"} => c.object >= 1
  /\ c.at \in {"xcdl", "end"} /\ c.object >= 1 =>
       c.normData = Len(doc[c.object].normData) /\ c.property = Len(doc[c.object].properties)

\* An event leads from a proper place to a proper one.
LEMMA MovesStayProper ==
  ASSUME NEW doc \in Document, NEW c, Proper(doc, c), NEW e, NEW d \in Place, Moves(doc, c, e, d)
  PROVE  Proper(doc, d)
<1>1. Len(doc) \in Nat \ {0} /\ c.object \in Nat /\ c.at \in At
  BY DEF Document, Proper, Place
<1>2. CASE Begins(doc, c, e, d)
  <2>1. d = Into(c, e.element) /\ e.element \in DOMAIN BeforeStart /\ c.at \in BeforeStart[e.element]
        /\ (e.element = "object" => d.object <= Len(doc))
    BY <1>2 DEF Begins
  <2>2. d.at = e.element /\ (e.element = "object" => d.object = c.object + 1)
        /\ (e.element # "object" => d.object = c.object)
    BY <2>1 DEF Into, To
  <2>3. e.element # "end" /\ (e.element \notin {"xcdl", "object"} => c.at \notin {"before", "xcdl"})
        /\ (e.element = "xcdl" => c.at = "before")
    BY <2>1 DEF BeforeStart
  <2>4. d.at # "before"
    BY <2>1, <2>2 DEF BeforeStart
  <2>. QED
    BY <1>1, <2>1, <2>2, <2>3, <2>4 DEF Proper
<1>3. CASE Says(doc, c, e, d)
  <2>1. c.at \in DOMAIN AfterText /\ d = To(c, AfterText[c.at])
    BY <1>3 DEF Says
  <2>2. d.object = c.object /\ d.at \notin {"before", "xcdl", "end"} /\ c.at \notin {"before", "xcdl"}
    BY <2>1 DEF AfterText, To
  <2>. QED
    BY <1>1, <2>2 DEF Proper
<1>4. CASE Finishes(doc, c, e, d)
  <2>1. /\ e.element \in DOMAIN BeforeEnd /\ c.at \in BeforeEnd[e.element]
        /\ d = To(c, After[e.element])
        /\ e.element = "object" =>
             c.normData = Len(doc[c.object].normData) /\ c.property = Len(doc[c.object].properties)
        /\ e.element = "xcdl" => c.object = Len(doc)
    BY <1>4 DEF Finishes
  <2>2. /\ d.object = c.object /\ d.at = After[e.element] /\ d.normData = c.normData /\ d.property = c.property
    BY <2>1 DEF To
  <2>3. CASE e.element = "xcdl"
    <3>1. c.at = "xcdl" /\ d.at = "end"
      BY <2>1, <2>2, <2>3 DEF BeforeEnd, After
    <3>. QED
      BY <1>1, <2>1, <2>2, <2>3, <3>1 DEF Proper
  <2>4. CASE e.element = "object"
    <3>1. c.at \notin {"before", "xcdl"} /\ d.at = "xcdl"
      BY <2>1, <2>2, <2>4 DEF BeforeEnd, After
    <3>. QED
      BY <1>1, <2>1, <2>2, <2>4, <3>1 DEF Proper
  <2>5. CASE e.element \notin {"xcdl", "object"}
    <3>1. c.at \notin {"before", "xcdl"} /\ d.at \notin {"before", "xcdl", "end"}
      BY <2>1, <2>2, <2>5 DEF BeforeEnd, After
    <3>. QED
      BY <1>1, <2>2, <3>1 DEF Proper
  <2>. QED
    BY <2>3, <2>4, <2>5
<1>. QED
  BY <1>2, <1>3, <1>4 DEF Moves

-----------------------------------------------------------------------------
\* Which property of the first object is the first of a name.
IsFirst(doc, k, n) ==
  /\ k \in 1 .. Len(doc[1].properties) /\ doc[1].properties[k].name = n
  /\ \A j \in 1 .. k - 1 : doc[1].properties[j].name # n

\* Places between the name of that property, or the text of the first
\* normData, and its end; and places behind it.
InName ==
  {"nameText", "named", "valueSet", "rawValue", "afterRawValue", "labValue", "val", "afterVal",
   "type", "afterType", "labelled", "objectRef", "afterObjectRef", "dataRef", "afterDataRef", "valued"}
InWindow(doc, c, n) ==
  /\ c.object = 1
  /\ IF n = NormData THEN c.at = "normText" /\ c.normData = 1 ELSE c.at \in InName /\ IsFirst(doc, c.property, n)
Past(doc, c, n) ==
  \/ c.object > 1
  \/ c.object = 1 /\ n = NormData /\ (c.normData > 1 \/ (c.normData = 1 /\ c.at \notin {"normData", "normText"}))
  \/ /\ c.object = 1 /\ n # NormData
     /\ \E k : IsFirst(doc, k, n) /\ (c.property > k \/ (c.property = k /\ c.at \notin InName \cup {"property", "name"}))

\* There is a first of what there is.
LEMMA FirstExists ==
  ASSUME NEW doc \in Document, NEW n, \E k \in 1 .. Len(doc[1].properties) : doc[1].properties[k].name = n
  PROVE  \E k : IsFirst(doc, k, n)
<1>. DEFINE m == Len(doc[1].properties)
            Good == {i \in Nat : \A k \in 1 .. m : k <= i /\ doc[1].properties[k].name = n => \E j : IsFirst(doc, j, n)}
<1>1. m \in Nat
  <2>1. 1 \in 1 .. Len(doc)
    BY DEF Document
  <2>. QED
    BY <2>1, DocumentParts
<1>2. 0 \in Good
  OBVIOUS
<1>3. ASSUME NEW i \in Nat, i \in Good
      PROVE  i + 1 \in Good
  <2>. SUFFICES ASSUME NEW k \in 1 .. m, k <= i + 1, doc[1].properties[k].name = n
       PROVE  \E j : IsFirst(doc, j, n)
    OBVIOUS
  <2>1. CASE \E j \in 1 .. k - 1 : doc[1].properties[j].name = n
    <3>1. PICK j \in 1 .. k - 1 : doc[1].properties[j].name = n
      BY <2>1
    <3>2. j \in 1 .. m /\ j <= i
      BY <1>1
    <3>. QED
      BY <1>3, <3>1, <3>2
  <2>2. CASE \A j \in 1 .. k - 1 : doc[1].properties[j].name # n
    BY <2>2 DEF IsFirst
  <2>. QED
    BY <2>1, <2>2
<1>4. Nat \subseteq Good
  <2>. HIDE DEF Good
  <2>. QED
    BY <1>2, <1>3, Induction
<1>5. m \in Good
  <2>. HIDE DEF Good
  <2>. QED
    BY <1>1, <1>4
<1>6. PICK k \in 1 .. m : doc[1].properties[k].name = n
  OBVIOUS
<1>7. k <= m
  BY <1>1
<1>. QED
  BY <1>5, <1>6, <1>7

\* What a document has is in its first object.
LEMMA HasFacts ==
  ASSUME NEW doc \in Document, NEW n, Has(doc, n)
  PROVE  IF n = NormData THEN Len(doc[1].normData) >= 1 ELSE \E k : IsFirst(doc, k, n)
<1>1. 1 \in 1 .. Len(doc)
  BY DEF Document
<1>2. CASE n = NormData
  <2>1. doc[1].normData # <<>>
    BY <1>2 DEF Has
  <2>2. doc[1].normData \in Seq([type : STRING, pieces : SomePieces])
    BY <1>1, DocumentParts DEF DocumentObject
  <2>. QED
    BY <1>2, <2>1, <2>2
<1>3. CASE n # NormData
  <2>1. \E k \in 1 .. Len(doc[1].properties) : doc[1].properties[k].name = n
    <3>1. \E p \in ToSet(doc[1].properties) : p.name = n
      BY <1>3 DEF Has
    <3>2. DOMAIN doc[1].properties = 1 .. Len(doc[1].properties)
      BY <1>1, DocumentParts
    <3>. QED
      BY <3>1, <3>2 DEF ToSet
  <2>. QED
    BY <1>3, <2>1, FirstExists
<1>. QED
  BY <1>2, <1>3

\* Where an event leads.
LEMMA MoveFacts ==
  ASSUME NEW doc, NEW c \in Place, NEW e, NEW d, Moves(doc, c, e, d)
  PROVE  \/ /\ e.event = "start" /\ Begins(doc, c, e, d) /\ d.at = e.element
            /\ d.object = IF d.at = "object" THEN c.object + 1 ELSE c.object
            /\ d.normData = CASE d.at = "object" -> 0 [] d.at = "normData" -> c.normData + 1 [] OTHER -> c.normData
            /\ d.property = CASE d.at = "object" -> 0 [] d.at = "property" -> c.property + 1 [] OTHER -> c.property
            /\ d.at \in DOMAIN BeforeStart /\ c.at \in BeforeStart[d.at]
         \/ /\ e.event = "characters" /\ Says(doc, c, e, d) /\ c.at \in DOMAIN AfterText /\ d.at = AfterText[c.at]
            /\ d.object = c.object /\ d.normData = c.normData /\ d.property = c.property
         \/ /\ e.event = "end" /\ Finishes(doc, c, e, d)
            /\ e.element \in DOMAIN BeforeEnd /\ c.at \in BeforeEnd[e.element] /\ d.at = After[e.element]
            /\ d.object = c.object /\ d.normData = c.normData /\ d.property = c.property
<1>1. CASE Begins(doc, c, e, d)
  <2>1. d = Into(c, e.element) /\ e.element \in DOMAIN BeforeStart /\ c.at \in BeforeStart[e.element] /\ e.event = "start"
    BY <1>1 DEF Begins
  <2>2. /\ d.at = e.element
        /\ d.object = IF d.at = "object" THEN c.object + 1 ELSE c.object
        /\ d.normData = CASE d.at = "object" -> 0 [] d.at = "normData" -> c.normData + 1 [] OTHER -> c.normData
        /\ d.property = CASE d.at = "object" -> 0 [] d.at = "property" -> c.property + 1 [] OTHER -> c.property
    BY <2>1 DEF Into, To
  <2>. QED
    BY <1>1, <2>1, <2>2
<1>2. CASE Says(doc, c, e, d)
  BY <1>2 DEF Says, To
<1>3. CASE Finishes(doc, c, e, d)
  BY <1>3 DEF Finishes, To
<1>. QED
  BY <1>1, <1>2, <1>3 DEF Moves

\* A window is entered by the text that opens it.
LEMMA WindowComes ==
  ASSUME NEW doc \in Document, NEW c, Proper(doc, c), NEW e, NEW d \in Place, Moves(doc, c, e, d), NEW n,
         InWindow(doc, d, n)
  PROVE  \/ InWindow(doc, c, n)
         \/ /\ Says(doc, c, e, d)
            /\ IF n = NormData THEN c.at = "normData" ELSE c.at = "name" /\ e.text = n
<1>1. c \in Place /\ d.object = 1
  BY DEF Proper, InWindow
<1>2. CASE n = NormData
  <2>1. d.at = "normText" /\ d.normData = 1
    BY <1>2 DEF InWindow
  <2>2. CASE e.event = "start"
    <3>1. "normText" \in DOMAIN BeforeStart
      BY <1>1, <2>1, <2>2, MoveFacts
    <3>. QED
      BY <3>1 DEF BeforeStart
  <2>3. CASE e.event = "end"
    <3>1. e.element \in DOMAIN BeforeEnd /\ "normText" = After[e.element]
      BY <1>1, <2>1, <2>3, MoveFacts
    <3>. QED
      BY <3>1 DEF BeforeEnd, After
  <2>4. CASE e.event = "characters"
    <3>1. /\ Says(doc, c, e, d) /\ c.at \in DOMAIN AfterText /\ "normText" = AfterText[c.at]
          /\ c.object = 1 /\ c.normData = 1
      BY <1>1, <2>1, <2>4, MoveFacts
    <3>2. c.at \in {"normData", "normText"}
      BY <3>1 DEF AfterText
    <3>. QED
      BY <1>2, <3>1, <3>2 DEF InWindow
  <2>. QED
    BY <1>1, <2>2, <2>3, <2>4, MoveFacts
<1>3. CASE n # NormData
  <2>1. d.at \in InName /\ IsFirst(doc, d.property, n)
    BY <1>3 DEF InWindow
  <2>2. CASE e.event = "start"
    <3>1. /\ d.at \in DOMAIN BeforeStart /\ c.at \in BeforeStart[d.at] /\ d.at \notin {"object", "property"}
          /\ c.object = 1 /\ c.property = d.property
      <4>1. d.at \notin {"object", "property"}
        BY <2>1 DEF InName
      <4>. QED
        BY <1>1, <2>2, <4>1, MoveFacts
    <3>2. c.at \in InName
      BY <2>1, <3>1 DEF BeforeStart, InName
    <3>. QED
      BY <1>3, <2>1, <3>1, <3>2 DEF InWindow
  <2>3. CASE e.event = "end"
    <3>1. /\ e.element \in DOMAIN BeforeEnd /\ c.at \in BeforeEnd[e.element] /\ d.at = After[e.element]
          /\ c.object = 1 /\ c.property = d.property
      BY <1>1, <2>3, MoveFacts
    <3>2. c.at \in InName
      BY <2>1, <3>1 DEF BeforeEnd, After, InName
    <3>. QED
      BY <1>3, <2>1, <3>1, <3>2 DEF InWindow
  <2>4. CASE e.event = "characters"
    <3>1. /\ Says(doc, c, e, d) /\ c.at \in DOMAIN AfterText /\ d.at = AfterText[c.at]
          /\ c.object = 1 /\ c.property = d.property
      BY <1>1, <2>4, MoveFacts
    <3>2. c.at \in InName \cup {"name"}
      BY <2>1, <3>1 DEF AfterText, InName
    <3>3. c.at = "name" => e.text = n
      BY <2>1, <3>1 DEF Says, IsFirst
    <3>. QED
      BY <1>3, <2>1, <3>1, <3>2, <3>3 DEF InWindow
  <2>. QED
    BY <1>1, <2>2, <2>3, <2>4, MoveFacts
<1>. QED
  BY <1>2, <1>3

\* What a document has is past by its window.
LEMMA PastComes ==
  ASSUME NEW doc \in Document, NEW c, Proper(doc, c), NEW e, NEW d \in Place, Moves(doc, c, e, d), NEW n,
         Has(doc, n), Past(doc, d, n)
  PROVE  \/ Past(doc, c, n)
         \/ /\ InWindow(doc, c, n) /\ Finishes(doc, c, e, d)
            /\ e.element = IF n = NormData THEN "normData" ELSE "property"
<1>1. /\ c \in Place /\ c.object \in Nat /\ c.normData \in Nat /\ c.property \in Nat
      /\ d.object \in Nat /\ d.normData \in Nat /\ d.property \in Nat
      /\ Len(doc[1].normData) \in Nat /\ Len(doc[1].properties) \in Nat
  <2>1. 1 \in 1 .. Len(doc)
    BY DEF Document
  <2>2. c \in Place
    BY DEF Proper
  <2>. QED
    BY <2>1, <2>2, DocumentParts DEF Place
<1>2. CASE c.object > 1
  BY <1>2 DEF Past
<1>3. CASE e.event = "start" /\ d.at = "object" /\ c.object <= 1
  <2>1. c.at = "xcdl" /\ d.object = c.object + 1 /\ d.normData = 0 /\ d.property = 0
    <3>1. c.at \in BeforeStart["object"] /\ d.object = c.object + 1 /\ d.normData = 0 /\ d.property = 0
      BY <1>1, <1>3, MoveFacts
    <3>. QED
      BY <3>1 DEF BeforeStart
  <2>2. CASE c.object = 0
    <3>1. ~Past(doc, d, n)
      BY <1>1, <2>1, <2>2 DEF Past, IsFirst
    <3>. QED
      BY <3>1
  <2>3. CASE c.object = 1
    <3>1. c.normData = Len(doc[1].normData) /\ c.property = Len(doc[1].properties)
      BY <2>1, <2>3 DEF Proper
    <3>2. CASE n = NormData
      <4>1. c.normData >= 1
        BY <3>1, <3>2, HasFacts
      <4>2. c.normData > 1 \/ c.normData = 1
        BY <1>1, <4>1
      <4>. QED
        BY <2>1, <2>3, <3>2, <4>2 DEF Past
    <3>3. CASE n # NormData
      <4>1. PICK k : IsFirst(doc, k, n)
        BY <3>3, HasFacts
      <4>2. k \in 1 .. Len(doc[1].properties)
        BY <4>1 DEF IsFirst
      <4>3. "xcdl" \notin InName \cup {"property", "name"}
        BY DEF InName
      <4>4. c.property > k \/ c.property = k
        BY <1>1, <3>1, <4>2
      <4>. QED
        BY <2>1, <2>3, <3>3, <4>1, <4>3, <4>4 DEF Past
    <3>. QED
      BY <3>2, <3>3
  <2>. QED
    BY <1>1, <1>3, <2>2, <2>3
<1>4. CASE c.object <= 1 /\ ~(e.event = "start" /\ d.at = "object") /\ n = NormData
  <2>1. d.object = c.object
    BY <1>1, <1>4, MoveFacts
  <2>2. c.object = 1 /\ (d.normData > 1 \/ (d.normData = 1 /\ d.at \notin {"normData", "normText"}))
    BY <1>1, <1>4, <2>1 DEF Past
  <2>3. CASE e.event = "start"
    <3>1. /\ d.normData = (IF d.at = "normData" THEN c.normData + 1 ELSE c.normData)
          /\ d.at \in DOMAIN BeforeStart /\ c.at \in BeforeStart[d.at]
      BY <1>1, <1>4, <2>3, MoveFacts
    <3>2. c.at \notin {"normData", "normText"}
      BY <3>1 DEF BeforeStart
    <3>. QED
      BY <1>1, <1>4, <2>2, <3>1, <3>2 DEF Past
  <2>4. CASE e.event = "characters"
    <3>1. c.at \in DOMAIN AfterText /\ d.at = AfterText[c.at] /\ d.normData = c.normData
      BY <1>1, <2>4, MoveFacts
    <3>2. c.at \in {"normData", "normText"} => d.at \in {"normData", "normText"}
      BY <3>1 DEF AfterText
    <3>. QED
      BY <1>1, <1>4, <2>2, <3>1, <3>2 DEF Past
  <2>5. CASE e.event = "end"
    <3>1. /\ e.element \in DOMAIN BeforeEnd /\ c.at \in BeforeEnd[e.element] /\ d.normData = c.normData
          /\ Finishes(doc, c, e, d)
      BY <1>1, <2>5, MoveFacts
    <3>2. c.at # "normData" /\ (c.at = "normText" => e.element = "normData")
      BY <3>1 DEF BeforeEnd
    <3>. QED
      BY <1>1, <1>4, <2>2, <3>1, <3>2 DEF Past, InWindow
  <2>. QED
    BY <1>1, <2>3, <2>4, <2>5, MoveFacts
<1>5. CASE c.object <= 1 /\ ~(e.event = "start" /\ d.at = "object") /\ n # NormData
  <2>1. d.object = c.object
    BY <1>1, <1>5, MoveFacts
  <2>. DEFINE Before == InName \cup {"property", "name"}
  <2>2. /\ c.object = 1
        /\ \E k : IsFirst(doc, k, n) /\ (d.property > k \/ (d.property = k /\ d.at \notin Before))
    BY <1>1, <1>5, <2>1 DEF Past
  <2>3. PICK k : IsFirst(doc, k, n) /\ (d.property > k \/ (d.property = k /\ d.at \notin Before))
    BY <2>2
  <2>4. k \in Nat
    BY <1>1, <2>3 DEF IsFirst
  <2>. SUFFICES \/ c.property > k
                \/ c.property = k /\ c.at \notin Before
                \/ c.property = k /\ c.at \in InName /\ Finishes(doc, c, e, d) /\ e.element = "property"
    BY <1>5, <2>2, <2>3 DEF Past, InWindow
  <2>5. CASE e.event = "start"
    <3>1. /\ d.property = (IF d.at = "property" THEN c.property + 1 ELSE c.property)
          /\ d.at \in DOMAIN BeforeStart /\ c.at \in BeforeStart[d.at]
      BY <1>1, <1>5, <2>5, MoveFacts
    <3>2. CASE d.at = "property"
      <4>1. c.at \notin Before /\ d.at \in Before
        BY <3>1, <3>2 DEF BeforeStart, InName
      <4>. QED
        BY <1>1, <2>3, <2>4, <3>1, <3>2, <4>1
    <3>3. CASE d.at # "property"
      <4>1. d.at \notin Before => c.at \notin Before
        BY <3>1, <3>3 DEF BeforeStart, InName
      <4>. QED
        BY <1>1, <2>3, <2>4, <3>1, <3>3, <4>1
    <3>. QED
      BY <3>2, <3>3
  <2>6. CASE e.event = "characters"
    <3>1. c.at \in DOMAIN AfterText /\ d.at = AfterText[c.at] /\ d.property = c.property
      BY <1>1, <2>6, MoveFacts
    <3>2. d.at \notin Before => c.at \notin Before
      BY <3>1 DEF AfterText, InName
    <3>. QED
      BY <1>1, <2>3, <2>4, <3>1, <3>2
  <2>7. CASE e.event = "end"
    <3>1. /\ e.element \in DOMAIN BeforeEnd /\ c.at \in BeforeEnd[e.element] /\ d.property = c.property
          /\ d.at = After[e.element] /\ Finishes(doc, c, e, d)
      BY <1>1, <2>7, MoveFacts
    <3>2. d.at \notin Before => c.at \notin Before \/ (c.at \in InName /\ e.element = "property")
      BY <3>1 DEF BeforeEnd, After, InName
    <3>. QED
      BY <1>1, <2>3, <2>4, <3>1, <3>2
  <2>. QED
    BY <1>1, <2>5, <2>6, <2>7, MoveFacts
<1>. QED
  BY <1>1, <1>2, <1>3, <1>4, <1>5

-----------------------------------------------------------------------------
(***************************************************************************)
(* The tables.                                                             *)
(***************************************************************************)
FirstStates == {"parseXCDL", "startXCDL", "startObject", "endObject"}
PropertyStates == {"startProperty", "endPropertyName", "endPropertyValueSet", "endProperty"}
ValueStates ==
  {"startPropertyValueSet", "endPropertyValueSetRawVal", "endPropertyValueSetLabVal",
   "endPropertyValueSetDataRef", "endPropertyValueSetPropRel", "endPropertyValueSetRef"}
LabelStates == {"startPropertyValueSetLabVal", "endPropertyValueSetLabValVal"}

\* What the parts of the tables hold, and that they are apart.
LEMMA PartFacts ==
  /\ DOMAIN ObjectStarts = FirstStates /\ DOMAIN PropertyStarts = PropertyStates
  /\ DOMAIN ValueSetStarts = ValueStates \cup LabelStates
  /\ ObjectStarts["parseXCDL"] = [xcdl |-> "startXCDL"]
  /\ ObjectStarts["startXCDL"] = [composition |-> "startComposition", object |-> "startObject"]
  /\ ObjectStarts["startObject"] = [data |-> "startData", normData |-> "startNormData", property |-> "startProperty"]
  /\ ObjectStarts["endObject"] = [object |-> "exit"]
  /\ PropertyStarts["startProperty"] = [name |-> "startPropertyName"]
  /\ PropertyStarts["endPropertyName"] = [valueSet |-> "startPropertyValueSet"]
  /\ PropertyStarts["endPropertyValueSet"] = [valueSet |-> "startPropertyValueSet"]
  /\ PropertyStarts["endProperty"] = [property |-> "startProperty", propertySet |-> "other"]
  /\ \A s \in ValueStates :
       ValueSetStarts[s] =
         [rawVal |-> "startPropertyValueSetRawVal", labValue |-> "startPropertyValueSetLabVal",
          dataRef |-> "startPropertyValueSetDataRef", propRel |-> "startPropertyValueSetPropRel",
          ref |-> "startPropertyValueSetRef"]
  /\ ValueSetStarts["startPropertyValueSetLabVal"] = [val |-> "startPropertyValueSetLabValVal"]
  /\ ValueSetStarts["endPropertyValueSetLabValVal"] = [type |-> "startPropertyValueSetLabValType"]
<1>1. /\ DOMAIN ObjectStarts = FirstStates
      /\ ObjectStarts["parseXCDL"] = [xcdl |-> "startXCDL"]
      /\ ObjectStarts["startXCDL"] = [composition |-> "startComposition", object |-> "startObject"]
      /\ ObjectStarts["startObject"] = [data |-> "startData", normData |-> "startNormData", property |-> "startProperty"]
      /\ ObjectStarts["endObject"] = [object |-> "exit"]
  BY DEF ObjectStarts, FirstStates
<1>2. /\ DOMAIN PropertyStarts = PropertyStates
      /\ PropertyStarts["startProperty"] = [name |-> "startPropertyName"]
      /\ PropertyStarts["endPropertyName"] = [valueSet |-> "startPropertyValueSet"]
      /\ PropertyStarts["endPropertyValueSet"] = [valueSet |-> "startPropertyValueSet"]
      /\ PropertyStarts["endProperty"] = [property |-> "startProperty", propertySet |-> "other"]
  BY DEF PropertyStarts, PropertyStates
<1>. DEFINE row == [rawVal |-> "startPropertyValueSetRawVal", labValue |-> "startPropertyValueSetLabVal",
                    dataRef |-> "startPropertyValueSetDataRef", propRel |-> "startPropertyValueSetPropRel",
                    ref |-> "startPropertyValueSetRef"]
            f == [s \in ValueSetStates \cup {"endPropertyValueSetRef"} |-> row]
            g == [startPropertyValueSetLabVal |-> [val |-> "startPropertyValueSetLabValVal"],
                  endPropertyValueSetLabValVal |-> [type |-> "startPropertyValueSetLabValType"]]
<1>3. DOMAIN f = ValueStates /\ \A s \in ValueStates : f[s] = row
  <2>1. ValueSetStates \cup {"endPropertyValueSetRef"} = ValueStates
    BY DEF ValueSetStates, ValueStates
  <2>. HIDE DEF row
  <2>. QED
    BY <2>1
<1>4. /\ DOMAIN g = LabelStates
      /\ g["startPropertyValueSetLabVal"] = [val |-> "startPropertyValueSetLabValVal"]
      /\ g["endPropertyValueSetLabValVal"] = [type |-> "startPropertyValueSetLabValType"]
  BY DEF LabelStates
<1>5. ValueSetStarts = WithEntries(f, g)
  BY DEF ValueSetStarts
<1>. HIDE DEF f, g
<1>6. LabelStates \cap ValueStates = {}
  BY DEF LabelStates, ValueStates
<1>7. "startPropertyValueSetLabVal" \in LabelStates /\ "endPropertyValueSetLabValVal" \in LabelStates
  BY DEF LabelStates
<1>. HIDE DEF row
<1>8. /\ DOMAIN ValueSetStarts = ValueStates \cup LabelStates
      /\ \A s \in ValueStates : ValueSetStarts[s] = row
      /\ ValueSetStarts["startPropertyValueSetLabVal"] = [val |-> "startPropertyValueSetLabValVal"]
      /\ ValueSetStarts["endPropertyValueSetLabValVal"] = [type |-> "startPropertyValueSetLabValType"]
  BY <1>3, <1>4, <1>5, <1>6, <1>7 DEF WithEntries
<1>. QED
  BY <1>1, <1>2, <1>8 DEF row

\* What both handlers have, and what each has of its own.
SharedStates == FirstStates \cup PropertyStates \cup ValueStates \cup LabelStates

\* In the states that both handlers treat alike the table is that of its part.
LEMMA SharedFacts ==
  /\ DOMAIN Starts = SharedStates
  /\ \A s \in FirstStates : Starts[s] = ObjectStarts[s]
  /\ \A s \in PropertyStates : Starts[s] = PropertyStarts[s]
  /\ \A s \in ValueStates \cup LabelStates : Starts[s] = ValueSetStarts[s]
<1>1. /\ PropertyStates \cap FirstStates = {}
      /\ (ValueStates \cup LabelStates) \cap (FirstStates \cup PropertyStates) = {}
  BY DEF FirstStates, PropertyStates, ValueStates, LabelStates
<1>. DEFINE two == WithEntries(ObjectStarts, PropertyStarts)
<1>2. /\ DOMAIN two = FirstStates \cup PropertyStates
      /\ \A s \in FirstStates : two[s] = ObjectStarts[s]
      /\ \A s \in PropertyStates : two[s] = PropertyStarts[s]
  BY <1>1, PartFacts DEF WithEntries
<1>3. Starts = WithEntries(two, ValueSetStarts)
  BY DEF Starts
<1>. HIDE DEF two
<1>. QED
  BY <1>1, <1>2, <1>3, PartFacts DEF WithEntries, SharedStates

\* The tables of handler 1 and handler 2 differ after normData and after property sets only.
LEMMA StartFacts ==
  ASSUME NEW starts \in {Starts1, Starts2}
  PROVE  /\ DOMAIN starts = SharedStates \cup {"endNormData", "endPropertySet"}
         /\ \A s \in SharedStates : starts[s] = Starts[s]
         /\ starts = Starts1 => /\ starts["endNormData"] = [property |-> "startProperty"]
                                /\ starts["endPropertySet"] = [propertySet |-> "other"]
         /\ starts = Starts2 => /\ starts["endNormData"] = [property |-> "startProperty", normData |-> "startNormData"]
                                /\ starts["endPropertySet"] = [property |-> "startProperty", propertySet |-> "other"]
<1>1. SharedStates \cap {"endNormData", "endPropertySet"} = {}
  BY DEF SharedStates, FirstStates, PropertyStates, ValueStates, LabelStates
<1>2. CASE starts = Starts1
  <2>. DEFINE g == [endNormData |-> [property |-> "startProperty"], endPropertySet |-> [propertySet |-> "other"]]
  <2>1. /\ DOMAIN g = {"endNormData", "endPropertySet"}
        /\ g["endNormData"] = [property |-> "startProperty"] /\ g["endPropertySet"] = [propertySet |-> "other"]
    OBVIOUS
  <2>2. starts = WithEntries(Starts, g)
    BY <1>2 DEF Starts1
  <2>. HIDE DEF g
  <2>3. /\ DOMAIN starts = SharedStates \cup {"endNormData", "endPropertySet"}
        /\ \A s \in SharedStates : starts[s] = Starts[s]
        /\ starts["endNormData"] = [property |-> "startProperty"] /\ starts["endPropertySet"] = [propertySet |-> "other"]
    BY <1>1, <2>1, <2>2, SharedFacts DEF WithEntries
  <2>4. starts # Starts2
    <3>. DEFINE k == [endNormData |-> [property |-> "startProperty", normData |-> "startNormData"],
                      endPropertySet |-> [property |-> "startProperty", propertySet |-> "other"]]
    <3>1. DOMAIN k = {"endNormData", "endPropertySet"} /\ "normData" \in DOMAIN k["endNormData"]
      OBVIOUS
    <3>2. Starts2 = WithEntries(Starts, k)
      BY DEF Starts2
    <3>. HIDE DEF k
    <3>3. Starts2["endNormData"] = k["endNormData"]
      BY <1>1, <3>1, <3>2, SharedFacts DEF WithEntries
    <3>4. "normData" \notin DOMAIN starts["endNormData"]
      BY <2>3
    <3>. QED
      BY <3>1, <3>3, <3>4
  <2>. QED
    BY <2>3, <2>4
<1>3. CASE starts = Starts2
  <2>. DEFINE g == [endNormData |-> [property |-> "startProperty", normData |-> "startNormData"],
                    endPropertySet |-> [property |-> "startProperty", propertySet |-> "other"]]
  <2>1. /\ DOMAIN g = {"endNormData", "endPropertySet"}
        /\ g["endNormData"] = [property |-> "startProperty", normData |-> "startNormData"]
        /\ g["endPropertySet"] = [property |-> "startProperty", propertySet |-> "other"]
    OBVIOUS
  <2>2. starts = WithEntries(Starts, g)
    BY <1>3 DEF Starts2
  <2>. HIDE DEF g
  <2>3. /\ DOMAIN starts = SharedStates \cup {"endNormData", "endPropertySet"}
        /\ \A s \in SharedStates : starts[s] = Starts[s]
        /\ starts["endNormData"] = [property |-> "startProperty", normData |-> "startNormData"]
        /\ starts["endPropertySet"] = [property |-> "startProperty", propertySet |-> "other"]
    BY <1>1, <2>1, <2>2, SharedFacts DEF WithEntries
  <2>4. starts # Starts1
    <3>. DEFINE k == [endNormData |-> [property |-> "startProperty"], endPropertySet |-> [propertySet |-> "other"]]
    <3>1. DOMAIN k = {"endNormData", "endPropertySet"} /\ "normData" \notin DOMAIN k["endNormData"]
      OBVIOUS
    <3>2. Starts1 = WithEntries(Starts, k)
      BY DEF Starts1
    <3>. HIDE DEF k
    <3>3. Starts1["endNormData"] = k["endNormData"]
      BY <1>1, <3>1, <3>2, SharedFacts DEF WithEntries
    <3>4. "normData" \in DOMAIN starts["endNormData"]
      BY <2>3
    <3>. QED
      BY <3>1, <3>3, <3>4
  <2>. QED
    BY <2>3, <2>4
<1>. QED
  BY <1>2, <1>3

\* The ends.
LEMMA EndFacts ==
  /\ DOMAIN Ends =
       {"startPropertyName", "startPropertyValueSetRawVal", "startPropertyValueSetLabValVal",
        "startPropertyValueSetLabValType", "endPropertyValueSetLabValType", "startPropertyValueSetDataRef",
        "startPropertyValueSetPropRel", "startPropertyValueSetRef", "endPropertyValueSetRef",
        "endProperty", "endPropertySet", "endObject"} \cup ValueSetStates
  /\ Ends["startPropertyName"] = "endPropertyName"
  /\ Ends["startPropertyValueSetLabValVal"] = "endPropertyValueSetLabValVal"
  /\ Ends["startPropertyValueSetLabValType"] = "endPropertyValueSetLabValType"
  /\ Ends["endPropertyValueSetLabValType"] = "endPropertyValueSetLabVal"
  /\ Ends["startPropertyValueSetDataRef"] = "endPropertyValueSetDataRef"
  /\ Ends["endProperty"] = "endObject" /\ Ends["endPropertySet"] = "endObject" /\ Ends["endObject"] = "endXCDL"
  /\ \A s \in ValueSetStates : Ends[s] = "endPropertyValueSet"
<1>. DEFINE f == [startPropertyName |-> "endPropertyName",
                  startPropertyValueSetRawVal |-> "endPropertyValueSetRawVal",
                  startPropertyValueSetLabValVal |-> "endPropertyValueSetLabValVal",
                  startPropertyValueSetLabValType |-> "endPropertyValueSetLabValType",
                  endPropertyValueSetLabValType |-> "endPropertyValueSetLabVal",
                  startPropertyValueSetDataRef |-> "endPropertyValueSetDataRef",
                  startPropertyValueSetPropRel |-> "endPropertyValueSetPropRel",
                  startPropertyValueSetRef |-> "endPropertyValueSetRef",
                  endPropertyValueSetRef |-> "endPropertyValueSetPropRel",
                  endProperty |-> "endObject", endPropertySet |-> "endObject", endObject |-> "endXCDL"]
            g == [s \in ValueSetStates |-> "endPropertyValueSet"]
            F == {"startPropertyName", "startPropertyValueSetRawVal", "startPropertyValueSetLabValVal",
                  "startPropertyValueSetLabValType", "endPropertyValueSetLabValType", "startPropertyValueSetDataRef",
                  "startPropertyValueSetPropRel", "startPropertyValueSetRef", "endPropertyValueSetRef",
                  "endProperty", "endPropertySet", "endObject"}
<1>1. /\ DOMAIN f = F
      /\ f["startPropertyName"] = "endPropertyName"
      /\ f["startPropertyValueSetLabValVal"] = "endPropertyValueSetLabValVal"
      /\ f["startPropertyValueSetLabValType"] = "endPropertyValueSetLabValType"
      /\ f["endPropertyValueSetLabValType"] = "endPropertyValueSetLabVal"
      /\ f["startPropertyValueSetDataRef"] = "endPropertyValueSetDataRef"
      /\ f["endProperty"] = "endObject" /\ f["endPropertySet"] = "endObject" /\ f["endObject"] = "endXCDL"
  OBVIOUS
<1>2. DOMAIN g = ValueSetStates /\ \A s \in ValueSetStates : g[s] = "endPropertyValueSet"
  OBVIOUS
<1>3. Ends = WithEntries(f, g)
  BY DEF Ends
<1>4. F \cap ValueSetStates = {}
  BY DEF ValueSetStates
<1>5. /\ "startPropertyName" \in F /\ "startPropertyValueSetLabValVal" \in F
      /\ "startPropertyValueSetLabValType" \in F /\ "endPropertyValueSetLabValType" \in F
      /\ "startPropertyValueSetDataRef" \in F
      /\ "endProperty" \in F /\ "endPropertySet" \in F /\ "endObject" \in F
  OBVIOUS
<1>. HIDE DEF f, g, F
<1>6. /\ DOMAIN Ends = F \cup ValueSetStates
      /\ \A s \in F : Ends[s] = f[s]
      /\ \A s \in ValueSetStates : Ends[s] = g[s]
  BY <1>1, <1>2, <1>3, <1>4 DEF WithEntries
<1>. QED
  BY <1>1, <1>2, <1>5, <1>6 DEF F

\* The ends that the two handlers wait for while they skip.
LEMMA SkippingFacts ==
  ASSUME NEW skipping \in {Skipping1, Skipping2}
  PROVE  /\ DOMAIN skipping = {"parseNextProperty", "other"}
         /\ skipping["other"] = [propertySet |-> "endPropertySet"]
         /\ skipping = Skipping1 => skipping["parseNextProperty"] = [property |-> "endProperty", normData |-> "endNormData"]
         /\ skipping = Skipping2 => skipping["parseNextProperty"] = [property |-> "endProperty"]
BY DEF Skipping1, Skipping2

\* The state that follows the start, and the end, of element x.
Opened(starts, s, x) ==
  IF s \in {"parseNextProperty", "erroneous", "other"} \/ s \notin DOMAIN starts THEN s
  ELSE IF x \in DOMAIN starts[s] THEN starts[s][x] ELSE "erroneous"
Closed(skipping, s, x) ==
  CASE s \in DOMAIN skipping -> IF x \in DOMAIN skipping[s] THEN skipping[s][x] ELSE s
    [] s \notin DOMAIN skipping /\ s \in DOMAIN Ends -> Ends[s]
    [] OTHER -> s

\* The state after the start of an element, for every state of the tables.
LEMMA OpenedFacts ==
  ASSUME NEW starts \in {Starts1, Starts2}, NEW x
  PROVE  /\ Opened(starts, "parseXCDL", x) = IF x = "xcdl" THEN "startXCDL" ELSE "erroneous"
         /\ x # "composition" =>
              Opened(starts, "startXCDL", x) = IF x = "object" THEN "startObject" ELSE "erroneous"
         /\ Opened(starts, "startObject", x) =
              CASE x = "data" -> "startData" [] x = "normData" -> "startNormData"
                [] x = "property" -> "startProperty" [] OTHER -> "erroneous"
         /\ Opened(starts, "endObject", x) = IF x = "object" THEN "exit" ELSE "erroneous"
         /\ Opened(starts, "startProperty", x) = IF x = "name" THEN "startPropertyName" ELSE "erroneous"
         /\ \A s \in {"endPropertyName", "endPropertyValueSet"} :
              Opened(starts, s, x) = IF x = "valueSet" THEN "startPropertyValueSet" ELSE "erroneous"
         /\ Opened(starts, "endProperty", x) =
              CASE x = "property" -> "startProperty" [] x = "propertySet" -> "other" [] OTHER -> "erroneous"
         /\ x \notin {"rawVal", "propRel", "ref"} => \A s \in ValueStates :
              Opened(starts, s, x) =
                CASE x = "labValue" -> "startPropertyValueSetLabVal" [] x = "dataRef" -> "startPropertyValueSetDataRef"
                  [] OTHER -> "erroneous"
         /\ Opened(starts, "startPropertyValueSetLabVal", x) =
              IF x = "val" THEN "startPropertyValueSetLabValVal" ELSE "erroneous"
         /\ Opened(starts, "endPropertyValueSetLabValVal", x) =
              IF x = "type" THEN "startPropertyValueSetLabValType" ELSE "erroneous"
         /\ Opened(starts, "endNormData", x) =
              CASE x = "property" -> "startProperty"
                [] x = "normData" -> (IF starts = Starts2 THEN "startNormData" ELSE "erroneous")
                [] OTHER -> "erroneous"
         /\ Opened(starts, "endPropertySet", x) =
              CASE x = "propertySet" -> "other"
                [] x = "property" -> (IF starts = Starts2 THEN "startProperty" ELSE "erroneous")
                [] OTHER -> "erroneous"
         /\ \A s : s \notin SharedStates \cup {"endNormData", "endPropertySet"} => Opened(starts, s, x) = s
<1>. DEFINE Ignored == {"parseNextProperty", "erroneous", "other"}
            All == SharedStates \cup {"endNormData", "endPropertySet"}
<1>1. All \cap Ignored = {}
  BY DEF SharedStates, FirstStates, PropertyStates, ValueStates, LabelStates
<1>2. /\ DOMAIN starts = All
      /\ \A s \in SharedStates : starts[s] = Starts[s]
      /\ starts = Starts1 => /\ starts["endNormData"] = [property |-> "startProperty"]
                             /\ starts["endPropertySet"] = [propertySet |-> "other"]
      /\ starts = Starts2 => /\ starts["endNormData"] = [property |-> "startProperty", normData |-> "startNormData"]
                             /\ starts["endPropertySet"] = [property |-> "startProperty", propertySet |-> "other"]
  BY StartFacts
<1>3. /\ \A s \in All : Opened(starts, s, x) = IF x \in DOMAIN starts[s] THEN starts[s][x] ELSE "erroneous"
      /\ \A s : s \notin All => Opened(starts, s, x) = s
  BY <1>1, <1>2 DEF Opened
<1>. HIDE DEF Ignored, All
<1>4. SharedStates \subseteq All /\ "endNormData" \in All /\ "endPropertySet" \in All
  BY DEF All
<1>5. /\ \A s \in FirstStates : s \in All /\ starts[s] = ObjectStarts[s]
      /\ \A s \in PropertyStates : s \in All /\ starts[s] = PropertyStarts[s]
      /\ \A s \in ValueStates \cup LabelStates : s \in All /\ starts[s] = ValueSetStarts[s]
  BY <1>2, <1>4, SharedFacts DEF SharedStates
<1>6. /\ "parseXCDL" \in FirstStates /\ "startXCDL" \in FirstStates /\ "startObject" \in FirstStates
      /\ "endObject" \in FirstStates
      /\ "startProperty" \in PropertyStates /\ "endPropertyName" \in PropertyStates
      /\ "endPropertyValueSet" \in PropertyStates /\ "endProperty" \in PropertyStates
      /\ "startPropertyValueSetLabVal" \in LabelStates /\ "endPropertyValueSetLabValVal" \in LabelStates
  BY DEF FirstStates, PropertyStates, LabelStates
<1>7. Opened(starts, "parseXCDL", x) = IF x = "xcdl" THEN "startXCDL" ELSE "erroneous"
  BY <1>3, <1>5, <1>6, PartFacts
<1>8. x # "composition" => Opened(starts, "startXCDL", x) = IF x = "object" THEN "startObject" ELSE "erroneous"
  BY <1>3, <1>5, <1>6, PartFacts
<1>9. Opened(starts, "startObject", x) =
        CASE x = "data" -> "startData" [] x = "normData" -> "startNormData"
          [] x = "property" -> "startProperty" [] OTHER -> "erroneous"
  BY <1>3, <1>5, <1>6, PartFacts
<1>10. Opened(starts, "endObject", x) = IF x = "object" THEN "exit" ELSE "erroneous"
  BY <1>3, <1>5, <1>6, PartFacts
<1>11. Opened(starts, "startProperty", x) = IF x = "name" THEN "startPropertyName" ELSE "erroneous"
  BY <1>3, <1>5, <1>6, PartFacts
<1>12. \A s \in {"endPropertyName", "endPropertyValueSet"} :
         Opened(starts, s, x) = IF x = "valueSet" THEN "startPropertyValueSet" ELSE "erroneous"
  BY <1>3, <1>5, <1>6, PartFacts
<1>13. Opened(starts, "endProperty", x) =
         CASE x = "property" -> "startProperty" [] x = "propertySet" -> "other" [] OTHER -> "erroneous"
  BY <1>3, <1>5, <1>6, PartFacts
<1>14. x \notin {"rawVal", "propRel", "ref"} => \A s \in ValueStates :
         Opened(starts, s, x) =
           CASE x = "labValue" -> "startPropertyValueSetLabVal" [] x = "dataRef" -> "startPropertyValueSetDataRef"
             [] OTHER -> "erroneous"
  BY <1>3, <1>5, PartFacts
<1>15. /\ Opened(starts, "startPropertyValueSetLabVal", x) =
            IF x = "val" THEN "startPropertyValueSetLabValVal" ELSE "erroneous"
       /\ Opened(starts, "endPropertyValueSetLabValVal", x) =
            IF x = "type" THEN "startPropertyValueSetLabValType" ELSE "erroneous"
  BY <1>3, <1>5, <1>6, PartFacts
<1>16. Opened(starts, "endNormData", x) =
         CASE x = "property" -> "startProperty"
           [] x = "normData" -> (IF starts = Starts2 THEN "startNormData" ELSE "erroneous")
           [] OTHER -> "erroneous"
  BY <1>2, <1>3, <1>4
<1>17. Opened(starts, "endPropertySet", x) =
         CASE x = "propertySet" -> "other"
           [] x = "property" -> (IF starts = Starts2 THEN "startProperty" ELSE "erroneous")
           [] OTHER -> "erroneous"
  BY <1>2, <1>3, <1>4
<1>. QED
  BY <1>3, <1>7, <1>8, <1>9, <1>10, <1>11, <1>12, <1>13, <1>14, <1>15, <1>16, <1>17 DEF All

\* The state after the end of an element, for every state of the tables.
LEMMA ClosedFacts ==
  ASSUME NEW skipping \in {Skipping1, Skipping2}, NEW x
  PROVE  /\ Closed(skipping, "parseNextProperty", x) =
              CASE x = "property" -> "endProperty"
                [] x = "normData" -> (IF skipping = Skipping1 THEN "endNormData" ELSE "parseNextProperty")
                [] OTHER -> "parseNextProperty"
         /\ Closed(skipping, "other", x) = IF x = "propertySet" THEN "endPropertySet" ELSE "other"
         /\ Closed(skipping, "startPropertyName", x) = "endPropertyName"
         /\ Closed(skipping, "startPropertyValueSetLabValVal", x) = "endPropertyValueSetLabValVal"
         /\ Closed(skipping, "startPropertyValueSetLabValType", x) = "endPropertyValueSetLabValType"
         /\ Closed(skipping, "endPropertyValueSetLabValType", x) = "endPropertyValueSetLabVal"
         /\ Closed(skipping, "startPropertyValueSetDataRef", x) = "endPropertyValueSetDataRef"
         /\ Closed(skipping, "endProperty", x) = "endObject" /\ Closed(skipping, "endPropertySet", x) = "endObject"
         /\ Closed(skipping, "endObject", x) = "endXCDL"
         /\ \A s \in ValueSetStates : Closed(skipping, s, x) = "endPropertyValueSet"
         /\ \A s \in {"erroneous", "startData", "skipAll", "endXCDL", "startObject", "endNormData", "startXCDL"} :
              Closed(skipping, s, x) = s
<1>1. /\ DOMAIN skipping = {"parseNextProperty", "other"}
      /\ skipping["other"] = [propertySet |-> "endPropertySet"]
      /\ skipping = Skipping1 => skipping["parseNextProperty"] = [property |-> "endProperty", normData |-> "endNormData"]
      /\ skipping = Skipping2 => skipping["parseNextProperty"] = [property |-> "endProperty"]
  BY SkippingFacts
<1>2. \A s : s \notin {"parseNextProperty", "other"} =>
        Closed(skipping, s, x) = IF s \in DOMAIN Ends THEN Ends[s] ELSE s
  BY <1>1 DEF Closed
<1>3. \A s \in ValueSetStates : s \notin {"parseNextProperty", "other"}
  BY DEF ValueSetStates
<1>4. Closed(skipping, "other", x) = IF x = "propertySet" THEN "endPropertySet" ELSE "other"
  BY <1>1 DEF Closed
<1>5. Closed(skipping, "parseNextProperty", x) =
        CASE x = "property" -> "endProperty"
          [] x = "normData" -> (IF skipping = Skipping1 THEN "endNormData" ELSE "parseNextProperty")
          [] OTHER -> "parseNextProperty"
  <2>1. Skipping1 # Skipping2
    <3>1. "normData" \in DOMAIN Skipping1["parseNextProperty"] /\ "normData" \notin DOMAIN Skipping2["parseNextProperty"]
      BY DEF Skipping1, Skipping2
    <3>. QED
      BY <3>1
  <2>. QED
    BY <1>1, <2>1 DEF Closed
<1>6. \A s \in {"erroneous", "startData", "skipAll", "endXCDL", "startObject", "endNormData", "startXCDL"} :
        s \notin DOMAIN Ends /\ s \notin {"parseNextProperty", "other"}
  BY EndFacts DEF ValueSetStates
<1>7. /\ Closed(skipping, "startPropertyName", x) = "endPropertyName"
      /\ Closed(skipping, "startPropertyValueSetLabValVal", x) = "endPropertyValueSetLabValVal"
      /\ Closed(skipping, "startPropertyValueSetLabValType", x) = "endPropertyValueSetLabValType"
      /\ Closed(skipping, "endPropertyValueSetLabValType", x) = "endPropertyValueSetLabVal"
      /\ Closed(skipping, "startPropertyValueSetDataRef", x) = "endPropertyValueSetDataRef"
      /\ Closed(skipping, "endProperty", x) = "endObject" /\ Closed(skipping, "endPropertySet", x) = "endObject"
      /\ Closed(skipping, "endObject", x) = "endXCDL"
  BY <1>2, EndFacts
<1>8. \A s \in ValueSetStates : Closed(skipping, s, x) = "endPropertyValueSet"
  BY <1>2, <1>3, EndFacts
<1>9. \A s \in {"erroneous", "startData", "skipAll", "endXCDL", "startObject", "endNormData", "startXCDL"} :
        Closed(skipping, s, x) = s
  BY <1>2, <1>6
<1>. QED
  BY <1>4, <1>5, <1>7, <1>8, <1>9

-----------------------------------------------------------------------------
(***************************************************************************)
(* In which states a handler can be at a place of the first object.  What  *)
(* is Dead, and what comes after the first object, stays as it is.         *)
(***************************************************************************)
Skip == "parseNextProperty"
Dead == {"erroneous", "startData", "skipAll"}

StatesIn ==
  [before |-> {"parseXCDL"}, xcdl |-> {"endObject", "endXCDL", "startObject", "endNormData"},
   end |-> {"endXCDL", "startObject", "endNormData"},
   object |-> {"startObject"}, data |-> {}, afterData |-> {},
   normData |-> {"startNormData", Skip}, normText |-> {"startNormData", Skip},
   afterNormData |-> {"endNormData"},
   property |-> {"startProperty"}, name |-> {"startPropertyName"}, nameText |-> {"startPropertyName", Skip},
   named |-> {"endPropertyName", Skip}, valueSet |-> {"startPropertyValueSet", Skip},
   rawValue |-> {Skip}, afterRawValue |-> {Skip},
   labValue |-> {"startPropertyValueSetLabVal", Skip},
   val |-> {"startPropertyValueSetLabValVal", Skip}, afterVal |-> {"endPropertyValueSetLabValVal", Skip},
   type |-> {"startPropertyValueSetLabValType", "endPropertyValueSetLabValType", Skip},
   afterType |-> {"endPropertyValueSetLabValType", "endPropertyValueSetLabVal", Skip},
   labelled |-> {"endPropertyValueSetLabVal", "endPropertyValueSet", Skip},
   objectRef |-> {Skip}, afterObjectRef |-> {Skip},
   dataRef |-> {"startPropertyValueSetDataRef", Skip}, afterDataRef |-> {"endPropertyValueSetDataRef", Skip},
   valued |-> {"endPropertyValueSet", "endProperty", Skip},
   afterProperty |-> {"endProperty", "endObject"},
   propertySet |-> {"other"}, valueSetRelations |-> {"other"}, afterRelations |-> {"other"},
   afterPropertySet |-> {"endPropertySet"}]

StatesAt(c) ==
  Dead \cup (IF c.object > 1 THEN {"endXCDL"}
             ELSE IF c.object = 0 /\ c.at = "xcdl" THEN {"startXCDL"} ELSE StatesIn[c.at])

\* The states at a place, place by place.
LEMMA InFacts ==
  /\ StatesIn["before"] = {"parseXCDL"}
  /\ StatesIn["xcdl"] = {"endObject", "endXCDL", "startObject", "endNormData"}
  /\ StatesIn["end"] = {"endXCDL", "startObject", "endNormData"}
  /\ StatesIn["object"] = {"startObject"} /\ StatesIn["data"] = {} /\ StatesIn["afterData"] = {}
  /\ StatesIn["normData"] = {"startNormData", Skip} /\ StatesIn["normText"] = {"startNormData", Skip}
  /\ StatesIn["afterNormData"] = {"endNormData"} /\ StatesIn["property"] = {"startProperty"}
  /\ StatesIn["name"] = {"startPropertyName"} /\ StatesIn["nameText"] = {"startPropertyName", Skip}
  /\ StatesIn["named"] = {"endPropertyName", Skip} /\ StatesIn["valueSet"] = {"startPropertyValueSet", Skip}
  /\ StatesIn["rawValue"] = {Skip} /\ StatesIn["afterRawValue"] = {Skip}
  /\ StatesIn["labValue"] = {"startPropertyValueSetLabVal", Skip}
  /\ StatesIn["val"] = {"startPropertyValueSetLabValVal", Skip}
  /\ StatesIn["afterVal"] = {"endPropertyValueSetLabValVal", Skip}
  /\ StatesIn["type"] = {"startPropertyValueSetLabValType", "endPropertyValueSetLabValType", Skip}
  /\ StatesIn["afterType"] = {"endPropertyValueSetLabValType", "endPropertyValueSetLabVal", Skip}
  /\ StatesIn["labelled"] = {"endPropertyValueSetLabVal", "endPropertyValueSet", Skip}
  /\ StatesIn["objectRef"] = {Skip} /\ StatesIn["afterObjectRef"] = {Skip}
  /\ StatesIn["dataRef"] = {"startPropertyValueSetDataRef", Skip}
  /\ StatesIn["afterDataRef"] = {"endPropertyValueSetDataRef", Skip}
  /\ StatesIn["valued"] = {"endPropertyValueSet", "endProperty", Skip}
  /\ StatesIn["afterProperty"] = {"endProperty", "endObject"}
  /\ StatesIn["propertySet"] = {"other"} /\ StatesIn["valueSetRelations"] = {"other"}
  /\ StatesIn["afterRelations"] = {"other"} /\ StatesIn["afterPropertySet"] = {"endPropertySet"}
BY DEF StatesIn

\* A dead handler, and one behind the first object, does not wake up.
LEMMA DeadStays ==
  ASSUME NEW s \in Dead \cup {"endXCDL"}, NEW starts \in {Starts1, Starts2}, NEW skipping \in {Skipping1, Skipping2}, NEW x
  PROVE  Opened(starts, s, x) = s /\ Closed(skipping, s, x) = s
<1>1. s \notin SharedStates \cup {"endNormData", "endPropertySet"}
  BY DEF Dead, SharedStates, FirstStates, PropertyStates, ValueStates, LabelStates
<1>2. s \in {"erroneous", "startData", "skipAll", "endXCDL", "startObject", "endNormData", "startXCDL"}
  BY DEF Dead
<1>. QED
  BY <1>1, <1>2, OpenedFacts, ClosedFacts

\* The start of an element.
LEMMA OpenedState ==
  ASSUME NEW doc \in Document, NEW c, Proper(doc, c), NEW e, NEW d \in Place, Begins(doc, c, e, d),
         NEW starts \in {Starts1, Starts2}, NEW s \in StatesAt(c),
         NEW t, t = Opened(starts, s, e.element)
  PROVE  t \in StatesAt(d) \/ (t = "exit" /\ Len(doc) > 1)
<1>. DEFINE x == e.element
<1>1. /\ c \in Place /\ c.object \in Nat /\ x \in DOMAIN BeforeStart /\ c.at \in BeforeStart[x]
      /\ d.at = x /\ d.object = IF x = "object" THEN c.object + 1 ELSE c.object
      /\ x = "object" => d.object <= Len(doc)
  BY MoveFacts DEF Proper, Moves, Begins, Place, Into, To
<1>2. CASE s \in Dead
  BY <1>2, DeadStays DEF StatesAt
<1>3. CASE c.object > 1 /\ s \notin Dead
  <2>1. s = "endXCDL"
    BY <1>3 DEF StatesAt
  <2>2. d.object > 1
    BY <1>1, <1>3
  <2>. QED
    BY <2>1, <2>2, DeadStays DEF StatesAt
<1>4. CASE c.object <= 1 /\ s \notin Dead
  <2>1. CASE x = "object"
    <3>1. c.at = "xcdl"
      BY <1>1, <2>1 DEF BeforeStart
    <3>2. CASE c.object = 0
      <4>1. s = "startXCDL" /\ d.object = 1
        BY <1>1, <1>4, <2>1, <3>1, <3>2 DEF StatesAt
      <4>2. t = "startObject"
        BY <2>1, <4>1, OpenedFacts
      <4>. QED
        BY <1>1, <2>1, <4>1, <4>2, InFacts DEF StatesAt
    <3>3. CASE c.object = 1
      <4>1. s \in {"endObject", "endXCDL", "startObject", "endNormData"} /\ d.object = 2 /\ Len(doc) > 1
        <5>1. Len(doc) \in Nat
          BY DEF Document
        <5>. QED
          BY <1>1, <1>4, <2>1, <3>1, <3>3, <5>1, InFacts DEF StatesAt
      <4>2. t \in {"exit", "endXCDL", "erroneous"}
        BY <2>1, <4>1, OpenedFacts, DeadStays
      <4>. QED
        BY <4>1, <4>2 DEF StatesAt, Dead
    <3>. QED
      BY <1>1, <1>4, <3>2, <3>3
  <2>2. CASE x = "xcdl"
    <3>1. c.at = "before" /\ c.object = 0
      BY <1>1, <2>2 DEF BeforeStart, Proper
    <3>2. s = "parseXCDL" /\ d.object = 0 /\ d.at = "xcdl"
      BY <1>1, <1>4, <2>2, <3>1, InFacts DEF StatesAt
    <3>3. t = "startXCDL"
      BY <2>2, <3>2, OpenedFacts
    <3>. QED
      BY <3>2, <3>3 DEF StatesAt
  <2>3. CASE x \notin {"object", "xcdl"}
    <3>1. c.object = 1 /\ d.object = 1 /\ c.at \notin {"before", "xcdl"}
      <4>1. c.at \notin {"before", "xcdl"}
        BY <1>1, <2>3 DEF BeforeStart
      <4>. QED
        BY <1>1, <1>4, <2>3, <4>1 DEF Proper
    <3>2. s \in StatesIn[c.at]
      BY <1>4, <3>1 DEF StatesAt
    <3>. SUFFICES t \in StatesIn[x] \cup Dead
      BY <1>1, <3>1 DEF StatesAt
    <3>3. "erroneous" \in Dead /\ "startData" \in Dead
      BY DEF Dead
    <3>4. Opened(starts, Skip, x) = Skip /\ Opened(starts, "other", x) = "other"
          /\ Opened(starts, "endPropertyValueSetLabValType", x) = "endPropertyValueSetLabValType"
      BY OpenedFacts DEF SharedStates, FirstStates, PropertyStates, ValueStates, LabelStates, Skip
    <3>5. \A v \in {"startPropertyValueSet", "endPropertyValueSetLabVal", "endPropertyValueSetDataRef"} : v \in ValueStates
      BY DEF ValueStates
    <3>6. x \notin {"rawVal", "propRel", "ref"}
      BY <1>1 DEF BeforeStart
    <3>20. \A v \in {"startPropertyValueSet", "endPropertyValueSetLabVal", "endPropertyValueSetDataRef"} :
             Opened(starts, v, x) =
               CASE x = "labValue" -> "startPropertyValueSetLabVal" [] x = "dataRef" -> "startPropertyValueSetDataRef"
                 [] OTHER -> "erroneous"
      BY <3>5, <3>6, OpenedFacts
    <3>21. x # "valueSet" => Opened(starts, "endPropertyValueSet", x) = "erroneous"
      BY OpenedFacts
    <3>7. CASE x = "data"
      <4>1. s = "startObject"
        BY <1>1, <3>2, <3>7, InFacts DEF BeforeStart
      <4>. QED
        BY <3>3, <3>7, <4>1, OpenedFacts
    <3>8. CASE x = "normData"
      <4>1. s \in {"startObject", "endNormData"}
        BY <1>1, <3>2, <3>8, InFacts DEF BeforeStart
      <4>. QED
        BY <3>3, <3>8, <4>1, OpenedFacts, InFacts
    <3>9. CASE x = "property"
      <4>1. s \in {"startObject", "endNormData", "endProperty", "endObject"}
        BY <1>1, <3>2, <3>9, InFacts DEF BeforeStart
      <4>2. t \in {"startProperty", "erroneous"}
        BY <3>9, <4>1, OpenedFacts
      <4>. QED
        BY <3>3, <3>9, <4>2, InFacts
    <3>10. CASE x = "propertySet"
      <4>1. s \in {"startObject", "endNormData", "endProperty", "endObject", "endPropertySet"}
        BY <1>1, <3>2, <3>10, InFacts DEF BeforeStart
      <4>2. t \in {"other", "erroneous"}
        BY <3>10, <4>1, OpenedFacts
      <4>. QED
        BY <3>3, <3>10, <4>2, InFacts
    <3>11. CASE x = "valueSetRelations"
      <4>1. s = "other"
        BY <1>1, <3>2, <3>11, InFacts DEF BeforeStart
      <4>. QED
        BY <3>4, <3>11, <4>1, InFacts
    <3>12. CASE x = "name"
      <4>1. s = "startProperty"
        BY <1>1, <3>2, <3>12, InFacts DEF BeforeStart
      <4>. QED
        BY <3>12, <4>1, OpenedFacts, InFacts
    <3>13. CASE x = "valueSet"
      <4>1. s \in {"endPropertyName", "endPropertyValueSet", "endProperty", Skip}
        BY <1>1, <3>2, <3>13, InFacts DEF BeforeStart
      <4>2. t \in {"startPropertyValueSet", "erroneous", Skip}
        BY <3>4, <3>13, <4>1, OpenedFacts
      <4>. QED
        BY <3>3, <3>13, <4>2, InFacts
    <3>14. CASE x \in {"rawValue", "objectRef"}
      <4>1. s \in {"startPropertyValueSet", "endPropertyValueSetLabVal", "endPropertyValueSet", Skip}
        BY <1>1, <3>2, <3>14, InFacts DEF BeforeStart
      <4>2. t \in {"erroneous", Skip}
        BY <3>4, <3>14, <3>20, <3>21, <4>1
      <4>. QED
        BY <3>3, <3>14, <4>2, InFacts
    <3>15. CASE x = "labValue"
      <4>1. s \in {"startPropertyValueSet", Skip}
        BY <1>1, <3>2, <3>15, InFacts DEF BeforeStart
      <4>2. t \in {"startPropertyValueSetLabVal", Skip}
        BY <3>4, <3>15, <3>20, <4>1
      <4>. QED
        BY <3>15, <4>2, InFacts
    <3>16. CASE x = "dataRef"
      <4>1. s \in {"startPropertyValueSet", "endPropertyValueSetLabVal", "endPropertyValueSetDataRef",
                   "endPropertyValueSet", Skip}
        BY <1>1, <3>2, <3>16, InFacts DEF BeforeStart
      <4>2. t \in {"startPropertyValueSetDataRef", "erroneous", Skip}
        BY <3>4, <3>16, <3>20, <3>21, <4>1
      <4>. QED
        BY <3>3, <3>16, <4>2, InFacts
    <3>17. CASE x = "val"
      <4>1. s \in {"startPropertyValueSetLabVal", "endPropertyValueSetLabValVal", Skip}
        BY <1>1, <3>2, <3>17, InFacts DEF BeforeStart
      <4>2. t \in {"startPropertyValueSetLabValVal", "erroneous", Skip}
        BY <3>4, <3>17, <4>1, OpenedFacts
      <4>. QED
        BY <3>3, <3>17, <4>2, InFacts
    <3>18. CASE x = "type"
      <4>1. s \in {"endPropertyValueSetLabValVal", "endPropertyValueSetLabValType", "endPropertyValueSetLabVal", Skip}
        BY <1>1, <3>2, <3>18, InFacts DEF BeforeStart
      <4>2. t \in {"startPropertyValueSetLabValType", "endPropertyValueSetLabValType", "erroneous", Skip}
        <5>1. Opened(starts, "endPropertyValueSetLabValVal", x) = "startPropertyValueSetLabValType"
          BY <3>18, OpenedFacts
        <5>. QED
          BY <3>4, <3>18, <3>20, <4>1, <5>1
      <4>. QED
        BY <3>3, <3>18, <4>2, InFacts
    <3>19. x \in {"data", "normData", "property", "propertySet", "valueSetRelations", "name", "valueSet", "rawValue",
                  "labValue", "objectRef", "dataRef", "val", "type"}
      BY <1>1, <2>3 DEF BeforeStart
    <3>. QED
      BY <3>7, <3>8, <3>9, <3>10, <3>11, <3>12, <3>13, <3>14, <3>15, <3>16, <3>17, <3>18, <3>19
  <2>. QED
    BY <2>1, <2>2, <2>3
<1>. QED
  BY <1>1, <1>2, <1>3, <1>4

\* The end of an element, but for those at which a handler compares.
LEMMA ClosedState ==
  ASSUME NEW doc \in Document, NEW c, Proper(doc, c), NEW e, NEW d \in Place, Finishes(doc, c, e, d),
         NEW skipping \in {Skipping1, Skipping2}, NEW s \in StatesAt(c) \ {"endPropertyValueSet", "startNormData"},
         skipping = Skipping2 /\ c.at = "normText" => s # Skip
  PROVE  Closed(skipping, s, e.element) \in StatesAt(d)
<1>. DEFINE x == e.element
            t == Closed(skipping, s, x)
<1>1. /\ c \in Place /\ c.object \in Nat /\ x \in DOMAIN BeforeEnd /\ c.at \in BeforeEnd[x]
      /\ d.at = After[x] /\ d.object = c.object /\ c.object <= Len(doc)
      /\ x = "xcdl" => c.object = Len(doc)
  BY DEF Proper, Finishes, Place, To
<1>2. CASE s \in Dead
  BY <1>2, DeadStays DEF StatesAt
<1>3. CASE c.object > 1 /\ s \notin Dead
  <2>1. s = "endXCDL"
    BY <1>3 DEF StatesAt
  <2>2. d.object > 1
    BY <1>1, <1>3
  <2>. QED
    BY <2>1, <2>2, DeadStays DEF StatesAt
<1>4. CASE c.object <= 1 /\ s \notin Dead
  <2>1. c.object = 1 /\ d.object = 1
    <3>1. x = "xcdl" \/ c.at \notin {"before", "xcdl"}
      BY <1>1 DEF BeforeEnd
    <3>2. x = "xcdl" => c.object >= 1
      BY <1>1 DEF Document
    <3>. QED
      BY <1>1, <1>4, <3>1, <3>2 DEF Proper
  <2>2. s \in StatesIn[c.at]
    BY <1>4, <2>1 DEF StatesAt
  <2>. SUFFICES t \in StatesIn[After[x]] \cup Dead
    BY <1>1, <2>1 DEF StatesAt
  <2>. HIDE DEF t
  <2>3. t = Closed(skipping, s, x)
    BY DEF t
  <2>4. \A v \in {"startPropertyValueSet", "endPropertyValueSetLabVal", "endPropertyValueSetDataRef"} : v \in ValueSetStates
    BY DEF ValueSetStates
  <2>5. Closed(skipping, Skip, x) =
          CASE x = "property" -> "endProperty"
            [] x = "normData" -> (IF skipping = Skipping1 THEN "endNormData" ELSE Skip)
            [] OTHER -> Skip
    BY ClosedFacts DEF Skip
  <2>6. CASE x = "xcdl"
    <3>1. s \in {"endObject", "endXCDL", "startObject", "endNormData"} /\ After[x] = "end"
      BY <1>1, <2>2, <2>6, InFacts DEF BeforeEnd, After
    <3>2. t \in {"endXCDL", "startObject", "endNormData"}
      BY <2>3, <3>1, ClosedFacts
    <3>. QED
      BY <3>1, <3>2, InFacts
  <2>7. CASE x = "object"
    <3>1. s \in {"startObject", "endNormData", "endProperty", "endObject", "endPropertySet"} /\ After[x] = "xcdl"
      BY <1>1, <2>2, <2>7, InFacts DEF BeforeEnd, After
    <3>2. t \in {"endXCDL", "startObject", "endNormData", "endObject"}
      BY <2>3, <3>1, ClosedFacts
    <3>. QED
      BY <3>1, <3>2, InFacts
  <2>8. CASE x \in {"data", "rawValue", "objectRef"}
    <3>1. s = Skip /\ x # "data" /\ After[x] \in {"afterRawValue", "afterObjectRef"}
      BY <1>1, <2>2, <2>8, InFacts DEF BeforeEnd, After
    <3>. QED
      BY <2>3, <2>5, <2>8, <3>1, InFacts
  <2>9. CASE x = "normData"
    <3>1. s = Skip /\ c.at = "normText" /\ After[x] = "afterNormData"
      BY <1>1, <2>2, <2>9, InFacts DEF BeforeEnd, After
    <3>2. skipping = Skipping1
      BY <3>1
    <3>. QED
      BY <2>3, <2>5, <2>9, <3>1, <3>2, InFacts
  <2>10. CASE x = "property"
    <3>1. s \in {"endProperty", Skip} /\ After[x] = "afterProperty"
      BY <1>1, <2>2, <2>10, InFacts DEF BeforeEnd, After
    <3>2. t \in {"endProperty", "endObject"}
      BY <2>3, <2>5, <2>10, <3>1, ClosedFacts
    <3>. QED
      BY <3>1, <3>2, InFacts
  <2>11. CASE x = "propertySet"
    <3>1. s = "other" /\ After[x] = "afterPropertySet"
      BY <1>1, <2>2, <2>11, InFacts DEF BeforeEnd, After
    <3>. QED
      BY <2>3, <2>11, <3>1, InFacts, ClosedFacts
  <2>12. CASE x = "valueSetRelations"
    <3>1. s = "other" /\ After[x] = "afterRelations"
      BY <1>1, <2>2, <2>12, InFacts DEF BeforeEnd, After
    <3>. QED
      BY <2>3, <2>12, <3>1, InFacts, ClosedFacts
  <2>13. CASE x = "name"
    <3>1. s \in {"startPropertyName", Skip} /\ After[x] = "named"
      BY <1>1, <2>2, <2>13, InFacts DEF BeforeEnd, After
    <3>. QED
      BY <2>3, <2>5, <2>13, <3>1, InFacts, ClosedFacts
  <2>14. CASE x = "valueSet"
    <3>1. s \in {"startPropertyValueSet", "endPropertyValueSetLabVal", "endPropertyValueSetDataRef", Skip} /\ After[x] = "valued"
      BY <1>1, <2>2, <2>14, InFacts DEF BeforeEnd, After
    <3>2. t \in {"endPropertyValueSet", Skip}
      BY <2>3, <2>4, <2>5, <2>14, <3>1, ClosedFacts
    <3>. QED
      BY <3>1, <3>2, InFacts
  <2>15. CASE x = "labValue"
    <3>1. s \in {"endPropertyValueSetLabValType", "endPropertyValueSetLabVal", Skip} /\ After[x] = "labelled"
      BY <1>1, <2>2, <2>15, InFacts DEF BeforeEnd, After
    <3>2. t \in {"endPropertyValueSetLabVal", "endPropertyValueSet", Skip}
      BY <2>3, <2>4, <2>5, <2>15, <3>1, ClosedFacts
    <3>. QED
      BY <3>1, <3>2, InFacts
  <2>16. CASE x = "dataRef"
    <3>1. s \in {"startPropertyValueSetDataRef", Skip} /\ After[x] = "afterDataRef"
      BY <1>1, <2>2, <2>16, InFacts DEF BeforeEnd, After
    <3>. QED
      BY <2>3, <2>5, <2>16, <3>1, InFacts, ClosedFacts
  <2>17. CASE x = "val"
    <3>1. s \in {"startPropertyValueSetLabValVal", Skip} /\ After[x] = "afterVal"
      BY <1>1, <2>2, <2>17, InFacts DEF BeforeEnd, After
    <3>. QED
      BY <2>3, <2>5, <2>17, <3>1, InFacts, ClosedFacts
  <2>18. CASE x = "type"
    <3>1. s \in {"startPropertyValueSetLabValType", "endPropertyValueSetLabValType", Skip} /\ After[x] = "afterType"
      BY <1>1, <2>2, <2>18, InFacts DEF BeforeEnd, After
    <3>2. t \in {"endPropertyValueSetLabValType", "endPropertyValueSetLabVal", Skip}
      BY <2>3, <2>5, <2>18, <3>1, ClosedFacts
    <3>. QED
      BY <3>1, <3>2, InFacts
  <2>19. x \in {"xcdl", "object", "data", "normData", "property", "propertySet", "valueSetRelations", "name", "valueSet",
                "rawValue", "labValue", "objectRef", "dataRef", "val", "type"}
    BY <1>1 DEF BeforeEnd
  <2>. QED
    BY <2>6, <2>7, <2>8, <2>9, <2>10, <2>11, <2>12, <2>13, <2>14, <2>15, <2>16, <2>17, <2>18, <2>19
<1>. QED
  BY <1>1, <1>2, <1>3, <1>4

\* A text.
LEMMA SaidState ==
  ASSUME NEW doc, NEW c, Proper(doc, c), NEW e, NEW d \in Place, Says(doc, c, e, d), NEW s \in StatesAt(c)
  PROVE  /\ s \in StatesAt(d)
         /\ s = "startPropertyName" => Skip \in StatesAt(d) /\ c.at \in {"name", "nameText"}
         /\ s = "startPropertyValueSetLabValType" => c.at = "type"
         /\ s = "startNormData" => c.at \in {"normData", "normText"}
<1>1. c.at \in DOMAIN AfterText /\ d.at = AfterText[c.at] /\ d.object = c.object /\ c.object \in Nat
  BY DEF Says, To, Proper, Place
<1>2. c.at \in {"normData", "normText", "name", "val", "type"} /\ d.at \in {"normText", "nameText", "val", "type"}
  BY <1>1 DEF AfterText
<1>3. c.object >= 1
  BY <1>2 DEF Proper
<1>4. CASE c.object = 1
  <2>1. s \in StatesIn[c.at] \cup Dead
    BY <1>1, <1>2, <1>4 DEF StatesAt
  <2>2. StatesIn[c.at] \subseteq StatesIn[d.at]
    BY <1>1, <1>2, InFacts DEF AfterText
  <2>3. \A t : t \in StatesIn[d.at] => t \in StatesAt(d)
    BY <1>1, <1>4 DEF StatesAt
  <2>4. s \in Dead => s \in StatesAt(d)
    BY DEF StatesAt
  <2>5. s = "startPropertyName" => c.at = "name" /\ d.at = "nameText"
    BY <1>1, <1>2, <2>1, InFacts DEF Dead, Skip, AfterText
  <2>6. s = "startPropertyValueSetLabValType" => c.at = "type"
    BY <1>2, <2>1, InFacts DEF Dead, Skip
  <2>7. s = "startNormData" => c.at \in {"normData", "normText"}
    BY <1>2, <2>1, InFacts DEF Dead, Skip
  <2>8. Skip \in StatesIn["nameText"]
    BY InFacts
  <2>. QED
    BY <2>1, <2>2, <2>3, <2>4, <2>5, <2>6, <2>7, <2>8
<1>5. CASE c.object > 1
  BY <1>1, <1>5 DEF StatesAt, Dead
<1>. QED
  BY <1>1, <1>3, <1>4, <1>5

-----------------------------------------------------------------------------
(***************************************************************************)
(* What a handler holds.                                                   *)
(***************************************************************************)
\* The states in which a value set is open, and those in which a property is.
LabStates ==
  {"startPropertyValueSet", "startPropertyValueSetLabVal", "startPropertyValueSetLabValVal",
   "endPropertyValueSetLabValVal", "startPropertyValueSetLabValType", "endPropertyValueSetLabValType",
   "endPropertyValueSetLabVal", "startPropertyValueSetDataRef", "endPropertyValueSetDataRef",
   "endPropertyValueSet"}
OpenStates == {"startProperty", "startPropertyName", "endPropertyName"} \cup LabStates
OtherStates ==
  {"parseXCDL", "startXCDL", "endObject", "endXCDL", "startObject", "endNormData", "startNormData", "other",
   "endPropertySet", "endProperty"}
Reached == {Skip} \cup Dead \cup OtherStates \cup OpenStates

\* Other states are not reached.
LEMMA StatesReached ==
  ASSUME NEW c \in Place, NEW s \in StatesAt(c)
  PROVE  s \in Reached
<1>1. c.at \in At
  BY DEF Place
<1>2. \A at \in At : StatesIn[at] \subseteq Reached
  BY InFacts DEF At, Reached, OtherStates, OpenStates, LabStates
<1>. QED
  BY <1>1, <1>2 DEF StatesAt, Reached, OtherStates

\* From which states the start of an element leads to a state.
LEMMA OpenedFrom ==
  ASSUME NEW starts \in {Starts1, Starts2}, NEW x \in DOMAIN BeforeStart, NEW s \in Reached,
         NEW t, t = Opened(starts, s, x), t # s
  PROVE  /\ t = "startProperty" => s \notin Dead \cup {"endPropertyValueSet"}
         /\ t = "startPropertyValueSet" => s \in {"endPropertyName", "endPropertyValueSet"} /\ x = "valueSet"
         /\ t = "startPropertyValueSetLabVal" => s \in LabStates \ {"endPropertyValueSet"}
         /\ t \in LabStates \ {"startPropertyValueSet"} => s \in LabStates \ {"endPropertyValueSet"}
         /\ t \in OpenStates \ {"startProperty"} => s \in OpenStates
         /\ t = "startData" => s = "startObject" /\ x = "data"
         /\ t = "startNormData" => x = "normData" /\ (s = "startObject" \/ (s = "endNormData" /\ starts = Starts2))
         /\ t \notin Dead => s \notin Dead
         /\ t \notin Dead /\ s = "endPropertyValueSet" => t = "startPropertyValueSet"
         /\ t \notin {Skip, "endProperty", "endPropertyValueSet"}
         /\ s \in OpenStates => t # "startProperty"
<1>1. x \notin {"rawVal", "propRel", "ref", "composition"}
  BY DEF BeforeStart
<1>2. /\ "endPropertyValueSetLabVal" \in ValueStates /\ "endPropertyValueSetDataRef" \in ValueStates
      /\ "startPropertyValueSet" \in ValueStates
  BY DEF ValueStates
<1>3. \A r \in {Skip, "other", "endXCDL", "startNormData", "startPropertyName", "startPropertyValueSetLabValVal",
                "startPropertyValueSetLabValType", "endPropertyValueSetLabValType", "startPropertyValueSetDataRef"}
               \cup Dead : Opened(starts, r, x) = r
  BY OpenedFacts DEF SharedStates, FirstStates, PropertyStates, ValueStates, LabelStates, Skip, Dead
<1>4. s \in {"parseXCDL", "startXCDL", "startObject", "endObject", "startProperty", "endPropertyName",
             "endPropertyValueSet", "endProperty", "startPropertyValueSet", "endPropertyValueSetLabVal",
             "endPropertyValueSetDataRef", "startPropertyValueSetLabVal", "endPropertyValueSetLabValVal",
             "endNormData", "endPropertySet"}
  BY <1>3 DEF Reached, OtherStates, OpenStates, LabStates
<1>5. CASE s = "parseXCDL"
  <2>1. t \in {"startXCDL", "erroneous"}
    BY <1>5, OpenedFacts
  <2>. QED
    BY <1>5, <2>1 DEF LabStates, OpenStates, Dead, Skip
<1>6. CASE s = "startXCDL"
  <2>1. t \in {"startObject", "erroneous"}
    BY <1>1, <1>6, OpenedFacts
  <2>. QED
    BY <1>6, <2>1 DEF LabStates, OpenStates, Dead, Skip
<1>7. CASE s = "startObject"
  <2>1. \/ t = "startData" /\ x = "data"
        \/ t = "startNormData" /\ x = "normData"
        \/ t \in {"startProperty", "erroneous"}
    BY <1>7, OpenedFacts
  <2>. QED
    BY <1>7, <2>1 DEF LabStates, OpenStates, Dead, Skip
<1>8. CASE s = "endObject"
  <2>1. t \in {"exit", "erroneous"}
    BY <1>8, OpenedFacts
  <2>. QED
    BY <1>8, <2>1 DEF LabStates, OpenStates, Dead, Skip
<1>9. CASE s = "startProperty"
  <2>1. t \in {"startPropertyName", "erroneous"}
    BY <1>9, OpenedFacts
  <2>. QED
    BY <1>9, <2>1 DEF LabStates, OpenStates, Dead, Skip
<1>10. CASE s \in {"endPropertyName", "endPropertyValueSet"}
  <2>1. t = "erroneous" \/ (t = "startPropertyValueSet" /\ x = "valueSet")
    BY <1>10, OpenedFacts
  <2>. QED
    BY <1>10, <2>1 DEF LabStates, OpenStates, Dead, Skip
<1>11. CASE s \in {"endProperty", "endPropertySet"}
  <2>1. t \in {"startProperty", "other", "erroneous"}
    BY <1>11, OpenedFacts
  <2>. QED
    BY <1>11, <2>1 DEF LabStates, OpenStates, Dead, Skip
<1>12. CASE s \in {"startPropertyValueSet", "endPropertyValueSetLabVal", "endPropertyValueSetDataRef"}
  <2>1. t \in {"startPropertyValueSetLabVal", "startPropertyValueSetDataRef", "erroneous"}
    BY <1>1, <1>2, <1>12, OpenedFacts
  <2>. QED
    BY <1>12, <2>1 DEF LabStates, OpenStates, Dead, Skip
<1>13. CASE s \in {"startPropertyValueSetLabVal", "endPropertyValueSetLabValVal"}
  <2>1. t \in {"startPropertyValueSetLabValVal", "startPropertyValueSetLabValType", "erroneous"}
    BY <1>13, OpenedFacts
  <2>. QED
    BY <1>13, <2>1 DEF LabStates, OpenStates, Dead, Skip
<1>14. CASE s = "endNormData"
  <2>1. \/ t = "startNormData" /\ x = "normData" /\ starts = Starts2
        \/ t \in {"startProperty", "erroneous"}
    BY <1>14, OpenedFacts
  <2>. QED
    BY <1>14, <2>1 DEF LabStates, OpenStates, Dead, Skip
<1>. QED
  BY <1>4, <1>5, <1>6, <1>7, <1>8, <1>9, <1>10, <1>11, <1>12, <1>13, <1>14

\* No start leads to the end of a name, or to the end of all work.
LEMMA OpenedNever ==
  ASSUME NEW starts \in {Starts1, Starts2}, NEW x \in DOMAIN BeforeStart, NEW s \in Reached,
         NEW t, t = Opened(starts, s, x), t # s
  PROVE  t \notin {"endPropertyName", "skipAll"}
<1>1. x \notin {"rawVal", "propRel", "ref", "composition"}
  BY DEF BeforeStart
<1>2. /\ "endPropertyValueSetLabVal" \in ValueStates /\ "endPropertyValueSetDataRef" \in ValueStates
      /\ "startPropertyValueSet" \in ValueStates
  BY DEF ValueStates
<1>3. s \in SharedStates \cup {"endNormData", "endPropertySet"}
  BY OpenedFacts
<1>4. s \in {"parseXCDL", "startXCDL", "startObject", "endObject", "startProperty", "endPropertyName",
             "endPropertyValueSet", "endProperty", "startPropertyValueSet", "endPropertyValueSetLabVal",
             "endPropertyValueSetDataRef", "startPropertyValueSetLabVal", "endPropertyValueSetLabValVal",
             "endNormData", "endPropertySet"}
  BY <1>3 DEF SharedStates, FirstStates, PropertyStates, ValueStates, LabelStates,
              Reached, OtherStates, OpenStates, LabStates, Skip, Dead
<1>5. CASE s \in {"parseXCDL", "startXCDL", "startObject", "endObject", "startProperty"}
  BY <1>1, <1>5, OpenedFacts
<1>6. CASE s \in {"endPropertyName", "endPropertyValueSet", "endProperty", "endNormData", "endPropertySet"}
  BY <1>6, OpenedFacts
<1>7. CASE s \in {"startPropertyValueSet", "endPropertyValueSetLabVal", "endPropertyValueSetDataRef"}
  <2>1. t \in {"startPropertyValueSetLabVal", "startPropertyValueSetDataRef", "erroneous"}
    BY <1>1, <1>2, <1>7, OpenedFacts
  <2>. QED
    BY <2>1
<1>8. CASE s \in {"startPropertyValueSetLabVal", "endPropertyValueSetLabValVal"}
  BY <1>8, OpenedFacts
<1>. QED
  BY <1>4, <1>5, <1>6, <1>7, <1>8

\* An element that is looked at leads to another state.
LEMMA OpenedElsewhere ==
  ASSUME NEW starts \in {Starts1, Starts2}, NEW x \in DOMAIN BeforeStart, NEW s \in Reached, s \in DOMAIN starts
  PROVE  Opened(starts, s, x) # s
<1>1. x \notin {"rawVal", "propRel", "ref", "composition"}
  BY DEF BeforeStart
<1>2. /\ "endPropertyValueSetLabVal" \in ValueStates /\ "endPropertyValueSetDataRef" \in ValueStates
      /\ "startPropertyValueSet" \in ValueStates
  BY DEF ValueStates
<1>3. s \in SharedStates \cup {"endNormData", "endPropertySet"}
  BY StartFacts
<1>4. s \in {"parseXCDL", "startXCDL", "startObject", "endObject", "startProperty", "endPropertyName",
             "endPropertyValueSet", "endProperty", "startPropertyValueSet", "endPropertyValueSetLabVal",
             "endPropertyValueSetDataRef", "startPropertyValueSetLabVal", "endPropertyValueSetLabValVal",
             "endNormData", "endPropertySet"}
  BY <1>3 DEF SharedStates, FirstStates, PropertyStates, ValueStates, LabelStates,
              Reached, OtherStates, OpenStates, LabStates, Skip, Dead
<1>5. CASE s \in {"parseXCDL", "startXCDL", "startObject", "endObject", "startProperty"}
  BY <1>1, <1>5, OpenedFacts
<1>6. CASE s \in {"endPropertyName", "endPropertyValueSet", "endProperty", "endNormData", "endPropertySet"}
  BY <1>6, OpenedFacts
<1>7. CASE s \in {"startPropertyValueSet", "endPropertyValueSetLabVal", "endPropertyValueSetDataRef"}
  <2>1. Opened(starts, s, x) \in {"startPropertyValueSetLabVal", "startPropertyValueSetDataRef", "erroneous"}
    BY <1>1, <1>2, <1>7, OpenedFacts
  <2>. QED
    BY <1>7, <2>1
<1>8. CASE s \in {"startPropertyValueSetLabVal", "endPropertyValueSetLabValVal"}
  BY <1>8, OpenedFacts
<1>. QED
  BY <1>4, <1>5, <1>6, <1>7, <1>8

\* What the end of an element leads to.
LEMMA ClosedInto ==
  ASSUME NEW skipping \in {Skipping1, Skipping2}, NEW x, NEW s \in Reached, NEW t, t = Closed(skipping, s, x), t # s
  PROVE  /\ t \in {Skip, "endProperty"} => s = Skip
         /\ t \notin Dead /\ s \notin Dead
         /\ t \in LabStates \ {"endPropertyValueSet"} => s \in LabStates
         /\ t = "endPropertyValueSet" => s \in LabStates
         /\ t = "endPropertyName" => s = "startPropertyName"
         /\ t \notin {"startPropertyName", "startNormData", "exit"}
<1>1. /\ DOMAIN skipping = {"parseNextProperty", "other"} /\ DOMAIN skipping \cap DOMAIN Ends = {}
  BY SkippingFacts, EndFacts DEF ValueSetStates
<1>2. s \in DOMAIN skipping \cup DOMAIN Ends
  BY DEF Closed
<1>3. CASE s \in DOMAIN skipping
  <2>1. t \in {"parseNextProperty", "endProperty", "endNormData", "endPropertySet", "other"} /\ (s = "other" => t = "endPropertySet")
    BY <1>1, <1>3, ClosedFacts
  <2>. QED
    BY <1>1, <1>3, <2>1 DEF LabStates, Dead, Skip
<1>4. CASE s \in ValueSetStates
  <2>1. t = "endPropertyValueSet" /\ s \in LabStates
    BY <1>4, ClosedFacts DEF ValueSetStates, LabStates, Reached, OtherStates, OpenStates, Dead, Skip
  <2>. QED
    BY <2>1 DEF LabStates, Dead, Skip
<1>5. CASE s \in DOMAIN Ends /\ s \notin ValueSetStates
  <2>1. t = Ends[s]
    BY <1>1, <1>5 DEF Closed
  <2>2. s \in {"startPropertyName", "startPropertyValueSetLabValVal", "startPropertyValueSetLabValType",
               "endPropertyValueSetLabValType", "startPropertyValueSetDataRef", "endProperty", "endPropertySet",
               "endObject"}
    BY <1>5, EndFacts DEF Reached, OtherStates, OpenStates, LabStates, Dead, Skip
  <2>. QED
    BY <2>1, <2>2, EndFacts DEF LabStates, Dead, Skip
<1>. QED
  BY <1>2, <1>3, <1>4, <1>5

SoundValueSet(doc, v) ==
  /\ DOMAIN v = {"id", "labVal", "labValVal", "labValType"}
  /\ v.labValType = "ISO8601" => HasDate(doc)

\* Without several value sets there is one id at most, and only after the last
\* end of one that the handler looks at.
SoundTagset(doc, t, state) ==
  /\ DOMAIN t = {"propName", "ids", "valueSet"}
  /\ t.valueSet = NULL \/ SoundValueSet(doc, t.valueSet)
  /\ ~Manifold(doc) =>
       /\ \E x : t.ids \subseteq {x}
       /\ state \notin Dead \cup {"endPropertyValueSet"} => t.ids = {}

Sound(doc, h) ==
  LET s == h.parsingState
      t == h.propertyTagset
  IN  /\ DOMAIN h = {"parsingState", "propertyTagset", "normData"}
      /\ t = NULL \/ SoundTagset(doc, t, s)
      /\ s \in OpenStates => SoundTagset(doc, t, s)
      /\ s \in LabStates => SoundValueSet(doc, t.valueSet)
      /\ s = "startData" => doc[1].data

\* A new handler is sound, and so are what is made anew.
LEMMA NewIsSound ==
  ASSUME NEW doc
  PROVE  /\ Sound(doc, NewHandler022) /\ NewHandler022.parsingState = "parseXCDL"
         /\ \A s : SoundTagset(doc, NewPropertyTagset, s)
         /\ SoundValueSet(doc, NewValueSet)
<1>1. NULL # "ISO8601"
  BY NullAssumption DEF Types
<1>2. SoundValueSet(doc, NewValueSet)
  BY <1>1 DEF SoundValueSet, NewValueSet
<1>3. \A s : SoundTagset(doc, NewPropertyTagset, s)
  BY DEF SoundTagset, NewPropertyTagset
<1>4. Sound(doc, NewHandler022) /\ NewHandler022.parsingState = "parseXCDL"
  BY DEF Sound, NewHandler022, OpenStates, LabStates
<1>. QED
  BY <1>2, <1>3, <1>4

\* Only the state of a handler changes.
LEMMA InKeepsSound ==
  ASSUME NEW doc, NEW h, Sound(doc, h), NEW s,
         s \in OpenStates => h.parsingState \in OpenStates,
         s \in LabStates => h.parsingState \in LabStates,
         s = "startData" => doc[1].data,
         ~Manifold(doc) /\ s \notin Dead \cup {"endPropertyValueSet"} =>
           h.parsingState \notin Dead \cup {"endPropertyValueSet"}
  PROVE  /\ Sound(doc, In(h, s)) /\ In(h, s).parsingState = s
         /\ In(h, s).propertyTagset = h.propertyTagset
<1>. DEFINE g == In(h, s)
<1>1. /\ DOMAIN g = DOMAIN h /\ g.parsingState = s /\ g.propertyTagset = h.propertyTagset
  BY DEF In, Sound
<1>. HIDE DEF g
<1>2. \A t : SoundTagset(doc, t, h.parsingState) => SoundTagset(doc, t, s)
  BY DEF SoundTagset
<1>3. Sound(doc, g)
  BY <1>1, <1>2 DEF Sound
<1>. QED
  BY <1>1, <1>3 DEF g

\* A property tagset is sound in a state as in another, but for its ids.
LEMMA TagsetKept ==
  ASSUME NEW doc, NEW t, NEW s, NEW u, SoundTagset(doc, t, s),
         ~Manifold(doc) /\ u \notin Dead \cup {"endPropertyValueSet"} => s \notin Dead \cup {"endPropertyValueSet"}
  PROVE  SoundTagset(doc, t, u)
BY DEF SoundTagset

\* What is made or marked when a state is entered.
LEMMA EnteringSound ==
  ASSUME NEW doc, NEW h, Sound(doc, h), NEW e, NEW s,
         s \in {"startProperty", "startPropertyValueSet", "startPropertyValueSetLabVal"} \/
           (s = "startNormData" /\ h.parsingState = "startObject"),
         s = "startPropertyValueSet" => h.parsingState \in OpenStates,
         s = "startPropertyValueSetLabVal" => h.parsingState \in LabStates,
         ~Manifold(doc) => h.parsingState \notin Dead \cup {"endPropertyValueSet"}
  PROVE  LET g == In(Entering(h, s, e), s) IN
         /\ Sound(doc, g) /\ g.parsingState = s
         /\ s \notin {"startProperty", "startNormData"} => g.propertyTagset.propName = h.propertyTagset.propName
         /\ s = "startNormData" => g.propertyTagset.propName = NormData
<1>. DEFINE g == In(Entering(h, s, e), s)
<1>1. /\ DOMAIN h = {"parsingState", "propertyTagset", "normData"}
      /\ h.propertyTagset = NULL \/ SoundTagset(doc, h.propertyTagset, h.parsingState)
      /\ h.parsingState \in OpenStates => SoundTagset(doc, h.propertyTagset, h.parsingState)
      /\ h.parsingState \in LabStates => SoundValueSet(doc, h.propertyTagset.valueSet)
  BY DEF Sound
<1>2. \A t : SoundTagset(doc, t, h.parsingState) => SoundTagset(doc, t, s)
  BY TagsetKept
<1>3. /\ "startProperty" \notin LabStates /\ "startNormData" \notin OpenStates /\ "startNormData" \notin LabStates
      /\ LabStates \subseteq OpenStates
  BY DEF LabStates, OpenStates
<1>. DEFINE old == OrNew(h.propertyTagset, NewPropertyTagset)
<1>4. SoundTagset(doc, old, s)
  BY <1>1, <1>2, NewIsSound DEF OrNew
<1>5. CASE s = "startProperty"
  <2>1. Entering(h, s, e) = [h EXCEPT !.propertyTagset = old]
    BY <1>5 DEF Entering
  <2>. HIDE DEF old
  <2>2. DOMAIN g = DOMAIN h /\ g.parsingState = s /\ g.propertyTagset = old
    BY <1>1, <2>1 DEF In
  <2>. HIDE DEF g
  <2>3. Sound(doc, g)
    BY <1>1, <1>3, <1>4, <1>5, <2>2 DEF Sound
  <2>. QED
    BY <1>5, <2>2, <2>3 DEF g
<1>6. CASE s = "startNormData" /\ h.parsingState = "startObject"
  <2>. DEFINE new == [old EXCEPT !.propName = NormData]
  <2>1. PICK nd : Entering(h, s, e) = [h EXCEPT !.propertyTagset = new, !.normData = nd]
    BY <1>6 DEF Entering
  <2>2. /\ DOMAIN old = {"propName", "ids", "valueSet"}
        /\ DOMAIN new = DOMAIN old /\ new.propName = NormData /\ new.ids = old.ids /\ new.valueSet = old.valueSet
    <3>1. DOMAIN old = {"propName", "ids", "valueSet"}
      BY <1>4 DEF SoundTagset
    <3>. HIDE DEF old
    <3>. QED
      BY <3>1
  <2>. HIDE DEF new
  <2>3. SoundTagset(doc, new, s)
    <3>. HIDE DEF old
    <3>. QED
      BY <1>4, <2>2 DEF SoundTagset
  <2>4. DOMAIN g = DOMAIN h /\ g.parsingState = s /\ g.propertyTagset = new
    BY <1>1, <2>1 DEF In
  <2>. HIDE DEF g
  <2>5. Sound(doc, g)
    BY <1>1, <1>3, <1>6, <2>3, <2>4 DEF Sound
  <2>. QED
    BY <1>6, <2>2, <2>4, <2>5 DEF g
<1>7. CASE s \in {"startPropertyValueSet", "startPropertyValueSetLabVal"}
  <2>. DEFINE t == h.propertyTagset
  <2>1. SoundTagset(doc, t, s) /\ DOMAIN t = {"propName", "ids", "valueSet"}
    BY <1>1, <1>2, <1>3, <1>7 DEF SoundTagset
  <2>2. PICK v : SoundValueSet(doc, v) /\ Entering(h, s, e) = [h EXCEPT !.propertyTagset.valueSet = v]
    <3>1. CASE s = "startPropertyValueSet"
      <4>. DEFINE w == OrNew(t.valueSet, NewValueSet)
                  v == [w EXCEPT !.id = e.id]
      <4>1. Entering(h, s, e) = [h EXCEPT !.propertyTagset.valueSet = v]
        BY <3>1 DEF Entering
      <4>2. SoundValueSet(doc, w)
        BY <2>1, NewIsSound DEF OrNew, SoundTagset
      <4>. HIDE DEF w
      <4>3. DOMAIN v = DOMAIN w /\ v.labValType = w.labValType
        BY <4>2 DEF SoundValueSet
      <4>4. SoundValueSet(doc, v)
        <5>. HIDE DEF v
        <5>. QED
          BY <4>2, <4>3 DEF SoundValueSet
      <4>. QED
        BY <4>1, <4>4
    <3>2. CASE s = "startPropertyValueSetLabVal"
      <4>. DEFINE w == t.valueSet
                  v == [w EXCEPT !.labVal = TRUE]
      <4>1. Entering(h, s, e) = [h EXCEPT !.propertyTagset.valueSet = v]
        BY <3>2, <1>1, <2>1 DEF Entering
      <4>2. SoundValueSet(doc, w)
        BY <1>1, <3>2
      <4>. HIDE DEF w
      <4>3. DOMAIN v = DOMAIN w /\ v.labValType = w.labValType
        BY <4>2 DEF SoundValueSet
      <4>4. SoundValueSet(doc, v)
        <5>. HIDE DEF v
        <5>. QED
          BY <4>2, <4>3 DEF SoundValueSet
      <4>. QED
        BY <4>1, <4>4
    <3>. QED
      BY <1>7, <3>1, <3>2
  <2>. DEFINE new == [t EXCEPT !.valueSet = v]
  <2>3. DOMAIN new = DOMAIN t /\ new.propName = t.propName /\ new.ids = t.ids /\ new.valueSet = v
    <3>. HIDE DEF t
    <3>. QED
      BY <2>1
  <2>4. DOMAIN g = DOMAIN h /\ g.parsingState = s /\ g.propertyTagset = new
    <3>1. Entering(h, s, e) = [h EXCEPT !.propertyTagset = new]
      BY <1>1, <2>2
    <3>. HIDE DEF new
    <3>. QED
      BY <1>1, <3>1 DEF In
  <2>. HIDE DEF new, g
  <2>5. SoundTagset(doc, new, s)
    <3>. HIDE DEF t
    <3>. QED
      BY <2>1, <2>2, <2>3 DEF SoundTagset
  <2>6. Sound(doc, g)
    BY <1>1, <1>7, <2>2, <2>3, <2>4, <2>5 DEF Sound
  <2>. QED
    BY <1>7, <2>3, <2>4, <2>6 DEF g
<1>. QED
  BY <1>5, <1>6, <1>7

\* At the end of a value set that the handler has looked at another one starts
\* only if there are several.
LEMMA SeveralValueSets ==
  ASSUME NEW doc \in Document, NEW c, Proper(doc, c), NEW e, NEW d \in Place, Begins(doc, c, e, d),
         "endPropertyValueSet" \in StatesAt(c), e.element = "valueSet"
  PROVE  Manifold(doc)
<1>1. c.at \in {"named", "valued"} /\ (c.at = "valued" => Manifold(doc))
  BY DEF Begins, BeforeStart
<1>2. c.at # "named"
  <2>1. "endPropertyValueSet" \notin Dead \cup {"endXCDL", "startXCDL", "endPropertyName", Skip}
    BY DEF Dead, Skip
  <2>. QED
    BY <2>1, InFacts DEF StatesAt
<1>. QED
  BY <1>1, <1>2

\* startElement(): the state follows the table, and the handler stays sound.
LEMMA StartSound ==
  ASSUME NEW doc \in Document, NEW c, Proper(doc, c), NEW e, NEW d \in Place, Begins(doc, c, e, d),
         NEW starts \in {Starts1, Starts2}, NEW h, Sound(doc, h), h.parsingState \in StatesAt(c)
  PROVE  LET g == StartElement(h, e, starts)
             s == h.parsingState
         IN  /\ g.parsingState = Opened(starts, s, e.element) /\ Sound(doc, g)
             /\ s \in OpenStates => g.propertyTagset.propName = h.propertyTagset.propName
             /\ s = "startObject" /\ g.parsingState = "startNormData" => g.propertyTagset.propName = NormData
<1>. DEFINE s == h.parsingState
            x == e.element
            t == Opened(starts, s, x)
            g == StartElement(h, e, starts)
<1>1. x \in DOMAIN BeforeStart /\ s \in Reached /\ c \in Place /\ d.object = c.object + (IF x = "object" THEN 1 ELSE 0)
  BY StatesReached DEF Begins, Proper, Into, To, Place
<1>2. CASE s \in {"parseNextProperty", "erroneous", "other"} \/ s \notin DOMAIN starts
  <2>1. g = h /\ t = s
    BY <1>2 DEF StartElement, Ignores, Opened
  <2>2. s \notin {"startObject"}
    <3>1. "startObject" \in DOMAIN starts
      BY StartFacts DEF SharedStates, FirstStates
    <3>. QED
      BY <1>2, <3>1
  <2>. QED
    BY <2>1, <2>2
<1>3. CASE ~(s \in {"parseNextProperty", "erroneous", "other"} \/ s \notin DOMAIN starts)
  <2>1. t # s
    BY <1>1, <1>3, OpenedElsewhere
  <2>2. g = IF x \notin DOMAIN starts[s] THEN In(h, "erroneous") ELSE In(Entering(h, t, e), t)
    BY <1>3 DEF StartElement, Ignores, Opened
  <2>3. x \notin DOMAIN starts[s] => t = "erroneous"
    BY <1>3 DEF Opened
  <2>4. t \notin Dead => s \notin Dead /\ (s = "endPropertyValueSet" => Manifold(doc))
    <3>1. t \notin Dead => s \notin Dead /\ (s = "endPropertyValueSet" => t = "startPropertyValueSet")
      BY <1>1, <2>1, OpenedFrom
    <3>2. t = "startPropertyValueSet" => x = "valueSet"
      BY <1>1, <2>1, OpenedFrom
    <3>. QED
      BY <3>1, <3>2, SeveralValueSets
  <2>5. t = "startData" => doc[1].data
    <3>. SUFFICES ASSUME t = "startData" PROVE doc[1].data
      OBVIOUS
    <3>1. s = "startObject" /\ x = "data"
      BY <1>1, <2>1, OpenedFrom
    <3>2. c.at = "object" /\ doc[d.object].data /\ d.object = c.object
      BY <1>1, <3>1 DEF Begins, BeforeStart, Place
    <3>3. c.object = 1
      BY <1>1, <3>1, <3>2 DEF StatesAt, Dead, Proper, Place
    <3>. QED
      BY <3>2, <3>3
  <2>. HIDE DEF t
  <2>6. CASE \/ t \in {"startProperty", "startPropertyValueSet", "startPropertyValueSetLabVal"}
             \/ t = "startNormData" /\ s = "startObject"
    <3>1. t \notin Dead
      BY <2>6 DEF Dead
    <3>2. /\ t = "startPropertyValueSet" => s \in OpenStates
          /\ t = "startPropertyValueSetLabVal" => s \in LabStates
      <4>1. t = "startPropertyValueSet" => s \in {"endPropertyName", "endPropertyValueSet"}
        BY <1>1, <2>1, OpenedFrom DEF t
      <4>2. t = "startPropertyValueSetLabVal" => s \in LabStates
        BY <1>1, <2>1, OpenedFrom DEF t
      <4>. QED
        BY <4>1, <4>2 DEF OpenStates, LabStates
    <3>3. LET f == In(Entering(h, t, e), t) IN
          /\ Sound(doc, f) /\ f.parsingState = t
          /\ t \notin {"startProperty", "startNormData"} => f.propertyTagset.propName = h.propertyTagset.propName
          /\ t = "startNormData" => f.propertyTagset.propName = NormData
      <4>1. ~Manifold(doc) => h.parsingState \notin Dead \cup {"endPropertyValueSet"}
        BY <2>4, <3>1
      <4>. QED
        BY <2>6, <3>2, <4>1, EnteringSound
    <3>4. g = In(Entering(h, t, e), t)
      BY <2>2, <2>3, <3>1 DEF Dead
    <3>5. s \in OpenStates => t \notin {"startProperty", "startNormData"}
      <4>1. s \in OpenStates => t # "startProperty"
        BY <1>1, <2>1, OpenedFrom DEF t
      <4>2. "startObject" \notin OpenStates
        BY DEF OpenStates, LabStates
      <4>. QED
        BY <2>6, <4>1, <4>2
    <3>. QED
      BY <3>3, <3>4, <3>5 DEF t
  <2>7. CASE /\ t \notin {"startProperty", "startPropertyValueSet", "startPropertyValueSetLabVal"}
             /\ ~(t = "startNormData" /\ s = "startObject")
    <3>1. g = In(h, t)
      <4>1. Entering(h, t, e) = h
        BY <2>7 DEF Entering
      <4>. QED
        BY <2>2, <2>3, <4>1
    <3>2. /\ t \in OpenStates => s \in OpenStates
          /\ t \in LabStates => s \in LabStates
      BY <1>1, <2>1, <2>7, OpenedFrom DEF t
    <3>3. ~Manifold(doc) /\ t \notin Dead \cup {"endPropertyValueSet"} =>
            h.parsingState \notin Dead \cup {"endPropertyValueSet"}
      BY <2>4
    <3>4. Sound(doc, g) /\ g.parsingState = t /\ g.propertyTagset = h.propertyTagset
      BY <2>5, <3>1, <3>2, <3>3, InKeepsSound
    <3>. QED
      BY <2>7, <3>4 DEF t
  <2>. QED
    BY <2>6, <2>7
<1>. QED
  BY <1>2, <1>3

\* endElement(): the state follows the table, and the handler stays sound.
LEMMA EndSound ==
  ASSUME NEW doc, NEW skipping \in {Skipping1, Skipping2}, NEW e, NEW h, Sound(doc, h), h.parsingState \in Reached
  PROVE  LET g == EndElement(h, e, skipping) IN
         /\ g.parsingState = Closed(skipping, h.parsingState, e.element) /\ Sound(doc, g)
         /\ g.propertyTagset.propName = h.propertyTagset.propName
<1>. DEFINE s == h.parsingState
            x == e.element
            t == Closed(skipping, s, x)
            g == EndElement(h, e, skipping)
<1>1. DOMAIN skipping = {"parseNextProperty", "other"} /\ DOMAIN skipping \cap DOMAIN Ends = {}
      /\ ValueSetStates \subseteq DOMAIN Ends
  BY SkippingFacts, EndFacts DEF ValueSetStates
<1>2. CASE g = h /\ t = s
  BY <1>2
<1>3. CASE s \in DOMAIN skipping
  <2>1. (g = h /\ t = s) \/ g = In(h, t)
    <3>1. t = IF x \in DOMAIN skipping[s] THEN skipping[s][x] ELSE s
      BY <1>1, <1>3 DEF Closed
    <3>2. s \notin DOMAIN Ends /\ s \notin ValueSetStates
      BY <1>1, <1>3
    <3>3. g = IF x \in DOMAIN skipping[s] THEN In(h, skipping[s][x]) ELSE h
      BY <1>3, <3>2 DEF EndElement
    <3>. HIDE DEF t, g
    <3>. QED
      BY <3>1, <3>3
  <2>2. t \in {"parseNextProperty", "endProperty", "endNormData", "endPropertySet", "other"}
    BY <1>1, <1>3, ClosedFacts
  <2>3. t \notin OpenStates /\ t \notin LabStates /\ t # "startData" /\ s \notin Dead \cup {"endPropertyValueSet"}
    BY <1>1, <1>3, <2>2 DEF OpenStates, LabStates, Dead
  <2>. HIDE DEF t, g
  <2>4. g = In(h, t) => Sound(doc, g) /\ g.parsingState = t /\ g.propertyTagset = h.propertyTagset
    BY <2>3, InKeepsSound
  <2>. QED
    BY <1>2, <2>1, <2>4 DEF g, t
<1>4. CASE s \in DOMAIN Ends /\ s \notin ValueSetStates
  <2>1. g = In(h, t)
    BY <1>1, <1>4 DEF EndElement, Closed
  <2>2. s \in {"startPropertyName", "startPropertyValueSetLabValVal", "startPropertyValueSetLabValType",
               "endPropertyValueSetLabValType", "startPropertyValueSetDataRef", "endProperty", "endPropertySet",
               "endObject"}
    BY <1>4, EndFacts DEF Reached, OtherStates, OpenStates, LabStates, Dead, Skip
  <2>3. t = Ends[s]
    BY <1>1, <1>4 DEF Closed
  <2>4. /\ t \in OpenStates => s \in OpenStates
        /\ t \in LabStates => s \in LabStates
        /\ t # "startData" /\ s \notin Dead \cup {"endPropertyValueSet"}
    BY <2>2, <2>3, EndFacts DEF OpenStates, LabStates, Dead
  <2>. HIDE DEF t, g
  <2>5. Sound(doc, g) /\ g.parsingState = t /\ g.propertyTagset = h.propertyTagset
    BY <2>1, <2>4, InKeepsSound
  <2>. QED
    BY <2>5 DEF g, t
<1>5. CASE s \in ValueSetStates
  <2>1. g = [In(h, Ends[s]) EXCEPT !.propertyTagset.ids = @ \cup {h.propertyTagset.valueSet.id}]
    BY <1>1, <1>5 DEF EndElement
  <2>2. t = "endPropertyValueSet" /\ Ends[s] = "endPropertyValueSet"
    BY <1>1, <1>5, EndFacts DEF Closed
  <2>3. s \in LabStates /\ s \in OpenStates /\ s \notin Dead \cup {"endPropertyValueSet"}
    BY <1>5 DEF ValueSetStates, Reached, OtherStates, OpenStates, LabStates, Dead, Skip
  <2>. DEFINE tagset == h.propertyTagset
              new == [tagset EXCEPT !.ids = @ \cup {h.propertyTagset.valueSet.id}]
  <2>4. /\ DOMAIN h = {"parsingState", "propertyTagset", "normData"}
        /\ SoundTagset(doc, tagset, s) /\ SoundValueSet(doc, tagset.valueSet)
    BY <2>3 DEF Sound
  <2>5. /\ DOMAIN new = DOMAIN tagset /\ new.propName = tagset.propName /\ new.valueSet = tagset.valueSet
        /\ new.ids = tagset.ids \cup {tagset.valueSet.id}
    <3>1. DOMAIN tagset = {"propName", "ids", "valueSet"}
      BY <2>4 DEF SoundTagset
    <3>. HIDE DEF tagset
    <3>. QED
      BY <3>1 DEF tagset
  <2>6. DOMAIN g = DOMAIN h /\ g.parsingState = t /\ g.propertyTagset = new
    <3>1. g = [h EXCEPT !.parsingState = t, !.propertyTagset = new]
      BY <2>1, <2>2, <2>4 DEF In
    <3>. HIDE DEF new, t, g
    <3>. QED
      BY <2>4, <3>1
  <2>. HIDE DEF new, g
  <2>7. SoundTagset(doc, new, t)
    <3>1. ~Manifold(doc) => new.ids \subseteq {tagset.valueSet.id}
      BY <2>3, <2>4, <2>5 DEF SoundTagset
    <3>2. DOMAIN new = {"propName", "ids", "valueSet"} /\ (new.valueSet = NULL \/ SoundValueSet(doc, new.valueSet))
      BY <2>4, <2>5 DEF SoundTagset
    <3>. HIDE DEF tagset
    <3>. QED
      BY <2>2, <3>1, <3>2 DEF SoundTagset
  <2>8. Sound(doc, g)
    BY <2>2, <2>4, <2>5, <2>6, <2>7 DEF Sound
  <2>. QED
    BY <2>5, <2>6, <2>8 DEF g
<1>6. CASE s \notin DOMAIN skipping /\ s \notin DOMAIN Ends
  BY <1>1, <1>2, <1>6 DEF EndElement, Closed
<1>. QED
  BY <1>3, <1>4, <1>5, <1>6

\* The texts of a value set.
LEMMA ValueSound ==
  ASSUME NEW doc, NEW h, Sound(doc, h), NEW text,
         h.parsingState = "startPropertyValueSetLabValType" /\ text = "ISO8601" => HasDate(doc)
  PROVE  LET g == ValueCharacters(h, text) IN
         /\ Sound(doc, g) /\ g.parsingState = h.parsingState
         /\ g.propertyTagset.propName = h.propertyTagset.propName
<1>. DEFINE s == h.parsingState
            t == h.propertyTagset
            g == ValueCharacters(h, text)
<1>1. CASE s \in {"startPropertyValueSetLabValVal", "startPropertyValueSetLabValType"}
  <2>1. s \in LabStates /\ s \in OpenStates
    BY <1>1 DEF LabStates, OpenStates
  <2>2. /\ DOMAIN h = {"parsingState", "propertyTagset", "normData"}
        /\ SoundTagset(doc, t, s) /\ SoundValueSet(doc, t.valueSet)
        /\ DOMAIN t = {"propName", "ids", "valueSet"}
    BY <2>1 DEF Sound, SoundTagset
  <2>3. PICK v : SoundValueSet(doc, v) /\ g = [h EXCEPT !.propertyTagset.valueSet = v]
    <3>. DEFINE w == t.valueSet
                field == IF s = "startPropertyValueSetLabValVal" THEN "labValVal" ELSE "labValType"
                v == [w EXCEPT ![field] = text]
    <3>1. g = [h EXCEPT !.propertyTagset.valueSet = v]
      BY <1>1, <2>2 DEF ValueCharacters
    <3>2. DOMAIN w = {"id", "labVal", "labValVal", "labValType"} /\ (w.labValType = "ISO8601" => HasDate(doc))
      BY <2>2 DEF SoundValueSet
    <3>3. field = "labValVal" \/ (field = "labValType" /\ s = "startPropertyValueSetLabValType")
      BY <1>1
    <3>. HIDE DEF w, field
    <3>4. /\ DOMAIN v = {"id", "labVal", "labValVal", "labValType"}
          /\ field = "labValVal" => v.labValType = w.labValType
          /\ field = "labValType" => v.labValType = text
      BY <3>2, <3>3
    <3>. HIDE DEF v
    <3>5. SoundValueSet(doc, v)
      BY <3>2, <3>3, <3>4 DEF SoundValueSet
    <3>. QED
      BY <3>1, <3>5
  <2>. DEFINE new == [t EXCEPT !.valueSet = v]
  <2>4. DOMAIN new = DOMAIN t /\ new.propName = t.propName /\ new.ids = t.ids /\ new.valueSet = v
    <3>. HIDE DEF t
    <3>. QED
      BY <2>2
  <2>5. DOMAIN g = DOMAIN h /\ g.parsingState = s /\ g.propertyTagset = new
    <3>1. g = [h EXCEPT !.propertyTagset = new]
      BY <2>2, <2>3
    <3>. HIDE DEF new, g
    <3>. QED
      BY <2>2, <3>1
  <2>. HIDE DEF new, g
  <2>6. SoundTagset(doc, new, s)
    <3>. HIDE DEF t
    <3>. QED
      BY <2>2, <2>3, <2>4 DEF SoundTagset
  <2>7. Sound(doc, g)
    BY <1>1, <2>2, <2>3, <2>4, <2>5, <2>6 DEF Sound
  <2>. QED
    BY <2>4, <2>5, <2>7 DEF g
<1>2. CASE s \notin {"startPropertyValueSetLabVal", "startPropertyValueSetLabValVal", "startPropertyValueSetLabValType"}
  BY <1>2 DEF ValueCharacters
<1>3. CASE s = "startPropertyValueSetLabVal"
  BY <1>3 DEF ValueCharacters
<1>. QED
  BY <1>1, <1>2, <1>3

\* The text of a name, if it is not wanted, passes over the property.
LEMMA NameSound ==
  ASSUME NEW doc, NEW h, Sound(doc, h), h.parsingState = "startPropertyName", NEW text, NEW wanted \in BOOLEAN
  PROVE  LET g == NameCharacters(h, text, wanted) IN
         /\ Sound(doc, g)
         /\ wanted => g.parsingState = h.parsingState /\ g.propertyTagset.propName = text
         /\ ~wanted => g.parsingState = Skip
<1>. DEFINE s == h.parsingState
            t == h.propertyTagset
            g == NameCharacters(h, text, wanted)
<1>1. s \in OpenStates /\ s \notin LabStates /\ s \notin Dead \cup {"endPropertyValueSet"}
  BY DEF OpenStates, LabStates, Dead
<1>2. CASE wanted
  <2>1. /\ DOMAIN h = {"parsingState", "propertyTagset", "normData"}
        /\ SoundTagset(doc, t, s) /\ DOMAIN t = {"propName", "ids", "valueSet"}
    BY <1>1 DEF Sound, SoundTagset
  <2>. DEFINE new == [t EXCEPT !.propName = text]
  <2>2. DOMAIN new = DOMAIN t /\ new.propName = text /\ new.ids = t.ids /\ new.valueSet = t.valueSet
    <3>. HIDE DEF t
    <3>. QED
      BY <2>1
  <2>3. DOMAIN g = DOMAIN h /\ g.parsingState = s /\ g.propertyTagset = new
    <3>1. g = [h EXCEPT !.propertyTagset = new]
      BY <1>2 DEF NameCharacters
    <3>. HIDE DEF new, g
    <3>. QED
      BY <2>1, <3>1
  <2>. HIDE DEF new, g
  <2>4. SoundTagset(doc, new, s)
    <3>. HIDE DEF t
    <3>. QED
      BY <2>1, <2>2 DEF SoundTagset
  <2>5. Sound(doc, g)
    BY <1>1, <2>1, <2>3, <2>4 DEF Sound
  <2>. QED
    BY <1>2, <2>2, <2>3, <2>5 DEF g
<1>3. CASE ~wanted
  <2>1. g = In(h, Skip)
    BY <1>3 DEF NameCharacters, Skip
  <2>2. Skip \notin OpenStates /\ Skip \notin LabStates /\ Skip # "startData"
    BY DEF Skip, OpenStates, LabStates
  <2>3. Sound(doc, g) /\ g.parsingState = Skip
    BY <1>1, <2>1, <2>2, InKeepsSound
  <2>. QED
    BY <1>3, <2>3
<1>. QED
  BY <1>2, <1>3

\* The text of normData.
LEMMA NormTextSound ==
  ASSUME NEW doc, NEW h, Sound(doc, h), NEW text
  PROVE  LET g == [h EXCEPT !.normData.normDataAsUint = text] IN
         Sound(doc, g) /\ g.parsingState = h.parsingState /\ g.propertyTagset = h.propertyTagset
<1>. DEFINE g == [h EXCEPT !.normData.normDataAsUint = text]
<1>1. DOMAIN h = {"parsingState", "propertyTagset", "normData"}
  BY DEF Sound
<1>2. DOMAIN g = DOMAIN h /\ g.parsingState = h.parsingState /\ g.propertyTagset = h.propertyTagset
  BY <1>1
<1>. HIDE DEF g
<1>3. Sound(doc, g)
  BY <1>2 DEF Sound
<1>. QED
  BY <1>2, <1>3 DEF g

-----------------------------------------------------------------------------
(***************************************************************************)
(* The source, at place c, with handler h.  "none" says that there are no  *)
(* results yet.  A property that is common to both and requested is read   *)
(* as such as soon as its name is known, and if it is past without a       *)
(* result, the handler is dead.                                            *)
(***************************************************************************)
Common(sets, src, tar, n) == IsRequested(sets, n) /\ Has(src, n) /\ Has(tar, n) /\ ~tar[1].data

Reading1(src, tar, sets, c, h, none) ==
  LET s == h.parsingState IN
  /\ Proper(src, c) /\ Sound(src, h) /\ s \in StatesAt(c)
  /\ IsRequested(sets, NormData) /\ c.at \in {"normData", "normText"} => s # Skip
  /\ s = "startNormData" => h.propertyTagset.propName = NormData
  /\ none => \A n : Common(sets, src, tar, n) =>
       /\ InWindow(src, c, n) =>
            /\ s \notin {Skip, "endProperty"}
            /\ s \notin Dead => h.propertyTagset.propName = n
       /\ Past(src, c, n) => s \in Dead

\* ... and while it waits for the target.
AfterState(s) == IF s = "startNormData" THEN "endNormData" ELSE "endProperty"
Waiting1(src, tar, sets, c, h, none) ==
  LET s == h.parsingState IN
  /\ Proper(src, c) /\ Sound(src, h) /\ s \in {"startNormData", "endPropertyValueSet"} /\ AfterState(s) \in StatesAt(c)
  /\ c.at \notin {"normData", "normText"}
  /\ s = "startNormData" => h.propertyTagset.propName = NormData
  /\ none => \A n : Common(sets, src, tar, n) /\ (InWindow(src, c, n) \/ Past(src, c, n)) =>
                      h.propertyTagset.propName = n

\* In which states a handler is within a window, and where normData is read.
LEMMA WindowStates ==
  ASSUME NEW doc, NEW c, Proper(doc, c), NEW s \in StatesAt(c)
  PROVE  /\ \A n : n # NormData /\ InWindow(doc, c, n) => s \in OpenStates \cup Dead \cup {Skip, "endProperty"}
         /\ \A n : n = NormData /\ InWindow(doc, c, n) => s \in {"startNormData", Skip} \cup Dead
         /\ s = "startNormData" => c.at \in {"normData", "normText"}
         /\ s = Skip => c.at \in InName \cup {"normData", "normText"}
         /\ s = "endPropertyValueSet" => c.at \in {"labelled", "valued"} /\ c.object = 1
         /\ c.at = "name" => s \in {"startPropertyName", "endXCDL"} \cup Dead
         /\ c.at = "name" /\ c.object = 1 => s \in {"startPropertyName"} \cup Dead
         /\ s = "startPropertyName" => c.at \in {"name", "nameText"}
         /\ s = "exit" => FALSE
<1>1. c.at \in At /\ c.object \in Nat
  BY DEF Place, Proper
<1>2. /\ \A at \in InName : StatesIn[at] \subseteq OpenStates \cup {Skip, "endProperty"}
      /\ StatesIn["normText"] = {"startNormData", Skip} /\ StatesIn["name"] = {"startPropertyName"}
  BY InFacts DEF InName, OpenStates, LabStates
<1>3. \A at \in At :
        /\ "startNormData" \in StatesIn[at] => at \in {"normData", "normText"}
        /\ Skip \in StatesIn[at] => at \in InName \cup {"normData", "normText"}
        /\ "endPropertyValueSet" \in StatesIn[at] => at \in {"labelled", "valued"}
        /\ "startPropertyName" \in StatesIn[at] => at \in {"name", "nameText"}
        /\ "exit" \notin StatesIn[at]
  BY InFacts DEF At, InName, Skip
<1>4. {"startNormData", Skip, "endPropertyValueSet", "startPropertyName", "exit"} \cap (Dead \cup {"endXCDL", "startXCDL"}) = {}
  BY DEF Dead, Skip
<1>5. s \in Dead \cup {"endXCDL", "startXCDL"} \/ s \in StatesIn[c.at]
  BY DEF StatesAt
<1>6. c.object = 1 => s \in Dead \cup StatesIn[c.at]
  BY <1>1 DEF StatesAt
<1>7. s = "endPropertyValueSet" => c.object = 1
  <2>1. ASSUME s = "endPropertyValueSet", c.object > 1 PROVE FALSE
    BY <1>1, <1>4, <2>1 DEF StatesAt
  <2>2. ASSUME s = "endPropertyValueSet", c.object = 0 PROVE FALSE
    <3>1. c.at \in {"labelled", "valued"}
      BY <1>1, <1>3, <1>4, <1>5, <2>2
    <3>. QED
      BY <2>2, <3>1 DEF Proper
  <2>. QED
    BY <1>1, <2>1, <2>2
<1>8. ASSUME NEW n, n # NormData, InWindow(doc, c, n)
      PROVE  s \in OpenStates \cup Dead \cup {Skip, "endProperty"}
  <2>1. c.object = 1 /\ c.at \in InName
    BY <1>8 DEF InWindow
  <2>. QED
    BY <1>2, <1>6, <2>1
<1>9. ASSUME NEW n, n = NormData, InWindow(doc, c, n)
      PROVE  s \in {"startNormData", Skip} \cup Dead
  <2>1. c.object = 1 /\ c.at = "normText"
    BY <1>9 DEF InWindow
  <2>. QED
    BY <1>2, <1>6, <2>1
<1>10. c.at = "name" => s \in {"startPropertyName", "endXCDL"} \cup Dead
  BY <1>2 DEF StatesAt
<1>11. c.at = "name" /\ c.object = 1 => s \in {"startPropertyName"} \cup Dead
  BY <1>2, <1>6
<1>. QED
  BY <1>1, <1>3, <1>4, <1>5, <1>7, <1>8, <1>9, <1>10, <1>11

\* The start of an element in the source.
LEMMA SourceBegins ==
  ASSUME NEW src \in Document, NEW tar, NEW sets, NEW c, NEW h, NEW none \in BOOLEAN,
         Reading1(src, tar, sets, c, h, none),
         NEW e, NEW d \in Place, Begins(src, c, e, d), NEW g, g = StartElementXCDL1(h, e, sets)
  PROVE  \/ g.parsingState = "exit" /\ Len(src) > 1
         \/ g.parsingState # "exit" /\ Reading1(src, tar, sets, d, g, none)
<1>. DEFINE s == h.parsingState
            t == g.parsingState
            x == e.element
<1>1. /\ Proper(src, c) /\ Sound(src, h) /\ s \in StatesAt(c) /\ c \in Place /\ Moves(src, c, e, d)
  BY DEF Reading1, Proper, Moves
<1>2. Proper(src, d)
  BY <1>1, MovesStayProper
<1>3. /\ x \in DOMAIN BeforeStart /\ c.at \in BeforeStart[x] /\ d.at = x /\ e.event = "start"
      /\ c.at \notin {"normText", "normData"} /\ (c.at = "name" => FALSE)
      /\ x = "normData" => c.at \in {"object", "afterData", "afterNormData"}
  <2>1. x \in DOMAIN BeforeStart /\ c.at \in BeforeStart[x] /\ d.at = x /\ e.event = "start"
    BY DEF Begins, Into, To
  <2>. QED
    BY <2>1 DEF BeforeStart
<1>4. ASSUME NEW n, Common(sets, src, tar, n), none
      PROVE  /\ InWindow(src, d, n) => InWindow(src, c, n) /\ n # NormData
             /\ Past(src, d, n) => Past(src, c, n)
  <2>1. InWindow(src, d, n) => InWindow(src, c, n)
    <3>1. ~Says(src, c, e, d)
      BY <1>3 DEF Says
    <3>. QED
      BY <1>1, <3>1, WindowComes
  <2>2. InWindow(src, d, n) => n # NormData
    BY <1>3, <2>1 DEF InWindow
  <2>3. Past(src, d, n) => Past(src, c, n)
    <3>1. ~Finishes(src, c, e, d)
      BY <1>3 DEF Finishes
    <3>. QED
      BY <1>1, <1>4, <3>1, PastComes DEF Common
  <2>. QED
    BY <2>1, <2>2, <2>3
<1>5. CASE s = "startObject" /\ x = "normData" /\ ~IsRequested(sets, NormData)
  <2>1. g = In(h, Skip)
    BY <1>5 DEF StartElementXCDL1, Skip
  <2>2. /\ Skip \notin OpenStates /\ Skip \notin LabStates /\ Skip # "startData"
        /\ s \notin Dead \cup {"endPropertyValueSet", Skip, "endProperty"} /\ Skip \notin Dead \cup {"exit", "startNormData"}
    BY <1>5 DEF Skip, OpenStates, LabStates, Dead
  <2>3. Sound(src, g) /\ t = Skip
    BY <1>1, <2>1, <2>2, InKeepsSound
  <2>4. d.object = c.object /\ c.object = 1 /\ d.at = "normData"
    <3>1. d.object = c.object /\ d.at = "normData"
      BY <1>5 DEF Begins, Into
    <3>2. c.object >= 1 /\ c.object \in Nat /\ c.at # "xcdl"
      BY <1>1, <1>3, <1>5 DEF Proper, Place
    <3>3. ~(c.object > 1)
      BY <1>1, <1>5 DEF StatesAt, Dead
    <3>. QED
      BY <3>1, <3>2, <3>3
  <2>5. Skip \in StatesAt(d)
    BY <2>4, InFacts DEF StatesAt
  <2>6. ASSUME NEW n, Common(sets, src, tar, n), none
        PROVE  ~InWindow(src, d, n) /\ ~Past(src, d, n)
    <3>1. ~InWindow(src, d, n)
      BY <2>4 DEF InWindow, InName
    <3>2. Past(src, c, n) => s \in Dead
      BY <2>6 DEF Reading1
    <3>. QED
      BY <1>4, <2>2, <2>6, <3>1, <3>2
  <2>. QED
    BY <1>2, <1>5, <2>2, <2>3, <2>5, <2>6 DEF Reading1
<1>6. CASE ~(s = "startObject" /\ x = "normData" /\ ~IsRequested(sets, NormData))
  <2>1. g = StartElement(h, e, Starts1)
    BY <1>6 DEF StartElementXCDL1
  <2>2. /\ t = Opened(Starts1, s, x) /\ Sound(src, g)
        /\ s \in OpenStates => g.propertyTagset.propName = h.propertyTagset.propName
        /\ s = "startObject" /\ t = "startNormData" => g.propertyTagset.propName = NormData
    BY <1>1, <2>1, StartSound
  <2>3. s \in Reached
    BY <1>1, StatesReached
  <2>4. /\ t # s => /\ t = "startNormData" => s = "startObject" \/ Starts1 = Starts2
                    /\ t \notin Dead => s \notin Dead
                    /\ t \notin {Skip, "endProperty", "endPropertyValueSet"}
        /\ s \in Dead => t = s
    <3>1. t # s => /\ t = "startNormData" => s = "startObject" \/ Starts1 = Starts2
                   /\ t \notin Dead => s \notin Dead
                   /\ t \notin {Skip, "endProperty", "endPropertyValueSet"}
      BY <1>3, <2>2, <2>3, OpenedFrom
    <3>. QED
      BY <2>2, <3>1, DeadStays
  <2>5. Starts1 # Starts2
    <3>. SUFFICES ASSUME Starts1 = Starts2 PROVE FALSE
      OBVIOUS
    <3>1. [property |-> "startProperty"] = [property |-> "startProperty", normData |-> "startNormData"]
      BY StartFacts
    <3>2. "normData" \in DOMAIN [property |-> "startProperty", normData |-> "startNormData"]
      OBVIOUS
    <3>3. "normData" \notin DOMAIN [property |-> "startProperty"]
      OBVIOUS
    <3>. QED
      BY <3>1, <3>2, <3>3
  <2>6. CASE t = "exit"
    <3>1. "exit" \notin StatesAt(d)
      BY <1>2, WindowStates
    <3>. QED
      BY <1>1, <2>2, <2>6, <3>1, OpenedState
  <2>7. CASE t # "exit"
    <3>1. t \in StatesAt(d)
      BY <1>1, <2>2, <2>7, OpenedState
    <3>2. t = "startNormData" => g.propertyTagset.propName = NormData
      <4>1. s # "startNormData"
        BY <1>1, <1>3, WindowStates
      <4>. QED
        BY <2>2, <2>4, <2>5, <4>1
    <3>3. IsRequested(sets, NormData) /\ d.at \in {"normData", "normText"} => t # Skip
      <4>. SUFFICES ASSUME d.at \in {"normData", "normText"} PROVE t # Skip
        OBVIOUS
      <4>1. x = "normData"
        BY <1>3 DEF BeforeStart
      <4>2. c.at \notin InName \cup {"normData", "normText"}
        BY <1>3, <4>1 DEF InName
      <4>3. s # Skip
        BY <1>1, <4>2, WindowStates
      <4>. QED
        BY <2>4, <4>3
    <3>4. ASSUME NEW n, Common(sets, src, tar, n), none
          PROVE  /\ InWindow(src, d, n) =>
                      /\ t \notin {Skip, "endProperty"}
                      /\ t \notin Dead => g.propertyTagset.propName = n
                 /\ Past(src, d, n) => t \in Dead
      <4>1. /\ InWindow(src, c, n) =>
                 /\ s \notin {Skip, "endProperty"}
                 /\ s \notin Dead => h.propertyTagset.propName = n
            /\ Past(src, c, n) => s \in Dead
        BY <3>4 DEF Reading1
      <4>2. Past(src, d, n) => t \in Dead
        BY <1>4, <2>4, <3>4, <4>1
      <4>3. ASSUME InWindow(src, d, n)
            PROVE  /\ t \notin {Skip, "endProperty"}
                   /\ t \notin Dead => g.propertyTagset.propName = n
        <5>1. InWindow(src, c, n) /\ n # NormData
          BY <1>4, <3>4, <4>3
        <5>2. s \in OpenStates \cup Dead
          BY <1>1, <4>1, <5>1, WindowStates
        <5>3. t \notin {Skip, "endProperty"}
          BY <2>4, <4>1, <5>1
        <5>4. t \notin Dead => s \notin Dead
          BY <2>4
        <5>. QED
          BY <2>2, <4>1, <5>1, <5>2, <5>3, <5>4
      <4>. QED
        BY <4>2, <4>3
    <3>. QED
      BY <1>2, <2>2, <2>7, <3>1, <3>2, <3>3, <3>4 DEF Reading1
  <2>. QED
    BY <2>6, <2>7
<1>. QED
  BY <1>5, <1>6

\* A text of the source.
LEMMA SourceSays ==
  ASSUME NEW src \in Document, NEW tar, NEW sets, NEW c, NEW h, NEW none \in BOOLEAN,
         Reading1(src, tar, sets, c, h, none),
         NEW e, NEW d \in Place, Says(src, c, e, d), NEW g, g = CharactersXCDL1(h, e.text, sets)
  PROVE  Reading1(src, tar, sets, d, g, none)
<1>. DEFINE s == h.parsingState
            t == g.parsingState
<1>1. /\ Proper(src, c) /\ Sound(src, h) /\ s \in StatesAt(c) /\ c \in Place /\ Moves(src, c, e, d)
  BY DEF Reading1, Proper, Moves
<1>2. Proper(src, d)
  BY <1>1, MovesStayProper
<1>3. /\ c.at \in DOMAIN AfterText /\ d.at = AfterText[c.at] /\ e.event = "characters" /\ d.object = c.object
      /\ c.at = "type" /\ e.text = "ISO8601" => HasDate(src)
      /\ c.at \in {"normData", "normText", "name", "val", "type"}
      /\ d.at \in {"normData", "normText"} => c.at \in {"normData", "normText"}
  BY DEF Says, To, AfterText
<1>4. /\ s \in StatesAt(d)
      /\ s = "startPropertyName" => Skip \in StatesAt(d) /\ c.at = "name"
      /\ s = "startPropertyValueSetLabValType" => c.at = "type"
      /\ s = "startNormData" => c.at \in {"normData", "normText"}
  BY <1>1, <1>3, SaidState DEF AfterText
<1>5. IsRequested(sets, e.text) \in BOOLEAN
  BY DEF IsRequested
<1>6. /\ Sound(src, g)
      /\ s # "startPropertyName" => t = s /\ g.propertyTagset.propName = h.propertyTagset.propName
      /\ s = "startPropertyName" =>
           /\ IsRequested(sets, e.text) => t = s /\ g.propertyTagset.propName = e.text
           /\ ~IsRequested(sets, e.text) => t = Skip
  <2>1. CASE s = "startNormData"
    <3>1. g = [h EXCEPT !.normData.normDataAsUint = e.text]
      BY <2>1 DEF CharactersXCDL1
    <3>. QED
      BY <1>1, <2>1, <3>1, NormTextSound
  <2>2. CASE s = "startPropertyName"
    <3>1. g = NameCharacters(h, e.text, IsRequested(sets, e.text))
      BY <2>2 DEF CharactersXCDL1
    <3>. QED
      BY <1>1, <1>5, <2>2, <3>1, NameSound
  <2>3. CASE s \notin {"startNormData", "startPropertyName"}
    <3>1. g = ValueCharacters(h, e.text)
      BY <2>3 DEF CharactersXCDL1
    <3>. QED
      BY <1>1, <1>3, <1>4, <2>3, <3>1, ValueSound
  <2>. QED
    BY <2>1, <2>2, <2>3
<1>. HIDE DEF t
<1>7. t \in StatesAt(d) /\ (t = s \/ (t = Skip /\ s = "startPropertyName" /\ ~IsRequested(sets, e.text)))
  BY <1>4, <1>6
<1>8. /\ IsRequested(sets, NormData) /\ d.at \in {"normData", "normText"} => t # Skip
      /\ t = "startNormData" => g.propertyTagset.propName = NormData
  <2>1. d.at \in {"normData", "normText"} => t = s
    BY <1>3, <1>4, <1>7
  <2>2. /\ IsRequested(sets, NormData) /\ c.at \in {"normData", "normText"} => s # Skip
        /\ s = "startNormData" => h.propertyTagset.propName = NormData
    BY DEF Reading1
  <2>3. t = "startNormData" => s = "startNormData"
    BY <1>7 DEF Skip
  <2>. QED
    BY <1>3, <1>6, <2>1, <2>2, <2>3
<1>9. ASSUME NEW n, Common(sets, src, tar, n), none
      PROVE  /\ InWindow(src, d, n) =>
                  /\ t \notin {Skip, "endProperty"}
                  /\ t \notin Dead => g.propertyTagset.propName = n
             /\ Past(src, d, n) => t \in Dead
  <2>1. /\ InWindow(src, c, n) =>
             /\ s \notin {Skip, "endProperty"}
             /\ s \notin Dead => h.propertyTagset.propName = n
        /\ Past(src, c, n) => s \in Dead
    BY <1>9 DEF Reading1
  <2>2. Past(src, d, n) => t \in Dead
    <3>1. ~Finishes(src, c, e, d)
      BY <1>3 DEF Finishes
    <3>2. Past(src, d, n) => Past(src, c, n)
      BY <1>1, <1>9, <3>1, PastComes DEF Common
    <3>3. s = "startPropertyName" => s \notin Dead
      BY DEF Dead
    <3>. QED
      BY <1>7, <2>1, <3>2, <3>3
  <2>3. ASSUME InWindow(src, d, n)
        PROVE  /\ t \notin {Skip, "endProperty"}
               /\ t \notin Dead => g.propertyTagset.propName = n
    <3>1. CASE InWindow(src, c, n)
      <4>1. s # "startPropertyName"
        <5>1. c.at # "name"
          BY <3>1 DEF InWindow, InName
        <5>. QED
          BY <1>4, <5>1
      <4>. QED
        BY <1>6, <1>7, <2>1, <3>1, <4>1
    <3>2. CASE n = NormData /\ c.at = "normData"
      <4>1. d.object = 1 /\ c.object = 1
        BY <1>3, <2>3 DEF InWindow
      <4>2. s \in {"startNormData"} \cup Dead
        <5>1. s \in {"startNormData", Skip} \cup Dead
          BY <1>1, <3>2, <4>1, InFacts DEF StatesAt
        <5>2. s # Skip
          BY <1>9, <3>2 DEF Reading1, Common
        <5>. QED
          BY <5>1, <5>2
      <4>3. "startPropertyName" \notin Dead /\ Skip \notin Dead /\ "endProperty" \notin Dead
        BY DEF Dead, Skip
      <4>4. s # "startPropertyName" /\ t = s /\ t \notin {Skip, "endProperty"}
        BY <1>6, <4>2, <4>3 DEF Skip
      <4>5. s \notin Dead => h.propertyTagset.propName = NormData
        BY <4>2 DEF Reading1
      <4>. QED
        BY <1>6, <3>2, <4>4, <4>5
    <3>3. CASE n # NormData /\ c.at = "name" /\ e.text = n
      <4>1. d.object = 1 /\ c.object = 1
        BY <1>3, <2>3 DEF InWindow
      <4>2. s \in {"startPropertyName"} \cup Dead
        BY <1>1, <3>3, <4>1, WindowStates
      <4>3. IsRequested(sets, e.text)
        BY <1>9, <3>3 DEF Common
      <4>4. t = s /\ (s = "startPropertyName" => g.propertyTagset.propName = n)
        BY <1>6, <3>3, <4>3
      <4>. QED
        BY <4>2, <4>4 DEF Skip, Dead
    <3>. QED
      BY <1>1, <2>3, <3>1, <3>2, <3>3, WindowComes
  <2>. QED
    BY <2>2, <2>3
<1>. QED
  BY <1>2, <1>6, <1>7, <1>8, <1>9 DEF Reading1, t

\* The end of an element in the source, but for those that make it wait.
LEMMA SourceFinishes ==
  ASSUME NEW src \in Document, NEW tar, NEW sets, NEW c, NEW h, NEW none \in BOOLEAN,
         Reading1(src, tar, sets, c, h, none), h.parsingState \notin {"startNormData", "endPropertyValueSet"},
         NEW e, NEW d \in Place, Finishes(src, c, e, d), NEW g, g = EndElementXCDL1(h, e)
  PROVE  Reading1(src, tar, sets, d, g, none)
<1>. DEFINE s == h.parsingState
            t == g.parsingState
<1>1. /\ Proper(src, c) /\ Sound(src, h) /\ s \in StatesAt(c) /\ c \in Place /\ Moves(src, c, e, d)
  BY DEF Reading1, Proper, Moves
<1>2. Proper(src, d) /\ s \in Reached
  BY <1>1, MovesStayProper, StatesReached
<1>3. /\ e.event = "end" /\ d.object = c.object /\ d.at \notin {"normData", "normText"}
      /\ e.element \in DOMAIN BeforeEnd /\ c.at \in BeforeEnd[e.element]
  BY DEF Finishes, To, BeforeEnd, After
<1>4. /\ t = Closed(Skipping1, s, e.element) /\ Sound(src, g)
      /\ g.propertyTagset.propName = h.propertyTagset.propName
  BY <1>1, <1>2, EndSound DEF EndElementXCDL1
<1>5. t \in StatesAt(d)
  <2>1. Skipping1 # Skipping2
    <3>. SUFFICES ASSUME Skipping1 = Skipping2 PROVE FALSE
      OBVIOUS
    <3>1. "normData" \in DOMAIN Skipping1["parseNextProperty"] /\ "normData" \notin DOMAIN Skipping2["parseNextProperty"]
      BY DEF Skipping1, Skipping2
    <3>. QED
      BY <3>1
  <2>. QED
    BY <1>1, <1>4, <2>1, ClosedState
<1>6. t # "startNormData"
  BY <1>2, <1>3, <1>5, WindowStates
<1>7. /\ s \in Dead => t = s
      /\ t \in {Skip, "endProperty"} => s = Skip \/ t = s
      /\ t \notin Dead => s \notin Dead
  BY <1>2, <1>4, DeadStays, ClosedInto
<1>8. ASSUME NEW n, Common(sets, src, tar, n), none
      PROVE  /\ InWindow(src, d, n) =>
                  /\ t \notin {Skip, "endProperty"}
                  /\ t \notin Dead => g.propertyTagset.propName = n
             /\ Past(src, d, n) => t \in Dead
  <2>1. /\ InWindow(src, c, n) =>
             /\ s \notin {Skip, "endProperty"}
             /\ s \notin Dead => h.propertyTagset.propName = n
        /\ Past(src, c, n) => s \in Dead
    BY <1>8 DEF Reading1
  <2>2. InWindow(src, d, n) => InWindow(src, c, n)
    <3>1. ~Says(src, c, e, d)
      BY <1>3 DEF Says
    <3>. QED
      BY <1>1, <3>1, WindowComes
  <2>3. ASSUME Past(src, d, n) PROVE t \in Dead
    <3>1. CASE Past(src, c, n)
      BY <1>7, <2>1, <3>1
    <3>2. CASE InWindow(src, c, n) /\ e.element = IF n = NormData THEN "normData" ELSE "property"
      <4>1. CASE n = NormData
        BY <1>1, <1>7, <2>1, <3>2, <4>1, WindowStates
      <4>2. CASE n # NormData
        <5>1. c.at = "valued" /\ c.object = 1
          BY <1>3, <3>2, <4>2 DEF BeforeEnd, InWindow
        <5>2. s \in {"endPropertyValueSet", "endProperty", Skip} \cup Dead
          BY <1>1, <5>1, InFacts DEF StatesAt
        <5>. QED
          BY <1>7, <2>1, <3>2, <5>2
      <4>. QED
        BY <4>1, <4>2
    <3>. QED
      BY <1>1, <1>8, <2>3, <3>1, <3>2, PastComes DEF Common
  <2>. QED
    BY <1>4, <1>7, <2>1, <2>2, <2>3
<1>. QED
  BY <1>2, <1>3, <1>4, <1>5, <1>6, <1>8 DEF Reading1

\* The end of a property, or of normData, in the source.
LEMMA SourceWaits ==
  ASSUME NEW src \in Document, NEW tar, NEW sets, NEW c, NEW h, NEW none \in BOOLEAN,
         Reading1(src, tar, sets, c, h, none), h.parsingState \in {"startNormData", "endPropertyValueSet"},
         NEW e, NEW d \in Place, Finishes(src, c, e, d)
  PROVE  Waiting1(src, tar, sets, d, h, none)
<1>. DEFINE s == h.parsingState
            x == e.element
<1>1. /\ Proper(src, c) /\ Sound(src, h) /\ s \in StatesAt(c) /\ c \in Place /\ Moves(src, c, e, d)
  BY DEF Reading1, Proper, Moves
<1>2. Proper(src, d)
  BY <1>1, MovesStayProper
<1>3. /\ x \in DOMAIN BeforeEnd /\ c.at \in BeforeEnd[x] /\ d.at = After[x] /\ d.object = c.object
      /\ e.event = "end" /\ d.at \notin {"normData", "normText"}
  BY DEF Finishes, To, BeforeEnd, After
<1>4. s \notin Dead
  BY DEF Dead
<1>5. AfterState(s) \in StatesAt(d)
  <2>1. CASE s = "startNormData"
    <3>1. x = "normData" /\ c.at = "normText"
      BY <1>1, <1>3, <2>1, WindowStates DEF BeforeEnd
    <3>2. d.at = "afterNormData" /\ ~(c.object > 1)
      BY <1>1, <1>3, <2>1, <3>1 DEF After, StatesAt, Dead
    <3>3. c.object >= 1
      BY <1>1, <3>1 DEF Proper
    <3>. QED
      BY <1>3, <2>1, <3>2, <3>3, InFacts DEF StatesAt, AfterState
  <2>2. CASE s = "endPropertyValueSet"
    <3>1. c.at \in {"labelled", "valued"} /\ c.object = 1
      BY <1>1, <2>2, WindowStates
    <3>2. d.at \in {"valued", "afterProperty"}
      BY <1>3, <3>1 DEF BeforeEnd, After
    <3>. QED
      BY <1>3, <2>2, <3>1, <3>2, InFacts DEF StatesAt, AfterState
  <2>. QED
    BY <2>1, <2>2
<1>6. ASSUME NEW n, none, Common(sets, src, tar, n), InWindow(src, d, n) \/ Past(src, d, n)
      PROVE  h.propertyTagset.propName = n
  <2>1. /\ InWindow(src, c, n) => h.propertyTagset.propName = n
        /\ ~Past(src, c, n)
    BY <1>4, <1>6 DEF Reading1
  <2>2. InWindow(src, d, n) => InWindow(src, c, n)
    <3>1. ~Says(src, c, e, d)
      BY <1>3 DEF Says
    <3>. QED
      BY <1>1, <3>1, WindowComes
  <2>3. Past(src, d, n) => Past(src, c, n) \/ InWindow(src, c, n)
    BY <1>1, <1>6, PastComes DEF Common
  <2>. QED
    BY <1>6, <2>1, <2>2, <2>3
<1>7. s = "startNormData" => h.propertyTagset.propName = NormData
  BY DEF Reading1
<1>. QED
  BY <1>1, <1>2, <1>3, <1>5, <1>6, <1>7 DEF Waiting1

\* The source goes on: it is dead, or there are results, or the property that
\* it waited for was not asked for or is missing in the target.
LEMMA SourceResumes ==
  ASSUME NEW src \in Document, NEW tar, NEW sets, NEW c, NEW h, NEW none \in BOOLEAN,
         Waiting1(src, tar, sets, c, h, none), NEW dead \in BOOLEAN,
         none /\ ~dead => ~Common(sets, src, tar, h.propertyTagset.propName),
         NEW g,
         g = IF dead THEN In(h, "erroneous")
             ELSE IF HasReadNormData(h) THEN [In(h, "endNormData") EXCEPT !.propertyTagset = NULL, !.normData = NULL]
             ELSE [In(h, "endProperty") EXCEPT !.propertyTagset = NULL]
  PROVE  Reading1(src, tar, sets, c, g, none)
<1>. DEFINE s == h.parsingState
            t == g.parsingState
<1>1. /\ Proper(src, c) /\ Sound(src, h) /\ s \in {"startNormData", "endPropertyValueSet"}
      /\ AfterState(s) \in StatesAt(c) /\ c.at \notin {"normData", "normText"}
  BY DEF Waiting1
<1>2. DOMAIN h = {"parsingState", "propertyTagset", "normData"}
  BY <1>1 DEF Sound
<1>3. CASE dead
  <2>1. g = In(h, "erroneous")
    BY <1>3
  <2>2. "erroneous" \notin OpenStates /\ "erroneous" \notin LabStates /\ "erroneous" \in Dead
        /\ "erroneous" \notin {Skip, "endProperty"}
    BY DEF OpenStates, LabStates, Dead, Skip
  <2>3. Sound(src, g) /\ t = "erroneous"
    <3>1. "erroneous" # "startData"
      OBVIOUS
    <3>2. Sound(src, In(h, "erroneous")) /\ In(h, "erroneous").parsingState = "erroneous"
      BY <1>1, <2>2, <3>1, InKeepsSound
    <3>. QED
      BY <2>1, <3>2
  <2>4. t \in StatesAt(c)
    BY <2>2, <2>3 DEF StatesAt
  <2>. QED
    BY <1>1, <2>2, <2>3, <2>4 DEF Reading1
<1>4. CASE ~dead
  <2>1. DOMAIN g = {"parsingState", "propertyTagset", "normData"} /\ t = AfterState(s) /\ g.propertyTagset = NULL
    <3>1. CASE s = "startNormData"
      <4>1. g = [In(h, "endNormData") EXCEPT !.propertyTagset = NULL, !.normData = NULL]
        BY <1>4, <3>1 DEF HasReadNormData
      <4>. QED
        BY <1>2, <3>1, <4>1 DEF In, AfterState
    <3>2. CASE s = "endPropertyValueSet"
      <4>1. g = [In(h, "endProperty") EXCEPT !.propertyTagset = NULL]
        BY <1>4, <3>2 DEF HasReadNormData
      <4>. QED
        BY <1>2, <3>2, <4>1 DEF In, AfterState
    <3>. QED
      BY <1>1, <3>1, <3>2
  <2>2. t \in {"endNormData", "endProperty"} /\ t \notin OpenStates /\ t \notin LabStates
    BY <2>1 DEF AfterState, OpenStates, LabStates
  <2>3. Sound(src, g)
    BY <2>1, <2>2 DEF Sound
  <2>4. ASSUME NEW n, none, Common(sets, src, tar, n)
        PROVE  ~InWindow(src, c, n) /\ ~Past(src, c, n)
    <3>1. InWindow(src, c, n) \/ Past(src, c, n) => h.propertyTagset.propName = n
      BY <2>4 DEF Waiting1
    <3>. QED
      BY <1>4, <2>4, <3>1
  <2>. QED
    BY <1>1, <2>1, <2>2, <2>3, <2>4 DEF Reading1
<1>. QED
  BY <1>3, <1>4

-----------------------------------------------------------------------------
(***************************************************************************)
(* The target, at place c, with handler h, for property "name".            *)
(***************************************************************************)
Reading2(tar, c, h, name, none) ==
  LET s == h.parsingState IN
  /\ Proper(tar, c) /\ Sound(tar, h) /\ s \in StatesAt(c)
  /\ c.at \in {"normData", "normText"} => s # Skip
  /\ s \in LabStates \cup {"endPropertyName"} \/ (s = "startPropertyName" /\ c.at = "nameText") => name # NormData
  /\ none => s # "skipAll"
  /\ none /\ Has(tar, name) =>
       /\ InWindow(tar, c, name) => s \notin {Skip, "endProperty"} /\ (name = NormData => s \in Dead)
       /\ Past(tar, c, name) => s \in Dead

\* The start of an element in the target.
LEMMA TargetBegins ==
  ASSUME NEW tar \in Document, NEW c, NEW h, NEW name, NEW none \in BOOLEAN, Reading2(tar, c, h, name, none),
         NEW e, NEW d \in Place, Begins(tar, c, e, d), NEW g, g = StartElementXCDL2(h, e)
  PROVE  \/ g.parsingState = "exit" /\ Len(tar) > 1
         \/ g.parsingState # "exit" /\ Reading2(tar, d, g, name, none)
<1>. DEFINE s == h.parsingState
            t == g.parsingState
            x == e.element
<1>1. /\ Proper(tar, c) /\ Sound(tar, h) /\ s \in StatesAt(c) /\ c \in Place /\ Moves(tar, c, e, d)
  BY DEF Reading2, Proper, Moves
<1>2. Proper(tar, d) /\ s \in Reached
  BY <1>1, MovesStayProper, StatesReached
<1>3. /\ x \in DOMAIN BeforeStart /\ c.at \in BeforeStart[x] /\ d.at = x /\ e.event = "start"
      /\ c.at \notin {"normText", "normData", "name", "nameText"} /\ x # "nameText"
      /\ x \in {"normData", "normText"} => c.at \in {"object", "afterData", "afterNormData"}
  <2>1. x \in DOMAIN BeforeStart /\ c.at \in BeforeStart[x] /\ d.at = x /\ e.event = "start"
    BY DEF Begins, Into, To
  <2>. QED
    BY <2>1 DEF BeforeStart
<1>4. /\ t = Opened(Starts2, s, x) /\ Sound(tar, g)
  BY <1>1, StartSound DEF StartElementXCDL2
<1>5. /\ t # s => /\ t \notin Dead => s \notin Dead
                  /\ t \notin {Skip, "endProperty", "endPropertyValueSet", "endPropertyName"}
                  /\ t \in LabStates => s \in LabStates \cup {"endPropertyName"}
      /\ s \in Dead => t = s
  <2>1. t # s => /\ t \notin Dead => s \notin Dead
                 /\ t \notin {Skip, "endProperty", "endPropertyValueSet"}
                 /\ t = "startPropertyValueSet" => s \in {"endPropertyName", "endPropertyValueSet"}
                 /\ t \in LabStates \ {"startPropertyValueSet"} => s \in LabStates \ {"endPropertyValueSet"}
    BY <1>2, <1>3, <1>4, OpenedFrom
  <2>2. t # s => t # "endPropertyName" /\ t # "skipAll"
    BY <1>2, <1>3, <1>4, OpenedNever
  <2>3. s \in Dead => t = s
    BY <1>4, DeadStays
  <2>. QED
    BY <2>1, <2>2, <2>3 DEF LabStates
<1>6. t # s => t # "skipAll"
  BY <1>2, <1>3, <1>4, OpenedNever
<1>7. CASE t = "exit"
  <2>1. "exit" \notin StatesAt(d)
    BY <1>2, WindowStates
  <2>. QED
    BY <1>1, <1>4, <1>7, <2>1, OpenedState
<1>8. CASE t # "exit"
  <2>1. t \in StatesAt(d)
    BY <1>1, <1>4, <1>8, OpenedState
  <2>2. d.at \in {"normData", "normText"} => t # Skip
    <3>. SUFFICES ASSUME d.at \in {"normData", "normText"} PROVE t # Skip
      OBVIOUS
    <3>1. c.at \notin InName \cup {"normData", "normText"}
      BY <1>3 DEF InName
    <3>2. s # Skip
      BY <1>1, <3>1, WindowStates
    <3>. QED
      BY <1>5, <3>2
  <2>3. t \in LabStates \cup {"endPropertyName"} \/ (t = "startPropertyName" /\ d.at = "nameText") => name # NormData
    <3>1. s \in LabStates \cup {"endPropertyName"} => name # NormData
      BY DEF Reading2
    <3>2. t \in LabStates \cup {"endPropertyName"} => s \in LabStates \cup {"endPropertyName"}
      BY <1>5
    <3>. QED
      BY <1>3, <3>1, <3>2
  <2>4. none => t # "skipAll"
    BY <1>6 DEF Reading2
  <2>5. ASSUME none, Has(tar, name)
        PROVE  /\ InWindow(tar, d, name) => t \notin {Skip, "endProperty"} /\ (name = NormData => t \in Dead)
               /\ Past(tar, d, name) => t \in Dead
    <3>1. /\ InWindow(tar, c, name) => s \notin {Skip, "endProperty"} /\ (name = NormData => s \in Dead)
          /\ Past(tar, c, name) => s \in Dead
      BY <2>5 DEF Reading2
    <3>2. InWindow(tar, d, name) => InWindow(tar, c, name)
      <4>1. ~Says(tar, c, e, d)
        BY <1>3 DEF Says
      <4>. QED
        BY <1>1, <4>1, WindowComes
    <3>3. Past(tar, d, name) => Past(tar, c, name)
      <4>1. ~Finishes(tar, c, e, d)
        BY <1>3 DEF Finishes
      <4>. QED
        BY <1>1, <2>5, <4>1, PastComes
    <3>. QED
      BY <1>5, <3>1, <3>2, <3>3
  <2>. QED
    BY <1>2, <1>4, <1>8, <2>1, <2>2, <2>3, <2>4, <2>5 DEF Reading2
<1>. QED
  BY <1>7, <1>8

\* A text of the target, if it is not the normData that was asked for.
LEMMA TargetSays ==
  ASSUME NEW tar \in Document, NEW c, NEW h, NEW name, NEW none \in BOOLEAN, Reading2(tar, c, h, name, none),
         ~(h.parsingState = "startNormData" /\ name = NormData),
         NEW e, NEW d \in Place, Says(tar, c, e, d),
         NEW tagset, tagset.propName = name, NEW g, g = CharactersXCDL2(h, e.text, tagset)
  PROVE  Reading2(tar, d, g, name, none)
<1>. DEFINE s == h.parsingState
            t == g.parsingState
<1>1. /\ Proper(tar, c) /\ Sound(tar, h) /\ s \in StatesAt(c) /\ c \in Place /\ Moves(tar, c, e, d)
  BY DEF Reading2, Proper, Moves
<1>2. Proper(tar, d)
  BY <1>1, MovesStayProper
<1>3. /\ c.at \in DOMAIN AfterText /\ d.at = AfterText[c.at] /\ e.event = "characters" /\ d.object = c.object
      /\ c.at = "type" /\ e.text = "ISO8601" => HasDate(tar)
      /\ c.at \in {"normData", "normText", "name", "val", "type"}
      /\ d.at \in {"normData", "normText"} => c.at \in {"normData", "normText"}
      /\ c.at = "name" => e.text # NormData
  BY DEF Says, To, AfterText
<1>4. /\ s \in StatesAt(d)
      /\ s = "startPropertyName" => Skip \in StatesAt(d) /\ c.at = "name"
      /\ s = "startPropertyValueSetLabValType" => c.at = "type"
  BY <1>1, <1>3, SaidState DEF AfterText
<1>6. /\ Sound(tar, g)
      /\ t = s \/ (t = Skip /\ s = "startPropertyName" /\ e.text # name)
      /\ s = "startPropertyName" /\ e.text # name => t = Skip
  <2>2. CASE s = "startPropertyName"
    <3>. DEFINE wanted == e.text = name
    <3>1. g = NameCharacters(h, e.text, wanted) /\ wanted \in BOOLEAN
      BY <2>2 DEF CharactersXCDL2
    <3>2. wanted <=> e.text = name
      OBVIOUS
    <3>. HIDE DEF wanted
    <3>3. /\ Sound(tar, NameCharacters(h, e.text, wanted))
          /\ wanted => NameCharacters(h, e.text, wanted).parsingState = s
          /\ ~wanted => NameCharacters(h, e.text, wanted).parsingState = Skip
      BY <1>1, <2>2, <3>1, NameSound
    <3>. QED
      BY <2>2, <3>1, <3>2, <3>3
  <2>3. CASE s # "startPropertyName"
    <3>1. g = ValueCharacters(h, e.text)
      BY <2>3 DEF CharactersXCDL2
    <3>. QED
      BY <1>1, <1>3, <1>4, <2>3, <3>1, ValueSound
  <2>. QED
    BY <2>2, <2>3
<1>. HIDE DEF t
<1>7. t \in StatesAt(d)
  BY <1>4, <1>6
<1>8. d.at \in {"normData", "normText"} => t # Skip
  <2>1. d.at \in {"normData", "normText"} => t = s
    BY <1>3, <1>4, <1>6
  <2>. QED
    BY <1>3, <2>1 DEF Reading2
<1>9. t \in LabStates \cup {"endPropertyName"} \/ (t = "startPropertyName" /\ d.at = "nameText") => name # NormData
  <2>1. Skip \notin LabStates \cup {"endPropertyName", "startPropertyName"}
    BY DEF Skip, LabStates
  <2>2. t = "startPropertyName" => name # NormData
    BY <1>3, <1>4, <1>6, <2>1
  <2>3. s \in LabStates \cup {"endPropertyName"} => name # NormData
    BY DEF Reading2
  <2>. QED
    BY <1>6, <2>1, <2>2, <2>3
<1>10. none => t # "skipAll"
  BY <1>6 DEF Reading2, Skip
<1>11. ASSUME none, Has(tar, name)
       PROVE  /\ InWindow(tar, d, name) => t \notin {Skip, "endProperty"} /\ (name = NormData => t \in Dead)
              /\ Past(tar, d, name) => t \in Dead
  <2>1. /\ InWindow(tar, c, name) => s \notin {Skip, "endProperty"} /\ (name = NormData => s \in Dead)
        /\ Past(tar, c, name) => s \in Dead
    BY <1>11 DEF Reading2
  <2>2. "startPropertyName" \notin Dead
    BY DEF Dead
  <2>3. Past(tar, d, name) => t \in Dead
    <3>1. ~Finishes(tar, c, e, d)
      BY <1>3 DEF Finishes
    <3>2. Past(tar, d, name) => Past(tar, c, name)
      BY <1>1, <1>11, <3>1, PastComes
    <3>. QED
      BY <1>6, <2>1, <2>2, <3>2
  <2>4. ASSUME InWindow(tar, d, name)
        PROVE  t \notin {Skip, "endProperty"} /\ (name = NormData => t \in Dead)
    <3>1. CASE InWindow(tar, c, name)
      <4>1. s # "startPropertyName"
        <5>1. c.at # "name"
          BY <3>1 DEF InWindow, InName
        <5>. QED
          BY <1>4, <5>1
      <4>. QED
        BY <1>6, <2>1, <3>1, <4>1
    <3>2. CASE name = NormData /\ c.at = "normData"
      <4>1. d.object = 1 /\ c.object = 1
        BY <1>3, <2>4 DEF InWindow
      <4>2. s \in Dead
        <5>1. s \in {"startNormData", Skip} \cup Dead
          BY <1>1, <3>2, <4>1, InFacts DEF StatesAt
        <5>2. s # Skip
          BY <3>2 DEF Reading2
        <5>. QED
          BY <3>2, <5>1, <5>2
      <4>. QED
        BY <1>6, <2>2, <4>2 DEF Dead, Skip
    <3>3. CASE name # NormData /\ c.at = "name" /\ e.text = name
      <4>1. d.object = 1 /\ c.object = 1
        BY <1>3, <2>4 DEF InWindow
      <4>2. s \in {"startPropertyName"} \cup Dead
        BY <1>1, <3>3, <4>1, WindowStates
      <4>. QED
        BY <1>6, <3>3, <4>2 DEF Skip, Dead
    <3>. QED
      BY <1>1, <2>4, <3>1, <3>2, <3>3, WindowComes
  <2>. QED
    BY <2>3, <2>4
<1>. QED
  BY <1>2, <1>6, <1>7, <1>8, <1>9, <1>10, <1>11 DEF Reading2, t

\* The target dies: of an error, or because there is a result.
LEMMA TargetDies ==
  ASSUME NEW tar \in Document, NEW d, Proper(tar, d), NEW h, Sound(tar, h), NEW name, NEW none \in BOOLEAN,
         NEW s \in {"erroneous", "skipAll"}, none => s # "skipAll"
  PROVE  Reading2(tar, d, In(h, s), name, none)
<1>1. /\ s \notin OpenStates /\ s \notin LabStates /\ s # "startData" /\ s \in Dead
      /\ s \notin {Skip, "endProperty", "endPropertyName", "startPropertyName"}
  BY DEF OpenStates, LabStates, Dead, Skip
<1>2. Sound(tar, In(h, s)) /\ In(h, s).parsingState = s
  BY <1>1, InKeepsSound
<1>3. s \in StatesAt(d)
  BY <1>1 DEF StatesAt
<1>. QED
  BY <1>1, <1>2, <1>3 DEF Reading2

\* The text of the normData that is compared.
LEMMA TargetSaysNormData ==
  ASSUME NEW tar \in Document, NEW c, NEW h, NEW name, NEW none \in BOOLEAN, Reading2(tar, c, h, name, none),
         h.parsingState = "startNormData", name = NormData,
         NEW e, NEW d \in Place, Says(tar, c, e, d), NEW tagset, tagset.propName = name
  PROVE  Reading2(tar, d, In(CharactersXCDL2(h, e.text, tagset), "skipAll"), name, FALSE)
<1>. DEFINE g == CharactersXCDL2(h, e.text, tagset)
<1>1. Proper(tar, c) /\ Sound(tar, h) /\ Moves(tar, c, e, d)
  BY DEF Reading2, Moves
<1>2. Proper(tar, d)
  BY <1>1, MovesStayProper
<1>3. g = [h EXCEPT !.normData.normDataAsUint = e.text]
  BY DEF CharactersXCDL2
<1>4. Sound(tar, g)
  BY <1>1, <1>3, NormTextSound
<1>. HIDE DEF g
<1>5. Reading2(tar, d, In(g, "skipAll"), name, FALSE)
  BY <1>2, <1>4, TargetDies
<1>. QED
  BY <1>5 DEF g

\* The end of an element in the target, but for the property that is compared.
LEMMA TargetFinishes ==
  ASSUME NEW tar \in Document, NEW c, NEW h, NEW name, NEW none \in BOOLEAN, Reading2(tar, c, h, name, none),
         h.parsingState # "endPropertyValueSet",
         NEW e, NEW d \in Place, Finishes(tar, c, e, d), NEW g, g = EndElementXCDL2(h, e)
  PROVE  Reading2(tar, d, g, name, none)
<1>. DEFINE s == h.parsingState
            t == g.parsingState
            x == e.element
<1>1. /\ Proper(tar, c) /\ Sound(tar, h) /\ s \in StatesAt(c) /\ c \in Place /\ Moves(tar, c, e, d)
  BY DEF Reading2, Proper, Moves
<1>2. Proper(tar, d) /\ s \in Reached
  BY <1>1, MovesStayProper, StatesReached
<1>3. /\ e.event = "end" /\ d.object = c.object /\ d.at = After[x]
      /\ x \in DOMAIN BeforeEnd /\ c.at \in BeforeEnd[x]
      /\ d.at \notin {"normData", "normText", "nameText"} /\ c.at \notin {"normData", "name"}
  BY DEF Finishes, To, BeforeEnd, After
<1>4. /\ c.at \in {"normData", "normText"} => s # Skip
      /\ s \in LabStates \cup {"endPropertyName"} \/ (s = "startPropertyName" /\ c.at = "nameText") => name # NormData
      /\ none => s # "skipAll"
      /\ none /\ Has(tar, name) =>
           /\ InWindow(tar, c, name) => s \notin {Skip, "endProperty"} /\ (name = NormData => s \in Dead)
           /\ Past(tar, c, name) => s \in Dead
  BY DEF Reading2
<1>5. InWindow(tar, d, name) => InWindow(tar, c, name)
  <2>1. ~Says(tar, c, e, d)
    BY <1>3 DEF Says
  <2>. QED
    BY <1>1, <2>1, WindowComes
<1>6. Has(tar, name) /\ Past(tar, d, name) =>
        Past(tar, c, name) \/ (InWindow(tar, c, name) /\ x = IF name = NormData THEN "normData" ELSE "property")
  BY <1>1, PastComes
<1>7. CASE s = "startNormData"
  <2>1. g = In(h, "endNormData")
    BY <1>7 DEF EndElementXCDL2
  <2>2. /\ "endNormData" \notin OpenStates /\ "endNormData" \notin LabStates \cup {"endPropertyName", "startPropertyName"}
        /\ "endNormData" \notin Dead \cup {Skip, "startData", "skipAll", "endProperty", "endPropertyValueSet"}
        /\ s \notin Dead \cup {"endPropertyValueSet"}
    BY <1>7 DEF OpenStates, LabStates, Dead, Skip
  <2>3. Sound(tar, In(h, "endNormData")) /\ In(h, "endNormData").parsingState = "endNormData"
    BY <1>1, <2>2, InKeepsSound
  <2>4. Sound(tar, g) /\ t = "endNormData"
    BY <2>1, <2>3
  <2>5. c.at = "normText" /\ x = "normData"
    <3>1. c.at \in {"normData", "normText"}
      BY <1>1, <1>7, WindowStates
    <3>. QED
      BY <1>3, <3>1 DEF BeforeEnd
  <2>6. t \in StatesAt(d)
    <3>1. d.at = "afterNormData" /\ ~(c.object > 1)
      BY <1>1, <1>3, <1>7, <2>5 DEF After, StatesAt, Dead
    <3>2. c.object >= 1
      BY <1>1, <2>5 DEF Proper
    <3>. QED
      BY <1>3, <2>4, <3>1, <3>2, InFacts DEF StatesAt
  <2>7. ~Has(tar, name) \/ ~none \/ ~Past(tar, d, name)
    BY <1>4, <1>6, <2>2, <2>5
  <2>8. name = NormData => ~none \/ ~Has(tar, name) \/ ~InWindow(tar, d, name)
    BY <1>4, <1>5, <2>2
  <2>. HIDE DEF t
  <2>. QED
    BY <1>2, <1>3, <2>2, <2>4, <2>6, <2>7, <2>8 DEF Reading2, t
<1>8. CASE s # "startNormData"
  <2>1. t = Closed(Skipping2, s, x) /\ Sound(tar, g)
    BY <1>1, <1>2, <1>8, EndSound DEF EndElementXCDL2
  <2>2. t \in StatesAt(d)
    <3>1. s \in StatesAt(c) \ {"endPropertyValueSet", "startNormData"}
      BY <1>1, <1>8
    <3>2. c.at = "normText" => s # Skip
      BY <1>4
    <3>. QED
      BY <1>1, <2>1, <3>1, <3>2, ClosedState
  <2>3. t # s => /\ t \in {Skip, "endProperty"} => s = Skip
                 /\ t \notin Dead /\ s \notin Dead
                 /\ t \in LabStates => s \in LabStates
                 /\ t = "endPropertyName" => s = "startPropertyName"
                 /\ t # "startPropertyName"
    BY <1>2, <2>1, ClosedInto
  <2>4. s \in Dead => t = s
    BY <2>3
  <2>. HIDE DEF t
  <2>5. t \in LabStates \cup {"endPropertyName"} \/ (t = "startPropertyName" /\ d.at = "nameText") => name # NormData
    <3>1. s = "startPropertyName" => c.at = "nameText"
      BY <1>1, <1>3, WindowStates
    <3>. QED
      BY <1>3, <1>4, <2>3, <3>1
  <2>6. none => t # "skipAll"
    <3>1. "skipAll" \in Dead
      BY DEF Dead
    <3>. QED
      BY <1>4, <2>3, <3>1
  <2>7. ASSUME none, Has(tar, name)
        PROVE  /\ InWindow(tar, d, name) => t \notin {Skip, "endProperty"} /\ (name = NormData => t \in Dead)
               /\ Past(tar, d, name) => t \in Dead
    <3>1. InWindow(tar, d, name) => t \notin {Skip, "endProperty"} /\ (name = NormData => t \in Dead)
      BY <1>4, <1>5, <2>3, <2>4, <2>7
    <3>2. ASSUME Past(tar, d, name) PROVE t \in Dead
      <4>1. CASE Past(tar, c, name)
        BY <1>4, <2>4, <2>7, <4>1
      <4>2. CASE InWindow(tar, c, name) /\ name = NormData
        BY <1>4, <2>4, <2>7, <4>2
      <4>3. CASE InWindow(tar, c, name) /\ name # NormData /\ x = "property"
        <5>1. c.at = "valued" /\ c.object = 1
          BY <1>3, <4>3 DEF BeforeEnd, InWindow
        <5>2. s \in {"endPropertyValueSet", "endProperty", Skip} \cup Dead
          BY <1>1, <5>1, InFacts DEF StatesAt
        <5>. QED
          BY <1>4, <2>4, <2>7, <4>3, <5>2
      <4>. QED
        BY <1>6, <2>7, <3>2, <4>1, <4>2, <4>3
    <3>. QED
      BY <3>1, <3>2
  <2>. QED
    BY <1>2, <1>3, <2>1, <2>2, <2>5, <2>6, <2>7 DEF Reading2, t
<1>. QED
  BY <1>7, <1>8

\* The property that is compared: it is not the normData, and its value set
\* is of the target.
LEMMA TargetCompared ==
  ASSUME NEW tar \in Document, NEW c, NEW h, NEW name, NEW none \in BOOLEAN, Reading2(tar, c, h, name, none),
         h.parsingState = "endPropertyValueSet",
         NEW e, NEW d \in Place, Finishes(tar, c, e, d)
  PROVE  /\ name # NormData /\ SoundValueSet(tar, h.propertyTagset.valueSet)
         /\ \A s \in {"erroneous", "skipAll"} : Reading2(tar, d, In(h, s), name, FALSE)
<1>1. Proper(tar, c) /\ Sound(tar, h) /\ Moves(tar, c, e, d)
  BY DEF Reading2, Moves
<1>2. Proper(tar, d)
  BY <1>1, MovesStayProper
<1>3. "endPropertyValueSet" \in LabStates
  BY DEF LabStates
<1>4. name # NormData /\ SoundValueSet(tar, h.propertyTagset.valueSet)
  BY <1>1, <1>3 DEF Reading2, Sound
<1>5. ASSUME NEW s \in {"erroneous", "skipAll"}
      PROVE  Reading2(tar, d, In(h, s), name, FALSE)
  BY <1>1, <1>2, TargetDies
<1>. QED
  BY <1>4, <1>5

\* What there is is past behind a document.
LEMMA PastAtEnd ==
  ASSUME NEW doc \in Document, NEW c, Proper(doc, c), c.at = "end", NEW n, Has(doc, n)
  PROVE  Past(doc, c, n)
<1>1. /\ c.object \in Nat /\ c.normData \in Nat /\ c.property \in Nat /\ c.object >= 1
      /\ c.normData = Len(doc[c.object].normData) /\ c.property = Len(doc[c.object].properties)
  BY DEF Proper, Place
<1>2. CASE c.object > 1
  BY <1>2 DEF Past
<1>3. CASE c.object = 1 /\ n = NormData
  <2>1. c.normData >= 1
    BY <1>1, <1>3, HasFacts
  <2>2. \A m \in Nat : m >= 1 => m > 1 \/ m = 1
    OBVIOUS
  <2>3. c.normData \in Nat
    BY DEF Proper, Place
  <2>. QED
    BY <1>3, <2>1, <2>2, <2>3 DEF Past
<1>4. CASE c.object = 1 /\ n # NormData
  <2>1. PICK k : IsFirst(doc, k, n)
    BY <1>4, HasFacts
  <2>2. k \in 1 .. c.property
    BY <1>1, <1>4, <2>1 DEF IsFirst
  <2>3. c.property > k \/ c.property = k
    BY <1>1, <2>2
  <2>4. "end" \notin InName \cup {"property", "name"}
    BY DEF InName
  <2>. QED
    BY <1>4, <2>1, <2>3, <2>4 DEF Past
<1>. QED
  BY <1>1, <1>2, <1>3, <1>4

\* A handler with several ids has read a property with several value sets.
LEMMA TwiceIsManifold ==
  ASSUME NEW doc, NEW h, Sound(doc, h)
  PROVE  h # NoHandler /\ (DeletesTwice(h) => Manifold(doc))
<1>1. h # NoHandler
  <2>1. DOMAIN h = {"parsingState", "propertyTagset", "normData"} /\ DOMAIN NoHandler = {"none"}
    BY DEF Sound, NoHandler
  <2>. QED
    BY <2>1
<1>2. ASSUME DeletesTwice(h), ~Manifold(doc) PROVE FALSE
  <2>1. h.propertyTagset # NULL /\ Cardinality(h.propertyTagset.ids) > 1
    BY <1>2 DEF DeletesTwice
  <2>2. PICK x : h.propertyTagset.ids \subseteq {x}
    BY <1>2, <2>1 DEF Sound, SoundTagset
  <2>3. IsFiniteSet({x}) /\ Cardinality({x}) = 1
    BY FS_Singleton
  <2>4. Cardinality(h.propertyTagset.ids) <= 1 /\ Cardinality(h.propertyTagset.ids) \in Nat
    BY <2>2, <2>3, FS_Subset, FS_CardinalityType
  <2>. QED
    BY <2>1, <2>4
<1>. QED
  BY <1>1, <1>2

-----------------------------------------------------------------------------
\* What comparing two properties may give.  Only dates end the program.
LEMMA ComparedFacts ==
  ASSUME NEW set, NEW v1, NEW v2, NEW r \in CompareProperties(set, v1, v2)
  PROVE  /\ r # NoResult
         /\ r = Exits => v1.labValType = "ISO8601" /\ v2.labValType = "ISO8601"
<1>. DEFINE type == TypeOf(v1.labValType)
<1>1. Fails # NoResult /\ Exits # NoResult /\ Fails # Exits
  <2>1. Fails.none = "fails" /\ Exits.none = "exits" /\ NoResult.none = "result"
    BY DEF Fails, Exits, NoResult
  <2>. QED
    BY <2>1
<1>2. ASSUME NEW s, NEW t, NEW x, NEW y, NEW f
      PROVE  ResultSetOf(s, t, x, y, f) # NoResult /\ ResultSetOf(s, t, x, y, f) # Exits
  <2>1. "propId" \in DOMAIN ResultSetOf(s, t, x, y, f)
    BY DEF ResultSetOf
  <2>2. "propId" \notin DOMAIN NoResult /\ "propId" \notin DOMAIN Exits
    BY DEF NoResult, Exits
  <2>. QED
    BY <2>1, <2>2
<1>3. CASE ~Comparable(v1, v2)
  <2>1. r = Fails
    BY <1>3 DEF CompareProperties
  <2>. QED
    BY <1>1, <2>1
<1>4. CASE Comparable(v1, v2) /\ type = "ISO8601"
  <2>1. r = Exits
    BY <1>4 DEF CompareProperties
  <2>2. Known(v1.labValType) /\ Known(v2.labValType) /\ TypeOf(v2.labValType) = "ISO8601"
    BY <1>4 DEF Comparable
  <2>3. ASSUME NEW t, Known(t), TypeOf(t) = "ISO8601"
        PROVE  t = "ISO8601"
    <3>1. \E u \in DOMAIN Types : t \in Types[u]
      BY <2>3 DEF Known
    <3>2. t \in Types[TypeOf(t)]
      BY <3>1 DEF TypeOf
    <3>3. Types["ISO8601"] = {"ISO8601"}
      BY DEF Types
    <3>. QED
      BY <2>3, <3>2, <3>3
  <2>. QED
    BY <1>1, <1>4, <2>1, <2>2, <2>3
<1>5. CASE Comparable(v1, v2) /\ type # "ISO8601"
  <2>. DEFINE choices == ResultChoices([m \in DOMAIN set.metrics |-> MetricResults(type, m, set.metrics[m], v1.labValVal, v2.labValVal)])
  <2>1. CompareProperties(set, v1, v2) =
          {IF \E m \in DOMAIN f : f[m] = Throws THEN Fails ELSE ResultSetOf(set, type, v1.labValVal, v2.labValVal, f) : f \in choices}
    BY <1>5 DEF CompareProperties
  <2>. HIDE DEF choices, type
  <2>2. PICK f \in choices :
          r = IF \E m \in DOMAIN f : f[m] = Throws THEN Fails ELSE ResultSetOf(set, type, v1.labValVal, v2.labValVal, f)
    BY <2>1
  <2>. QED
    BY <1>1, <1>2, <2>2
<1>. QED
  BY <1>3, <1>4, <1>5

\* What comparing two normData gives is a result set.
LEMMA NormDataCompared ==
  ASSUME NEW set, NEW nd1, NEW nd2, NEW r \in CompareNormData(set, nd1, nd2)
  PROVE  r # NoResult
<1>1. PICK s, t, x, y, f : r = ResultSetOf(s, t, x, y, f)
  BY DEF CompareNormData
<1>2. "propId" \in DOMAIN r
  BY <1>1 DEF ResultSetOf
<1>3. "propId" \notin DOMAIN NoResult
  BY DEF NoResult
<1>. QED
  BY <1>2, <1>3

-----------------------------------------------------------------------------
\* A map of results is not the map that is missing.
OnlyResults(box) == \A n \in DOMAIN box : box[n] # NoResult
BoxInv == ResultBox = NoBox \/ OnlyResults(ResultBox)

\* A map to results stays one when a result is inserted.
LEMMA BoxFacts ==
  ASSUME BoxInv
  PROVE  /\ OnlyResults(Box) /\ \A r : r # NoResult => OnlyResults(Inserted(r))
         /\ \A box : OnlyResults(box) => box # NoBox
<1>1. OnlyResults(Box)
  <2>1. CASE ResultBox = NoBox
    <3>1. Box = <<>>
      BY <2>1 DEF Box
    <3>2. DOMAIN <<>> = {}
      OBVIOUS
    <3>. QED
      BY <3>1, <3>2 DEF OnlyResults
  <2>2. CASE ResultBox # NoBox
    BY <2>2 DEF Box, BoxInv
  <2>. QED
    BY <2>1, <2>2
<1>2. ASSUME NEW r, r # NoResult
      PROVE  OnlyResults(Inserted(r))
  <2>. DEFINE map == Box
              key == name1
  <2>1. Inserted(r) = WithEntry(map, key, r)
    BY DEF Inserted
  <2>2. OnlyResults(map)
    BY <1>1
  <2>. HIDE DEF map, key
  <2>. DEFINE more == WithEntry(map, key, r)
  <2>3. ASSUME NEW n \in DOMAIN more
        PROVE  more[n] # NoResult
    <3>1. n \in DOMAIN map \/ (n = key /\ n \notin DOMAIN map)
      BY DEF WithEntry
    <3>2. n \in DOMAIN map => more[n] = map[n]
      BY DEF WithEntry
    <3>3. n = key /\ n \notin DOMAIN map => more[n] = r
      BY EntryFacts
    <3>. HIDE DEF more
    <3>. QED
      BY <1>2, <2>2, <3>1, <3>2, <3>3 DEF OnlyResults
  <2>. QED
    BY <2>1, <2>3 DEF OnlyResults
<1>3. ASSUME NEW box, OnlyResults(box)
      PROVE  box # NoBox
  <2>1. "none" \in DOMAIN NoBox /\ NoBox["none"] = NoResult
    BY DEF NoBox
  <2>. QED
    BY <1>3, <2>1 DEF OnlyResults
<1>. QED
  BY <1>1, <1>2, <1>3

-----------------------------------------------------------------------------
(***************************************************************************)
(* What is read are documents: the program has tested every file by then.  *)
(***************************************************************************)
Through == {"request", "pairs", "source", "closing", "exited", "crashed"}
Given == {pInputParams.sourceXCDL} \cup ToSet(pInputParams.targetXCDLs)

ReadInv ==
  /\ world \in Worlds
  /\ stage \in {"files", "validation"} \cup Through =>
       /\ WellFormed(world.argv)
       /\ pInputParams.sourceXCDL = parseArgs(world.argv).sourceXCDL
       /\ pInputParams.targetXCDLs = parseArgs(world.argv).targetXCDLs
  /\ stage \in {"validation"} \cup Through => \A name \in Given : File(name).state # "missing"
  /\ stage \in Through => \A name \in Given : File(name).state # "invalid"
  /\ stage = "source" => pInputParams.compsetCount \in 1 .. Len(pInputParams.targetXCDLs)

\* The targets are a list of texts.
LEMMA TargetsAreListed ==
  ASSUME NEW w \in Worlds, WellFormed(w.argv)
  PROVE  parseArgs(w.argv).targetXCDLs \in Seq(STRING)
<1>. DEFINE argv == w.argv
            k == FirstOption(argv)
            at == {i \in DOMAIN argv : argv[i] \in Options} \cup {Len(argv) + 1}
<1>1. argv \in Seq(STRING)
  BY DocumentsAssumption
<1>2. k >= 3
  BY DEF WellFormed
<1>3. k \in at
  <2>. HIDE DEF argv
  <2>1. at \in SUBSET Nat /\ at # {}
    BY <1>1
  <2>. HIDE DEF at
  <2>2. \E x \in at : \A y \in at : x <= y
    BY <2>1, Smallest
  <2>3. k = CHOOSE x \in at : \A y \in at : x <= y
    BY DEF FirstOption, Min, at
  <2>. HIDE DEF k
  <2>. QED
    BY <2>2, <2>3
<1>4. k \in Nat /\ k <= Len(argv) + 1
  <2>. HIDE DEF argv, k
  <2>. QED
    BY <1>1, <1>3
<1>5. parseArgs(argv).targetXCDLs = SubSeq(argv, 2, k - 1)
  BY DEF parseArgs, NewInputParams
<1>. HIDE DEF argv, k
<1>6. \A i \in 2 .. k - 1 : argv[i] \in STRING
  BY <1>1, <1>4
<1>7. SubSeq(argv, 2, k - 1) \in Seq(STRING)
  BY <1>4, <1>6, SubSeqProperties
<1>. QED
  BY <1>5, <1>7 DEF argv

\* Once the files are tested they are documents.
LEMMA GivenAreDocuments ==
  ASSUME ReadInv, stage \in Through, NEW name \in Given
  PROVE  Content(name) \in Document
<1>. DEFINE p == parseArgs(world.argv)
<1>1. /\ WellFormed(world.argv) /\ world \in Worlds
      /\ pInputParams.sourceXCDL = p.sourceXCDL /\ pInputParams.targetXCDLs = p.targetXCDLs
      /\ File(name).state \notin {"missing", "invalid"}
  BY DEF ReadInv
<1>2. name \in {p.sourceXCDL} \cup ToSet(p.targetXCDLs)
  BY <1>1 DEF Given
<1>3. world.files[name].state \notin {"missing", "invalid"}
  BY <1>1 DEF File
<1>. QED
  BY <1>1, <1>2, <1>3, DocumentsAssumption DEF Content, File

\* The source and the target that are read.
LEMMA DocumentsAreRead ==
  ASSUME ReportInv, ReadInv, stage = "source"
  PROVE  Source \in Document /\ Content(pInputParams.targetXCDL) \in Document
<1>. DEFINE targets == pInputParams.targetXCDLs
            n == pInputParams.compsetCount
<1>1. stage \in Through /\ n \in 1 .. Len(targets)
  BY DEF ReadInv, Through
<1>2. targets \in Seq(STRING)
  BY <1>1, TargetsAreListed DEF ReadInv
<1>3. pInputParams.targetXCDL = targets[n]
  BY <1>1, <1>2 DEF ReportInv, IsParams
<1>4. pInputParams.targetXCDL \in Given /\ pInputParams.sourceXCDL \in Given
  BY <1>1, <1>2, <1>3 DEF Given, ToSet
<1>. QED
  BY <1>1, <1>4, GivenAreDocuments DEF Source

\* Every step keeps what is known of the files.
LEMMA NextRead ==
  ASSUME ReportInv, ReadInv, [Next]_vars
  PROVE  ReadInv'
<1>1. CASE ParseArguments
  <2>1. /\ world' = world /\ stage' \in {"files", "done"}
        /\ stage' = "files" => WellFormed(world.argv) /\ pInputParams' = parseArgs(world.argv)
    BY <1>1 DEF ParseArguments
  <2>. QED
    BY <2>1 DEF ReadInv, Through
<1>2. CASE TestIfFileIs \/ DoXMLValidation
  <2>1. PICK state \in {"missing", "invalid"}, next \in {"validation", "request"} :
          /\ Require(state, next)
          /\ state = "missing" => stage = "files" /\ next = "validation"
          /\ state = "invalid" => stage = "validation" /\ next = "request"
    BY <1>2 DEF TestIfFileIs, DoXMLValidation
  <2>2. world' = world
    BY <2>1 DEF Require
  <2>3. CASE stage' = "done"
    BY <2>2, <2>3 DEF ReadInv, Through
  <2>4. CASE stage' # "done"
    <3>1. /\ \A name \in InputFiles : File(name).state # state
          /\ stage' = next /\ pInputParams' = pInputParams
      BY <2>1, <2>4 DEF Require
    <3>2. Given' = Given /\ Given \subseteq InputFiles /\ \A name : File(name)' = File(name)
      BY <2>2, <3>1 DEF Given, InputFiles, File
    <3>. QED
      BY <2>1, <2>2, <3>1, <3>2 DEF ReadInv, Through
  <2>. QED
    BY <2>3, <2>4
<1>3. CASE BeginPair
  <2>. DEFINE n == pInputParams.compsetCount + 1
  <2>1. /\ stage = "pairs" /\ stage' = "source" /\ world' = world
        /\ pInputParams.compsetCount < Len(pInputParams.targetXCDLs)
        /\ pInputParams' = [pInputParams EXCEPT !.compsetCount = n, !.targetXCDL = pInputParams.targetXCDLs[n]]
    BY <1>3 DEF BeginPair
  <2>2. IsParams(pInputParams) /\ pInputParams.compsetCount \in Nat
    BY DEF ReportInv, IsParams
  <2>3. DOMAIN pInputParams = {"sourceXCDL", "targetXCDLs", "PCRFile", "outDir", "outFlag", "compsetCount", "targetXCDL"}
    BY <2>2 DEF IsParams, NewInputParams
  <2>4. Len(pInputParams.targetXCDLs) \in Nat
    <3>1. pInputParams.targetXCDLs \in Seq(STRING)
      BY <2>1, TargetsAreListed DEF ReadInv, Through
    <3>. QED
      BY <3>1
  <2>5. n \in 1 .. Len(pInputParams.targetXCDLs)
    BY <2>1, <2>2, <2>4
  <2>. HIDE DEF n
  <2>6. /\ pInputParams'.sourceXCDL = pInputParams.sourceXCDL /\ pInputParams'.targetXCDLs = pInputParams.targetXCDLs
        /\ pInputParams'.compsetCount = n
    BY <2>1, <2>3
  <2>7. Given' = Given /\ \A name : File(name)' = File(name)
    BY <2>1, <2>6 DEF Given, File
  <2>. QED
    BY <2>1, <2>5, <2>6, <2>7 DEF ReadInv, Through
<1>4. CASE \/ LoadRequest \/ FailToLoadRequest \/ EndPairs \/ CloseReport
           \/ SourceStartElement \/ SourceCharacters \/ SourceEndElement \/ EndSource \/ FailToParseSource
           \/ BeginTarget \/ TargetStartElement \/ TargetCharacters \/ TargetEndElement \/ CompareWithTarget
           \/ EndTarget \/ FailToParseTarget \/ UNCHANGED vars
  <2>1. /\ world' = world
        /\ stage' = stage \/ (stage \in Through /\ stage' \in (Through \ {"source"}) \cup {"done"})
        /\ pInputParams' = pInputParams \/ pInputParams' = Framed(pInputParams)
    BY <1>4 DEF LoadRequest, FailToLoadRequest, EndPairs, CloseReport,
                SourceStartElement, SourceCharacters, SourceEndElement, EndSource, FailToParseSource,
                BeginTarget, TargetStartElement, TargetCharacters, TargetEndElement, CompareWithTarget,
                EndTarget, FailToParseTarget, AfterTarget, AfterDeleting, ReadsSource, ReadsTarget,
                OutputForPlato, Through, vars
  <2>2. /\ pInputParams'.sourceXCDL = pInputParams.sourceXCDL /\ pInputParams'.targetXCDLs = pInputParams.targetXCDLs
        /\ pInputParams'.compsetCount = pInputParams.compsetCount
    BY <2>1, FramedFacts DEF ReportInv
  <2>3. Given' = Given /\ \A name : File(name)' = File(name)
    BY <2>1, <2>2 DEF Given, File
  <2>. QED
    BY <2>1, <2>2, <2>3 DEF ReadInv, Through
<1>. QED
  BY <1>1, <1>2, <1>3, <1>4 DEF Next

-----------------------------------------------------------------------------
(***************************************************************************)
(* The inductive invariant.  While a pair is compared, the events to come  *)
(* lead from where a handler is to the end of its document.  When the      *)
(* program ended early there was a reason.                                 *)
(***************************************************************************)
Reads(src, tar, sets, h1, events, h2, others, none) ==
  \E c \in Place :
    /\ Leads(src, c, events, AfterDocument(src))
    /\ h2 = NoHandler => Reading1(src, tar, sets, c, h1, none)
    /\ h2 # NoHandler =>
         /\ Waiting1(src, tar, sets, c, h1, none)
         /\ \E d \in Place : /\ Leads(tar, d, others, AfterDocument(tar))
                             /\ Reading2(tar, d, h2, h1.propertyTagset.propName, none)

Target == Content(pInputParams.targetXCDL)
None == ResultBox = NoBox

EarlyInv ==
  /\ stage = "source" => Reads(Source, Target, pMR, xcdl1, events1, xcdl2, events2, None)
  /\ stage \notin {"source", "exited", "crashed"} => xcdl2 = NoHandler
  /\ BoxInv /\ EndsEarlyForReason

-----------------------------------------------------------------------------
\* The next event leads to a next place.
LEMMA NextPlace ==
  ASSUME NEW doc, NEW c, NEW events, NEW end, Leads(doc, c, events, end), events # <<>>
  PROVE  \E d \in Place :
           /\ Leads(doc, d, Tail(events), end)
           /\ Head(events).event = "start" => Begins(doc, c, Head(events), d)
           /\ Head(events).event = "characters" => Says(doc, c, Head(events), d)
           /\ Head(events).event = "end" => Finishes(doc, c, Head(events), d)
<1>1. PICK d \in Place : Moves(doc, c, Head(events), d) /\ Leads(doc, d, Tail(events), end)
  BY LeadsOn
<1>2. /\ Head(events).event = "start" => Begins(doc, c, Head(events), d)
      /\ Head(events).event = "characters" => Says(doc, c, Head(events), d)
      /\ Head(events).event = "end" => Finishes(doc, c, Head(events), d)
  BY <1>1 DEF Moves, Begins, Says, Finishes
<1>. QED
  BY <1>1, <1>2

\* A handler that begins with a document.
LEMMA NewReading ==
  ASSUME NEW doc \in Document, NEW tar, NEW sets, NEW name, NEW none \in BOOLEAN
  PROVE  /\ Leads(doc, Outside, DocumentEvents(doc), AfterDocument(doc)) /\ Outside \in Place
         /\ Reading1(doc, tar, sets, Outside, NewHandler022, none)
         /\ Reading2(doc, Outside, NewHandler022, name, none)
<1>1. Leads(doc, Outside, DocumentEvents(doc), AfterDocument(doc))
  BY DocumentLeads
<1>2. Outside \in Place /\ Outside.at = "before" /\ Outside.object = 0
  BY DEF Outside, Place, At
<1>3. Proper(doc, Outside)
  BY <1>2 DEF Proper, Document
<1>4. Sound(doc, NewHandler022) /\ NewHandler022.parsingState = "parseXCDL"
  BY NewIsSound
<1>5. "parseXCDL" \in StatesAt(Outside)
  BY <1>2, InFacts DEF StatesAt
<1>6. \A n : ~InWindow(doc, Outside, n) /\ ~Past(doc, Outside, n)
  BY <1>2 DEF InWindow, Past
<1>7. "parseXCDL" \notin LabStates \cup {"endPropertyName", "startPropertyName", "skipAll", "startNormData"}
  BY DEF LabStates
<1>. HIDE DEF Outside
<1>8. Reading1(doc, tar, sets, Outside, NewHandler022, none)
  BY <1>2, <1>3, <1>4, <1>5, <1>6, <1>7 DEF Reading1
<1>9. Reading2(doc, Outside, NewHandler022, name, none)
  BY <1>2, <1>3, <1>4, <1>5, <1>6, <1>7 DEF Reading2
<1>. QED
  BY <1>1, <1>2, <1>8, <1>9

\* A program that has not ended early, and one that deletes what it has.
LEMMA NotEarly ==
  ASSUME stage' \notin {"exited", "crashed"}
  PROVE  EndsEarlyForReason'
BY DEF EndsEarlyForReason

\* Behind the source nothing that could be compared is without results.
LEMMA NothingWasMissed ==
  ASSUME NEW src \in Document, NEW tar, NEW sets, NEW c, c.at = "end", NEW h,
         Reading1(src, tar, sets, c, h, TRUE), h.parsingState = "endXCDL"
  PROVE  NothingInCommon(sets, src, tar) \/ tar[1].data
<1>. SUFFICES ASSUME ~tar[1].data, NEW j \in DOMAIN sets, Has(src, sets[j].name), Has(tar, sets[j].name)
     PROVE  FALSE
  BY DEF NothingInCommon
<1>. DEFINE n == sets[j].name
<1>1. Common(sets, src, tar, n)
  BY DEF Common, IsRequested
<1>2. Proper(src, c)
  BY DEF Reading1
<1>3. Past(src, c, n)
  BY <1>2, PastAtEnd
<1>4. h.parsingState \in Dead
  BY <1>1, <1>3 DEF Reading1
<1>. QED
  BY <1>4 DEF Dead

\* What is known while a pair is compared.
LEMMA WhileReading ==
  ASSUME ReportInv, ReadInv, EarlyInv, stage = "source"
  PROVE  /\ Source \in Document /\ Target \in Document /\ None \in BOOLEAN
         /\ Reads(Source, Target, pMR, xcdl1, events1, xcdl2, events2, None)
<1>1. Source \in Document /\ Target \in Document
  BY DocumentsAreRead DEF Target
<1>2. None \in BOOLEAN
  BY DEF None
<1>. QED
  BY <1>1, <1>2 DEF EarlyInv

\* The same pair is read on.
LEMMA SamePair ==
  ASSUME UNCHANGED <<world, pInputParams>>
  PROVE  Source' = Source /\ Target' = Target
BY DEF Source, Target, Content, File

\* An element starts in the source.
LEMMA SourceStartKeeps ==
  ASSUME ReportInv, ReadInv, EarlyInv, SourceStartElement
  PROVE  EarlyInv'
<1>. DEFINE e == Head(events1)
<1>1. /\ stage = "source" /\ xcdl2 = NoHandler /\ events1 # <<>> /\ e.event = "start"
      /\ events1' = Tail(events1) /\ xcdl1' = StartElementXCDL1(xcdl1, e, pMR)
      /\ stage' = IF xcdl1'.parsingState = "exit" THEN "exited" ELSE stage
      /\ UNCHANGED <<world, pInputParams, pMR, xcdl2, events2, ResultBox>>
  BY DEF SourceStartElement, ReadsSource
<1>2. /\ Source \in Document /\ Target \in Document /\ None \in BOOLEAN /\ None' = None
      /\ Source' = Source /\ Target' = Target /\ BoxInv'
      /\ Reads(Source, Target, pMR, xcdl1, events1, xcdl2, events2, None)
  BY <1>1, WhileReading, SamePair DEF None, EarlyInv, BoxInv
<1>3. PICK c \in Place : Leads(Source, c, events1, AfterDocument(Source)) /\ Reading1(Source, Target, pMR, c, xcdl1, None)
  BY <1>1, <1>2 DEF Reads
<1>4. PICK d \in Place : Leads(Source, d, events1', AfterDocument(Source)) /\ Begins(Source, c, e, d)
  BY <1>1, <1>3, NextPlace
<1>5. CASE xcdl1'.parsingState = "exit"
  <2>1. Len(Source) > 1
    BY <1>1, <1>2, <1>3, <1>4, <1>5, SourceBegins
  <2>2. stage' = "exited"
    BY <1>1, <1>5
  <2>3. EndsEarlyForReason'
    BY <1>2, <2>1, <2>2 DEF EndsEarlyForReason
  <2>. QED
    BY <1>2, <2>2, <2>3 DEF EarlyInv
<1>6. CASE xcdl1'.parsingState # "exit"
  <2>1. Reading1(Source, Target, pMR, d, xcdl1', None)
    BY <1>1, <1>2, <1>3, <1>4, <1>6, SourceBegins
  <2>2. Reads(Source, Target, pMR, xcdl1', events1', xcdl2, events2, None)
    BY <1>1, <1>4, <2>1 DEF Reads
  <2>3. Reads(Source, Target, pMR, xcdl1, events1, xcdl2, events2, None)'
    BY <1>1, <1>2, <2>2
  <2>4. stage' = "source"
    BY <1>1, <1>6
  <2>. QED
    BY <1>2, <2>3, <2>4, NotEarly DEF EarlyInv
<1>. QED
  BY <1>5, <1>6

\* A text, or an end that does not make the source wait.
LEMMA SourceReadsKeeps ==
  ASSUME ReportInv, ReadInv, EarlyInv, SourceCharacters \/ SourceEndElement
  PROVE  EarlyInv'
<1>. DEFINE e == Head(events1)
<1>1. /\ stage = "source" /\ stage' = stage /\ xcdl2 = NoHandler /\ events1 # <<>>
      /\ events1' = Tail(events1)
      /\ UNCHANGED <<world, pInputParams, pMR, xcdl2, events2, ResultBox>>
      /\ \/ e.event = "characters" /\ xcdl1' = CharactersXCDL1(xcdl1, e.text, pMR)
         \/ /\ e.event = "end" /\ xcdl1' = EndElementXCDL1(xcdl1, e)
            /\ xcdl1.parsingState \notin {"startNormData", "endPropertyValueSet"}
  BY DEF SourceCharacters, SourceEndElement, ReadsSource, HasRead, HasReadNormData
<1>2. /\ Source \in Document /\ Target \in Document /\ None \in BOOLEAN /\ None' = None
      /\ Source' = Source /\ Target' = Target /\ BoxInv'
      /\ Reads(Source, Target, pMR, xcdl1, events1, xcdl2, events2, None)
  BY <1>1, WhileReading, SamePair DEF None, EarlyInv, BoxInv
<1>3. PICK c \in Place : Leads(Source, c, events1, AfterDocument(Source)) /\ Reading1(Source, Target, pMR, c, xcdl1, None)
  BY <1>1, <1>2 DEF Reads
<1>4. PICK d \in Place : /\ Leads(Source, d, events1', AfterDocument(Source))
                         /\ e.event = "characters" => Says(Source, c, e, d)
                         /\ e.event = "end" => Finishes(Source, c, e, d)
  BY <1>1, <1>3, NextPlace
<1>5. Reading1(Source, Target, pMR, d, xcdl1', None)
  <2>1. CASE e.event = "characters" /\ xcdl1' = CharactersXCDL1(xcdl1, e.text, pMR)
    <3>1. Says(Source, c, e, d)
      BY <1>4, <2>1
    <3>. QED
      BY <1>2, <1>3, <2>1, <3>1, SourceSays
  <2>2. CASE /\ e.event = "end" /\ xcdl1' = EndElementXCDL1(xcdl1, e)
             /\ xcdl1.parsingState \notin {"startNormData", "endPropertyValueSet"}
    <3>1. Finishes(Source, c, e, d)
      BY <1>4, <2>2
    <3>. QED
      BY <1>2, <1>3, <2>2, <3>1, SourceFinishes
  <2>. QED
    BY <1>1, <2>1, <2>2
<1>6. Reads(Source, Target, pMR, xcdl1', events1', xcdl2, events2, None)
  BY <1>1, <1>4, <1>5 DEF Reads
<1>7. Reads(Source, Target, pMR, xcdl1, events1, xcdl2, events2, None)'
  BY <1>1, <1>2, <1>6
<1>. QED
  BY <1>1, <1>2, <1>7, NotEarly DEF EarlyInv

\* The source waits for the target.
LEMMA BeginTargetKeeps ==
  ASSUME ReportInv, ReadInv, EarlyInv, BeginTarget
  PROVE  EarlyInv'
<1>. DEFINE e == Head(events1)
<1>1. /\ stage = "source" /\ stage' = stage /\ xcdl2 = NoHandler /\ events1 # <<>> /\ e.event = "end"
      /\ events1' = Tail(events1) /\ xcdl1.parsingState \in {"startNormData", "endPropertyValueSet"}
      /\ xcdl2' = NewHandler022 /\ events2' = DocumentEvents(Target)
      /\ UNCHANGED <<world, pInputParams, pMR, xcdl1, ResultBox>>
  BY DEF BeginTarget, ReadsSource, HasRead, HasReadNormData, Target, Content
<1>2. /\ Source \in Document /\ Target \in Document /\ None \in BOOLEAN /\ None' = None
      /\ Source' = Source /\ Target' = Target /\ BoxInv'
      /\ Reads(Source, Target, pMR, xcdl1, events1, xcdl2, events2, None)
  BY <1>1, WhileReading, SamePair DEF None, EarlyInv, BoxInv
<1>3. PICK c \in Place : Leads(Source, c, events1, AfterDocument(Source)) /\ Reading1(Source, Target, pMR, c, xcdl1, None)
  BY <1>1, <1>2 DEF Reads
<1>4. PICK d \in Place : Leads(Source, d, events1', AfterDocument(Source)) /\ Finishes(Source, c, e, d)
  BY <1>1, <1>3, NextPlace
<1>5. Waiting1(Source, Target, pMR, d, xcdl1, None)
  BY <1>1, <1>2, <1>3, <1>4, SourceWaits
<1>6. /\ Leads(Target, Outside, events2', AfterDocument(Target)) /\ Outside \in Place
      /\ Reading2(Target, Outside, xcdl2', name1, None)
  BY <1>1, <1>2, NewReading
<1>7. xcdl2' # NoHandler
  BY <1>1, NewIsSound, TwiceIsManifold
<1>8. Reads(Source, Target, pMR, xcdl1, events1', xcdl2', events2', None)
  BY <1>4, <1>5, <1>6, <1>7 DEF Reads, name1
<1>9. Reads(Source, Target, pMR, xcdl1, events1, xcdl2, events2, None)'
  BY <1>1, <1>2, <1>8
<1>. QED
  BY <1>1, <1>2, <1>9, NotEarly DEF EarlyInv

\* The source was read to its end, or is given up.
LEMMA EndSourceIsForReason ==
  ASSUME ReportInv, ReadInv, EarlyInv, EndSource \/ FailToParseSource
  PROVE  EarlyInv'
<1>1. /\ stage = "source" /\ xcdl2 = NoHandler /\ xcdl2' = xcdl2 /\ ResultBox' = NoBox
      /\ UNCHANGED <<world, pMR>>
      /\ pInputParams' = pInputParams \/ pInputParams' = Framed(pInputParams)
      /\ \/ /\ events1 = <<>> /\ xcdl1.parsingState = "endXCDL" /\ ResultBox = NoBox /\ stage' = "crashed"
         \/ stage' \in AfterDeleting({xcdl1}, "pairs")
  BY DEF EndSource, FailToParseSource, OutputForPlato
<1>2. Source \in Document /\ Reads(Source, Target, pMR, xcdl1, events1, xcdl2, events2, None)
  BY <1>1, WhileReading
<1>3. pInputParams'.sourceXCDL = pInputParams.sourceXCDL /\ pInputParams'.targetXCDL = pInputParams.targetXCDL
  BY <1>1, FramedFacts DEF ReportInv
<1>4. Source' = Source /\ Target' = Target /\ BoxInv'
  BY <1>1, <1>3 DEF Source, Target, Content, File, BoxInv
<1>5. PICK c \in Place : Leads(Source, c, events1, AfterDocument(Source)) /\ Reading1(Source, Target, pMR, c, xcdl1, None)
  BY <1>1, <1>2 DEF Reads
<1>6. CASE stage' = "pairs"
  BY <1>1, <1>4, <1>6, NotEarly DEF EarlyInv
<1>7. CASE events1 = <<>> /\ xcdl1.parsingState = "endXCDL" /\ ResultBox = NoBox /\ stage' = "crashed"
  <2>1. c.at = "end"
    <3>1. c = AfterDocument(Source)
      BY <1>5, <1>7, LeadsOn
    <3>. QED
      BY <3>1 DEF AfterDocument, To
  <2>2. None = TRUE
    BY <1>7 DEF None
  <2>3. NothingInCommon(pMR, Source, Target) \/ Target[1].data
    BY <1>2, <1>5, <1>7, <2>1, <2>2, NothingWasMissed
  <2>4. EndsEarlyForReason'
    BY <1>1, <1>4, <1>7, <2>3 DEF EndsEarlyForReason, Target
  <2>. QED
    BY <1>4, <1>7, <2>4 DEF EarlyInv
<1>8. CASE stage' = "crashed" /\ DeletesTwice(xcdl1)
  <2>1. Manifold(Source)
    BY <1>5, <1>8, TwiceIsManifold DEF Reading1
  <2>2. EndsEarlyForReason'
    BY <1>4, <1>8, <2>1 DEF EndsEarlyForReason
  <2>. QED
    BY <1>4, <1>8, <2>2 DEF EarlyInv
<1>. QED
  BY <1>1, <1>6, <1>7, <1>8 DEF AfterDeleting

\* While the target is read.
LEMMA WhileWaiting ==
  ASSUME ReportInv, ReadInv, EarlyInv, stage = "source", xcdl2 # NoHandler
  PROVE  /\ Source \in Document /\ Target \in Document /\ None \in BOOLEAN
         /\ \E c \in Place : /\ Leads(Source, c, events1, AfterDocument(Source))
                             /\ Waiting1(Source, Target, pMR, c, xcdl1, None)
         /\ \E d \in Place : /\ Leads(Target, d, events2, AfterDocument(Target))
                             /\ Reading2(Target, d, xcdl2, name1, None)
BY WhileReading DEF Reads, name1

\* The target is read on, with results or without.
LEMMA StillWaiting ==
  ASSUME ReportInv, ReadInv, EarlyInv, stage = "source", xcdl2 # NoHandler, stage' = stage, BoxInv',
         UNCHANGED <<world, pInputParams, pMR, xcdl1, events1>>, None' = None \/ None' = FALSE,
         NEW d \in Place, Leads(Target, d, events2', AfterDocument(Target)), Reading2(Target, d, xcdl2', name1, None')
  PROVE  EarlyInv'
<1>1. Source' = Source /\ Target' = Target
  BY SamePair
<1>2. PICK c \in Place : Leads(Source, c, events1, AfterDocument(Source)) /\ Waiting1(Source, Target, pMR, c, xcdl1, None)
  BY WhileWaiting
<1>3. Waiting1(Source, Target, pMR, c, xcdl1, None')
  BY <1>2 DEF Waiting1
<1>4. xcdl2' # NoHandler
  BY TwiceIsManifold DEF Reading2
<1>5. Reads(Source, Target, pMR, xcdl1, events1, xcdl2', events2', None')
  BY <1>2, <1>3, <1>4 DEF Reads, name1
<1>6. Reads(Source, Target, pMR, xcdl1, events1, xcdl2, events2, None)'
  BY <1>1, <1>5
<1>. QED
  BY <1>6, NotEarly DEF EarlyInv

\* An element starts in the target, or ends in it but for a property to compare.
LEMMA TargetReadsKeeps ==
  ASSUME ReportInv, ReadInv, EarlyInv, TargetStartElement \/ TargetEndElement
  PROVE  EarlyInv'
<1>. DEFINE e == Head(events2)
<1>1. /\ stage = "source" /\ xcdl2 # NoHandler /\ events2 # <<>> /\ events2' = Tail(events2)
      /\ UNCHANGED <<world, pInputParams, pMR, xcdl1, events1, ResultBox>>
      /\ \/ /\ e.event = "start" /\ xcdl2' = StartElementXCDL2(xcdl2, e)
            /\ stage' = IF xcdl2'.parsingState = "exit" THEN "exited" ELSE stage
         \/ /\ e.event = "end" /\ xcdl2' = EndElementXCDL2(xcdl2, e) /\ xcdl2.parsingState # "endPropertyValueSet"
            /\ stage' = stage
  BY DEF TargetStartElement, TargetEndElement, ReadsTarget, HasRead
<1>2. /\ Source' = Source /\ Target' = Target /\ None' = None /\ BoxInv'
      /\ Source \in Document /\ Target \in Document /\ None \in BOOLEAN
  BY <1>1, SamePair, WhileWaiting DEF None, EarlyInv, BoxInv
<1>3. PICK d \in Place : Leads(Target, d, events2, AfterDocument(Target)) /\ Reading2(Target, d, xcdl2, name1, None)
  BY <1>1, WhileWaiting
<1>4. PICK b \in Place : /\ Leads(Target, b, events2', AfterDocument(Target))
                         /\ e.event = "start" => Begins(Target, d, e, b)
                         /\ e.event = "end" => Finishes(Target, d, e, b)
  BY <1>1, <1>3, NextPlace
<1>5. CASE e.event = "start" /\ xcdl2' = StartElementXCDL2(xcdl2, e) /\ xcdl2'.parsingState = "exit" /\ stage' = "exited"
  <2>1. Len(Target) > 1
    BY <1>2, <1>3, <1>4, <1>5, TargetBegins
  <2>2. EndsEarlyForReason'
    BY <1>2, <1>5, <2>1 DEF EndsEarlyForReason, Target
  <2>. QED
    BY <1>2, <1>5, <2>2 DEF EarlyInv
<1>6. CASE e.event = "start" /\ xcdl2' = StartElementXCDL2(xcdl2, e) /\ xcdl2'.parsingState # "exit" /\ stage' = stage
  <2>1. Reading2(Target, b, xcdl2', name1, None')
    BY <1>2, <1>3, <1>4, <1>6, TargetBegins
  <2>. QED
    BY <1>1, <1>2, <1>4, <1>6, <2>1, StillWaiting
<1>7. CASE /\ e.event = "end" /\ xcdl2' = EndElementXCDL2(xcdl2, e) /\ xcdl2.parsingState # "endPropertyValueSet"
           /\ stage' = stage
  <2>1. Reading2(Target, b, xcdl2', name1, None')
    BY <1>2, <1>3, <1>4, <1>7, TargetFinishes
  <2>. QED
    BY <1>1, <1>2, <1>4, <1>7, <2>1, StillWaiting
<1>. QED
  BY <1>1, <1>5, <1>6, <1>7

\* A text of the target.
LEMMA TargetCharactersKeeps ==
  ASSUME ReportInv, ReadInv, EarlyInv, TargetCharacters
  PROVE  EarlyInv'
<1>. DEFINE e == Head(events2)
            h == CharactersXCDL2(xcdl2, e.text, xcdl1.propertyTagset)
<1>1. /\ stage = "source" /\ stage' = stage /\ xcdl2 # NoHandler /\ events2 # <<>> /\ events2' = Tail(events2)
      /\ e.event = "characters" /\ UNCHANGED <<world, pInputParams, pMR, xcdl1, events1>>
      /\ \/ /\ xcdl2.parsingState = "startNormData" /\ name1 = NormData /\ xcdl2' = In(h, "skipAll")
            /\ \E r \in CompareNormData(RequestedSet(pMR, NormData), xcdl1.normData, h.normData) :
                 ResultBox' = Inserted(r)
         \/ /\ ~(xcdl2.parsingState = "startNormData" /\ name1 = NormData)
            /\ xcdl2' = h /\ ResultBox' = ResultBox
  BY DEF TargetCharacters, ReadsTarget, HasReadNormData
<1>2. Source \in Document /\ Target \in Document /\ None \in BOOLEAN
  BY <1>1, WhileWaiting
<1>3. PICK d \in Place : Leads(Target, d, events2, AfterDocument(Target)) /\ Reading2(Target, d, xcdl2, name1, None)
  BY <1>1, WhileWaiting
<1>4. PICK b \in Place : Leads(Target, b, events2', AfterDocument(Target)) /\ Says(Target, d, e, b)
  BY <1>1, <1>3, NextPlace
<1>5. CASE /\ xcdl2.parsingState = "startNormData" /\ name1 = NormData /\ xcdl2' = In(h, "skipAll")
           /\ \E r \in CompareNormData(RequestedSet(pMR, NormData), xcdl1.normData, h.normData) :
                ResultBox' = Inserted(r)
  <2>1. Reading2(Target, b, xcdl2', name1, FALSE)
    BY <1>2, <1>3, <1>4, <1>5, TargetSaysNormData DEF name1
  <2>2. PICK r \in CompareNormData(RequestedSet(pMR, NormData), xcdl1.normData, h.normData) : ResultBox' = Inserted(r)
    BY <1>5
  <2>3. OnlyResults(ResultBox') /\ ResultBox' # NoBox
    BY <2>2, NormDataCompared, BoxFacts DEF EarlyInv
  <2>4. BoxInv' /\ None' = FALSE
    BY <2>3 DEF BoxInv, None
  <2>. QED
    BY <1>1, <1>4, <2>1, <2>4, StillWaiting
<1>6. CASE /\ ~(xcdl2.parsingState = "startNormData" /\ name1 = NormData)
           /\ xcdl2' = h /\ ResultBox' = ResultBox
  <2>1. Reading2(Target, b, xcdl2', name1, None)
    BY <1>2, <1>3, <1>4, <1>6, TargetSays DEF name1
  <2>2. BoxInv' /\ None' = None
    BY <1>6 DEF EarlyInv, BoxInv, None
  <2>. QED
    BY <1>1, <1>4, <2>1, <2>2, StillWaiting
<1>. QED
  BY <1>1, <1>5, <1>6

\* The end of the property that was looked for: only dates end the program.
LEMMA CompareWithTargetKeeps ==
  ASSUME ReportInv, ReadInv, EarlyInv, CompareWithTarget
  PROVE  EarlyInv'
<1>. DEFINE e == Head(events2)
            v1 == xcdl1.propertyTagset.valueSet
            v2 == xcdl2.propertyTagset.valueSet
<1>1. /\ stage = "source" /\ xcdl2 # NoHandler /\ events2 # <<>> /\ events2' = Tail(events2) /\ e.event = "end"
      /\ xcdl2.parsingState = "endPropertyValueSet"
      /\ UNCHANGED <<world, pInputParams, pMR, xcdl1, events1>>
  BY DEF CompareWithTarget, ReadsTarget, HasRead
<1>2. PICK r \in CompareProperties(RequestedSet(pMR, name1), v1, v2) :
        /\ ResultBox' = IF IsResultSet(r) THEN Inserted(r) ELSE Box
        /\ xcdl2' = In(xcdl2, IF r = Fails THEN "erroneous" ELSE "skipAll")
        /\ stage' = IF r = Exits THEN "exited" ELSE stage
  BY DEF CompareWithTarget
<1>3. /\ Source \in Document /\ Target \in Document /\ None \in BOOLEAN
      /\ Source' = Source /\ Target' = Target
  BY <1>1, WhileWaiting, SamePair
<1>4. PICK c \in Place : Waiting1(Source, Target, pMR, c, xcdl1, None)
  BY <1>1, WhileWaiting
<1>5. PICK d \in Place : Leads(Target, d, events2, AfterDocument(Target)) /\ Reading2(Target, d, xcdl2, name1, None)
  BY <1>1, WhileWaiting
<1>6. PICK b \in Place : Leads(Target, b, events2', AfterDocument(Target)) /\ Finishes(Target, d, e, b)
  BY <1>1, <1>5, NextPlace
<1>7. /\ name1 # NormData /\ SoundValueSet(Target, v2)
      /\ \A s \in {"erroneous", "skipAll"} : Reading2(Target, b, In(xcdl2, s), name1, FALSE)
  BY <1>1, <1>3, <1>5, <1>6, TargetCompared
<1>8. OnlyResults(ResultBox') /\ ResultBox' # NoBox
  <2>1. r # NoResult
    BY ComparedFacts
  <2>. QED
    BY <1>2, <2>1, BoxFacts DEF EarlyInv
<1>9. BoxInv' /\ None' = FALSE
  BY <1>8 DEF BoxInv, None
<1>10. CASE r = Exits
  <2>1. v1.labValType = "ISO8601" /\ v2.labValType = "ISO8601"
    BY <1>10, ComparedFacts
  <2>2. SoundValueSet(Source, v1)
    <3>1. xcdl1.parsingState = "endPropertyValueSet" /\ Sound(Source, xcdl1)
      BY <1>4, <1>7 DEF Waiting1, name1
    <3>2. "endPropertyValueSet" \in LabStates
      BY DEF LabStates
    <3>. QED
      BY <3>1, <3>2 DEF Sound
  <2>3. HasDate(Source) /\ HasDate(Target)
    BY <1>7, <2>1, <2>2 DEF SoundValueSet
  <2>4. stage' = "exited"
    BY <1>2, <1>10
  <2>5. EndsEarlyForReason'
    BY <1>3, <2>3, <2>4 DEF EndsEarlyForReason, Target
  <2>. QED
    BY <1>9, <2>4, <2>5 DEF EarlyInv
<1>11. CASE r # Exits
  <2>1. stage' = stage /\ Reading2(Target, b, xcdl2', name1, None')
    BY <1>2, <1>7, <1>9, <1>11
  <2>. QED
    BY <1>1, <1>6, <1>9, <2>1, StillWaiting
<1>. QED
  BY <1>10, <1>11

\* The target was read to its end, or is given up, and the source goes on.
LEMMA AfterTargetKeeps ==
  ASSUME ReportInv, ReadInv, EarlyInv, EndTarget \/ FailToParseTarget
  PROVE  EarlyInv'
<1>1. PICK result :
        /\ stage = "source" /\ xcdl2 # NoHandler /\ AfterTarget(result)
        /\ result = -1 \/ (events2 = <<>> /\ xcdl2.parsingState # "erroneous")
  BY DEF EndTarget, FailToParseTarget
<1>. DEFINE dead == result = -1
<1>2. /\ xcdl2' = NoHandler /\ UNCHANGED <<world, pInputParams, pMR, events1, ResultBox>>
      /\ xcdl1' = IF dead THEN In(xcdl1, "erroneous")
                  ELSE IF HasReadNormData(xcdl1) THEN [In(xcdl1, "endNormData") EXCEPT !.propertyTagset = NULL, !.normData = NULL]
                  ELSE [In(xcdl1, "endProperty") EXCEPT !.propertyTagset = NULL]
      /\ stage' = "source" \/ (stage' = "crashed" /\ (DeletesTwice(xcdl1) \/ DeletesTwice(xcdl2)))
  BY <1>1 DEF AfterTarget, AfterDeleting
<1>3. /\ Source \in Document /\ Target \in Document /\ None \in BOOLEAN /\ None' = None
      /\ Source' = Source /\ Target' = Target /\ BoxInv'
  BY <1>1, <1>2, WhileWaiting, SamePair DEF None, EarlyInv, BoxInv
<1>4. PICK c \in Place : Leads(Source, c, events1, AfterDocument(Source)) /\ Waiting1(Source, Target, pMR, c, xcdl1, None)
  BY <1>1, WhileWaiting
<1>5. PICK d \in Place : Leads(Target, d, events2, AfterDocument(Target)) /\ Reading2(Target, d, xcdl2, name1, None)
  BY <1>1, WhileWaiting
<1>6. CASE stage' = "crashed"
  <2>1. Manifold(Source) \/ Manifold(Target)
    BY <1>2, <1>4, <1>5, <1>6, TwiceIsManifold DEF Waiting1, Reading2
  <2>2. EndsEarlyForReason'
    BY <1>3, <1>6, <2>1 DEF EndsEarlyForReason, Target
  <2>. QED
    BY <1>3, <1>6, <2>2 DEF EarlyInv
<1>7. CASE stage' = "source"
  <2>1. ASSUME None, ~dead, Common(pMR, Source, Target, name1)
        PROVE  FALSE
    <3>1. events2 = <<>> /\ xcdl2.parsingState # "erroneous"
      BY <1>1, <2>1
    <3>2. d.at = "end"
      <4>1. d = AfterDocument(Target)
        BY <1>5, <3>1, LeadsOn
      <4>. QED
        BY <4>1 DEF AfterDocument, To
    <3>3. Has(Target, name1) /\ ~Target[1].data
      BY <2>1 DEF Common
    <3>4. Past(Target, d, name1)
      BY <1>3, <1>5, <3>2, <3>3, PastAtEnd DEF Reading2
    <3>5. xcdl2.parsingState \in Dead /\ xcdl2.parsingState # "skipAll" /\ Sound(Target, xcdl2)
      BY <1>5, <2>1, <3>3, <3>4 DEF Reading2
    <3>6. xcdl2.parsingState = "startData"
      BY <3>1, <3>5 DEF Dead
    <3>. QED
      BY <3>3, <3>5, <3>6 DEF Sound
  <2>2. dead \in BOOLEAN
    OBVIOUS
  <2>. HIDE DEF dead
  <2>3. Reading1(Source, Target, pMR, c, xcdl1', None)
    BY <1>2, <1>3, <1>4, <2>1, <2>2, SourceResumes DEF name1
  <2>4. Reads(Source, Target, pMR, xcdl1', events1, xcdl2', events2', None)
    BY <1>2, <1>4, <2>3 DEF Reads
  <2>5. Reads(Source, Target, pMR, xcdl1, events1, xcdl2, events2, None)'
    BY <1>2, <1>3, <2>4
  <2>. QED
    BY <1>2, <1>3, <1>7, <2>5, NotEarly DEF EarlyInv
<1>. QED
  BY <1>2, <1>6, <1>7

\* Every step keeps the invariant.
LEMMA NextEarly ==
  ASSUME ReportInv, ReadInv, EarlyInv, [Next]_vars
  PROVE  EarlyInv'
<1>1. CASE BeginPair
  <2>1. /\ stage = "pairs" /\ stage' = "source" /\ world' = world /\ xcdl2' = xcdl2 /\ ResultBox' = ResultBox
        /\ xcdl1' = NewHandler022 /\ events1' = DocumentEvents(Source)
        /\ pInputParams'.sourceXCDL = pInputParams.sourceXCDL
    <3>1. DOMAIN pInputParams = {"sourceXCDL", "targetXCDLs", "PCRFile", "outDir", "outFlag", "compsetCount", "targetXCDL"}
      BY DEF ReportInv, IsParams, NewInputParams
    <3>. QED
      BY <1>1, <3>1 DEF BeginPair, Source, Content
  <2>2. Source' = Source /\ xcdl2 = NoHandler
    BY <2>1 DEF Source, Content, File, EarlyInv
  <2>3. stage \in Through /\ pInputParams.sourceXCDL \in Given
    BY <2>1 DEF Through, Given
  <2>4. Source' \in Document
    BY <2>2, <2>3, GivenAreDocuments DEF Source
  <2>5. None' \in BOOLEAN
    BY DEF None
  <2>6. /\ Leads(Source', Outside, events1', AfterDocument(Source')) /\ Outside \in Place
        /\ Reading1(Source', Target', pMR', Outside, xcdl1', None')
    BY <2>1, <2>2, <2>4, <2>5, NewReading
  <2>7. Reads(Source', Target', pMR', xcdl1', events1', xcdl2', events2', None')
    BY <2>1, <2>2, <2>6 DEF Reads
  <2>8. BoxInv'
    BY <2>1 DEF EarlyInv, BoxInv
  <2>. QED
    BY <2>1, <2>7, <2>8, NotEarly DEF EarlyInv
<1>2. CASE SourceStartElement
  BY <1>2, SourceStartKeeps
<1>3. CASE SourceCharacters \/ SourceEndElement
  BY <1>3, SourceReadsKeeps
<1>4. CASE EndSource \/ FailToParseSource
  BY <1>4, EndSourceIsForReason
<1>5. CASE BeginTarget
  BY <1>5, BeginTargetKeeps
<1>6. CASE TargetStartElement \/ TargetEndElement
  BY <1>6, TargetReadsKeeps
<1>7. CASE TargetCharacters
  BY <1>7, TargetCharactersKeeps
<1>8. CASE CompareWithTarget
  BY <1>8, CompareWithTargetKeeps
<1>9. CASE EndTarget \/ FailToParseTarget
  BY <1>9, AfterTargetKeeps
<1>10. CASE \/ ParseArguments \/ TestIfFileIs \/ DoXMLValidation \/ LoadRequest \/ FailToLoadRequest
            \/ EndPairs \/ CloseReport
  <2>1. /\ stage \notin {"source", "exited", "crashed"} /\ stage' \notin {"source", "exited", "crashed"}
        /\ xcdl2' = xcdl2 /\ ResultBox' = ResultBox
    BY <1>10 DEF ParseArguments, TestIfFileIs, DoXMLValidation, Require, LoadRequest, FailToLoadRequest,
                 EndPairs, CloseReport, handlers
  <2>2. BoxInv'
    BY <2>1 DEF EarlyInv, BoxInv
  <2>. QED
    BY <2>1, <2>2, NotEarly DEF EarlyInv
<1>11. CASE UNCHANGED vars
  <2>1. /\ UNCHANGED <<stage, world, pInputParams, pMR, xcdl1, events1, xcdl2, events2, ResultBox>>
    BY <1>11 DEF vars, handlers
  <2>2. Source' = Source /\ Target' = Target /\ None' = None /\ BoxInv' = BoxInv
    BY <2>1, SamePair DEF None, BoxInv
  <2>3. EndsEarlyForReason' = EndsEarlyForReason
    BY <2>1, <2>2 DEF EndsEarlyForReason, Content, File
  <2>. QED
    BY <2>1, <2>2, <2>3 DEF EarlyInv
<1>. QED
  BY <1>1, <1>2, <1>3, <1>4, <1>5, <1>6, <1>7, <1>8, <1>9, <1>10, <1>11 DEF Next

\* The older comparator ends early only for a reason (XCDLHandler.cpp:512, PropertyTagset.cpp:58,
\* ComparatorOutput.cpp:96): by exit() only if there is a second object or if both
\* documents have dates, and by a crash only if a property has several value sets or
\* if there was nothing to compare, for all documents that the schema allows, for all
\* requests, and whichever files are spoilt.
THEOREM EndsEarlyForReasonCorrect == Spec => []EndsEarlyForReason
<1>1. Init => ReportInv /\ NewAtFirst /\ ReadInv /\ EarlyInv
  <2>. SUFFICES ASSUME Init PROVE ReportInv /\ NewAtFirst /\ ReadInv /\ EarlyInv
    OBVIOUS
  <2>1. stage = "arguments" /\ world \in Worlds /\ xcdl2 = NoHandler /\ ResultBox = NoBox
    BY DEF Init
  <2>2. ReadInv /\ EarlyInv
    BY <2>1 DEF ReadInv, EarlyInv, Through, BoxInv, EndsEarlyForReason
  <2>. QED
    BY <2>2, InitReport
<1>2. ReportInv /\ NewAtFirst /\ ReadInv /\ EarlyInv /\ [Next]_vars => (ReportInv /\ NewAtFirst /\ ReadInv /\ EarlyInv)'
  BY NextReport, NextRead, NextEarly
<1>3. EarlyInv => EndsEarlyForReason
  BY DEF EarlyInv
<1>. QED
  BY <1>1, <1>2, <1>3, PTL DEF Spec
=============================================================================
