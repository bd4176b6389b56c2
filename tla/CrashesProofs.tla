--------------------------- MODULE CrashesProofs ----------------------------
(***************************************************************************)
(* Theorems of LogWatch, for any lines, halves of lines, rotations, crashes *)
(* and restarts, and of MCCrashes, which puts it beside the loader.  What  *)
(* has been detected and what may still be are counted together: neither   *)
(* more than the failures logged, unless a pass read a file twice.         *)
(***************************************************************************)
EXTENDS MCCrashes, LoaderProofs, FiniteSetTheorems

\* The lines of a file that can still be detected by who reads on at p: those
\* that begin there or later, and one whose tail begins there and matches.
Ahead(lines, p) ==
  {k \in 1 .. Len(lines) : \/ IsFailure(lines[k]) /\ p <= 2 * k - 2
                           \/ lines[k] = "tail" /\ p = 2 * k - 1}

\* where the next pass begins, if none is under way
Resume == IF Length < offset THEN 0 ELSE offset

Position == IF pass.open THEN pass.at ELSE Resume

Unread ==
  IF pass.renamed THEN Cardinality(Ahead(oldLog, pass.at)) + Cardinality(Ahead(log, 0))
  ELSE Cardinality(Ahead(log, Position))

\* What the types rest on: a pass stays within the file it reads, and the lines
\* of both files were logged.
FileInv ==
  /\ LogTypeOK
  /\ pass.renamed => pass.open
  /\ ~pass.open => pass = NoPass
  /\ oldLog # <<>> => pass.renamed
  /\ pass.at <= End
  /\ Len(log) + Len(oldLog) <= logged.lines /\ logged.failures <= logged.lines

\* The inductive invariant: what has been detected and may still be does not
\* exceed the failures logged, unless a pass began anew.
Recounted == "recounted" \in disturbed

CountInv ==
  /\ Cardinality(Ahead(log, 0)) <= logged.failures
  /\ ~Recounted => attempts + detections + Unread <= logged.failures
  /\ banned \/ kept.banned => logged.failures >= FailuresToBan \/ Recounted
-----------------------------------------------------------------------------
(* Lines and positions                                                     *)

\* The line that a position is in, and where in it.
LEMMA Halved ==
  ASSUME NEW a \in Nat PROVE a \div 2 \in Nat /\ a % 2 \in 0 .. 1 /\ a % 2 = a - 2 * (a \div 2)
OBVIOUS

\* There are as many lines ahead as a number.
LEMMA AheadIsFinite ==
  ASSUME NEW lines \in Seq(LineKinds), NEW p \in Nat
  PROVE  IsFiniteSet(Ahead(lines, p)) /\ Cardinality(Ahead(lines, p)) \in Nat
<1>1. Len(lines) \in Nat /\ IsFiniteSet(1 .. Len(lines))
  BY FS_Interval
<1>2. Ahead(lines, p) \subseteq 1 .. Len(lines)
  BY DEF Ahead
<1> QED BY <1>1, <1>2, FS_Subset, FS_CardinalityType

\* Who reads on further back has at least as much ahead.
LEMMA AheadShrinks ==
  ASSUME NEW lines \in Seq(LineKinds), NEW p \in Nat, NEW q \in Nat, p <= q
  PROVE  /\ Ahead(lines, q) \subseteq Ahead(lines, p)
         /\ Cardinality(Ahead(lines, q)) <= Cardinality(Ahead(lines, p))
<1>1. Ahead(lines, q) \subseteq Ahead(lines, p)
  <2> SUFFICES ASSUME NEW k \in Ahead(lines, q) PROVE k \in Ahead(lines, p)
    OBVIOUS
  <2>1. k \in 1 .. Len(lines) /\ Len(lines) \in Nat
    BY DEF Ahead
  <2>2. CASE IsFailure(lines[k]) /\ q <= 2 * k - 2
    BY <2>1, <2>2 DEF Ahead
  <2>3. CASE lines[k] = "tail" /\ q = 2 * k - 1
    <3>1. IsFailure(lines[k])
      BY <2>3 DEF IsFailure
    <3>2. p = 2 * k - 1 \/ p <= 2 * k - 2
      BY <2>1, <2>3
    <3> QED BY <2>1, <2>3, <3>1, <3>2 DEF Ahead
  <2> QED BY <2>2, <2>3 DEF Ahead
<1> QED BY <1>1, AheadIsFinite, FS_Subset

\* A detection uses up what was ahead.
LEMMA AheadIsRead ==
  ASSUME NEW lines \in Seq(LineKinds), NEW p \in Nat, NEW q \in Nat, p <= q,
         NEW k \in Ahead(lines, p), k \notin Ahead(lines, q)
  PROVE  Cardinality(Ahead(lines, q)) + 1 <= Cardinality(Ahead(lines, p))
<1>1. Ahead(lines, q) \subseteq Ahead(lines, p) \ {k}
  BY AheadShrinks
<1>2. /\ IsFiniteSet(Ahead(lines, p)) /\ Cardinality(Ahead(lines, p)) \in Nat
      /\ Cardinality(Ahead(lines, q)) \in Nat
  BY AheadIsFinite
<1>3. /\ IsFiniteSet(Ahead(lines, p) \ {k})
      /\ Cardinality(Ahead(lines, p) \ {k}) = Cardinality(Ahead(lines, p)) - 1
  BY <1>2, FS_RemoveElement
<1>4. Cardinality(Ahead(lines, q)) <= Cardinality(Ahead(lines, p) \ {k})
  BY <1>1, <1>3, FS_Subset
<1> QED BY <1>2, <1>3, <1>4

\* A line that is logged is ahead of everyone, if it is a failure.
LEMMA AheadGrows ==
  ASSUME NEW lines \in Seq(LineKinds), NEW p \in Nat, NEW kind \in LineKinds
  PROVE  Cardinality(Ahead(Append(lines, kind), p))
           <= Cardinality(Ahead(lines, p)) + (IF IsFailure(kind) THEN 1 ELSE 0)
<1> DEFINE more == Append(lines, kind)
           n == Len(lines) + 1
<1>1. /\ more \in Seq(LineKinds) /\ Len(more) = n /\ Len(lines) \in Nat /\ more[n] = kind
      /\ \A k \in 1 .. Len(lines) : more[k] = lines[k]
  OBVIOUS
<1>2. Ahead(more, p) \subseteq Ahead(lines, p) \cup (IF IsFailure(kind) THEN {n} ELSE {})
  <2> SUFFICES ASSUME NEW k \in Ahead(more, p)
               PROVE  k \in Ahead(lines, p) \/ (IsFailure(kind) /\ k = n)
    OBVIOUS
  <2>1. k \in 1 .. n /\ ((IsFailure(more[k]) /\ p <= 2 * k - 2) \/ (more[k] = "tail" /\ p = 2 * k - 1))
    <3> HIDE DEF more, n
    <3> QED BY <1>1 DEF Ahead
  <2>2. CASE k = n
    BY <1>1, <2>1, <2>2 DEF IsFailure
  <2>3. CASE k # n
    <3>1. k \in 1 .. Len(lines)
      BY <1>1, <2>1, <2>3
    <3> HIDE DEF more, n
    <3> QED BY <1>1, <2>1, <3>1 DEF Ahead
  <2> QED BY <2>2, <2>3
<1>3. /\ IsFiniteSet(Ahead(lines, p)) /\ Cardinality(Ahead(lines, p)) \in Nat
      /\ Cardinality(Ahead(more, p)) \in Nat
  BY <1>1, AheadIsFinite
<1> HIDE DEF more, n
<1>4. CASE IsFailure(kind)
  <2>1. /\ IsFiniteSet(Ahead(lines, p) \cup {n})
        /\ Cardinality(Ahead(lines, p) \cup {n}) <= Cardinality(Ahead(lines, p)) + 1
    <3> DEFINE before == Ahead(lines, p)
    <3>1. /\ IsFiniteSet(before \cup {n})
          /\ Cardinality(before \cup {n}) \in {Cardinality(before), Cardinality(before) + 1}
      <4> HIDE DEF before
      <4>1. IsFiniteSet(before)
        BY <1>3 DEF before
      <4> QED BY <4>1, FS_AddElement
    <3> QED BY <1>3, <3>1
  <2>2. Cardinality(Ahead(more, p)) <= Cardinality(Ahead(lines, p) \cup {n})
    BY <1>2, <1>4, <2>1, FS_Subset
  <2>3. Cardinality(Ahead(lines, p) \cup {n}) \in Nat
    BY <2>1, FS_CardinalityType
  <2> QED BY <1>3, <1>4, <2>1, <2>2, <2>3 DEF more
<1>5. CASE ~IsFailure(kind)
  <2>1. Cardinality(Ahead(more, p)) <= Cardinality(Ahead(lines, p))
    BY <1>2, <1>3, <1>5, FS_Subset
  <2> QED BY <1>3, <1>5, <2>1 DEF more
<1> QED BY <1>4, <1>5

\* An empty file has nothing to detect.
LEMMA NothingAhead == \A p \in Nat : Ahead(<<>>, p) = {} /\ Cardinality(Ahead(<<>>, p)) = 0
<1>1. \A p \in Nat : Ahead(<<>>, p) = {}
  BY DEF Ahead
<1> QED BY <1>1, FS_EmptySet
-----------------------------------------------------------------------------
(* Types                                                                   *)

\* The bounds are numbers.
LEMMA LogNumbers ==
  /\ FailuresToBan \in Nat /\ FailuresToBan >= 1 /\ DetectionSlots \in Nat /\ DetectionSlots >= 1
  /\ MaxLines \in Nat
BY LogAssumption

\* The positions of the watch lie within the files it reads.
LEMMA Positions ==
  ASSUME FileInv
  PROVE  /\ log \in Seq(LineKinds) /\ Len(log) \in Nat /\ Len(log) <= MaxLines
         /\ oldLog \in Seq(LineKinds) /\ Len(oldLog) \in Nat /\ Len(oldLog) <= MaxLines
         /\ Length \in Nat /\ Length <= 2 * Len(log)
         /\ Lines \in Seq(LineKinds) /\ Len(Lines) \in Nat /\ Len(Lines) <= MaxLines
         /\ End \in Nat /\ End <= 2 * Len(Lines)
         /\ pass.at \in Nat /\ offset \in Nat /\ kept.offset \in Nat
<1>1. /\ log \in Seq(LineKinds) /\ Len(log) \in Nat /\ oldLog \in Seq(LineKinds) /\ Len(oldLog) \in Nat
      /\ Len(log) + Len(oldLog) <= logged.lines /\ logged.lines \in 0 .. MaxLines
      /\ halfWritten \in BOOLEAN /\ (halfWritten => Len(log) >= 1)
  BY DEF FileInv, LogTypeOK
<1>2. Length \in Nat /\ Length <= 2 * Len(log)
  BY <1>1 DEF Length
<1>3. Lines \in Seq(LineKinds) /\ Len(Lines) \in Nat /\ End \in Nat /\ End <= 2 * Len(Lines)
  BY <1>1, <1>2 DEF Lines, End
<1>4. pass.at \in Nat /\ offset \in Nat /\ kept.offset \in Nat
  BY LogNumbers DEF FileInv, LogTypeOK
<1> QED BY <1>1, <1>2, <1>3, <1>4, LogNumbers DEF Lines

\* read_line: what is read is part of one line, and no further than the file goes.
LEMMA ReadAdvances ==
  ASSUME FileInv, pass.at < End
  PROVE  /\ pass.at \div 2 + 1 \in 1 .. Len(Lines)
         /\ Cardinality(NextText) \in 1 .. 2 /\ pass.at + Cardinality(NextText) <= End
         /\ NextText = Halves => pass.at = 2 * (pass.at \div 2)
                                 /\ pass.at + Cardinality(NextText) = 2 * (pass.at \div 2) + 2
         /\ NextText # Halves => \/ NextText = {"head"} /\ pass.at = 2 * (pass.at \div 2)
                                 \/ NextText = {"tail"} /\ pass.at = 2 * (pass.at \div 2) + 1
<1>1. /\ pass.at \in Nat /\ End \in Nat /\ End <= 2 * Len(Lines) /\ Len(Lines) \in Nat
  BY Positions
<1>2. pass.at \div 2 \in Nat /\ pass.at % 2 \in 0 .. 1 /\ pass.at % 2 = pass.at - 2 * (pass.at \div 2)
  BY <1>1, Halved
<1> DEFINE at == pass.at
           h == pass.at \div 2
           odd == pass.at % 2
<1>3. /\ at \in Nat /\ End \in Nat /\ End <= 2 * Len(Lines) /\ Len(Lines) \in Nat
      /\ h \in Nat /\ odd \in 0 .. 1 /\ odd = at - 2 * h /\ at < End
  BY <1>1, <1>2
<1>4. NextText = IF odd = 1 THEN {"tail"} ELSE IF at + 1 = End THEN {"head"} ELSE Halves
  BY DEF NextText
<1>5. /\ Cardinality({"tail"}) = 1 /\ Cardinality({"head"}) = 1 /\ Cardinality(Halves) = 2
      /\ Halves # {"tail"} /\ Halves # {"head"}
  <2>1. IsFiniteSet({"head"}) /\ Cardinality({"head"}) = 1 /\ Cardinality({"tail"}) = 1
    BY FS_Singleton
  <2>2. {"head"} \cup {"tail"} = Halves /\ "tail" \notin {"head"}
    BY DEF Halves
  <2>3. Cardinality({"head"} \cup {"tail"}) = Cardinality({"head"}) + 1
    BY <2>1, <2>2, FS_AddElement
  <2> QED BY <2>1, <2>2, <2>3 DEF Halves
<1> HIDE DEF at, h, odd
<1>6. h + 1 \in 1 .. Len(Lines)
  BY <1>3
<1>7. CASE odd = 1
  <2>1. NextText = {"tail"} /\ at = 2 * h + 1 /\ at + 1 <= End
    BY <1>3, <1>4, <1>7
  <2>2. Cardinality(NextText) = 1 /\ NextText # Halves
    BY <1>5, <2>1
  <2>3. at + Cardinality(NextText) <= End /\ Cardinality(NextText) \in 1 .. 2
    BY <2>1, <2>2
  <2> QED BY <1>6, <2>1, <2>2, <2>3 DEF at, h
<1>8. CASE odd # 1 /\ at + 1 = End
  <2>1. NextText = {"head"} /\ at = 2 * h
    BY <1>3, <1>4, <1>8
  <2>2. Cardinality(NextText) = 1 /\ NextText # Halves
    BY <1>5, <2>1
  <2>3. at + Cardinality(NextText) <= End /\ Cardinality(NextText) \in 1 .. 2
    BY <1>3, <1>8, <2>2
  <2> QED BY <1>6, <2>1, <2>2, <2>3 DEF at, h
<1>9. CASE odd # 1 /\ at + 1 # End
  <2>1. NextText = Halves /\ at = 2 * h /\ at + 2 <= End
    BY <1>3, <1>4, <1>9
  <2>2. Cardinality(NextText) = 2 /\ at + Cardinality(NextText) = 2 * h + 2
    BY <1>3, <1>5, <2>1
  <2>3. at + Cardinality(NextText) <= End /\ Cardinality(NextText) \in 1 .. 2
    BY <2>1, <2>2
  <2> QED BY <1>6, <2>1, <2>2, <2>3 DEF at, h
<1> QED BY <1>7, <1>8, <1>9

\* A watch that has not begun.
LEMMA FileInit == LogInit => FileInv
<1> SUFFICES ASSUME LogInit PROVE FileInv
  OBVIOUS
<1>1. /\ log = <<>> /\ oldLog = <<>> /\ halfWritten = FALSE /\ watching = TRUE /\ banned = FALSE
      /\ pass = [open |-> FALSE, at |-> 0, renamed |-> FALSE] /\ pass = NoPass
      /\ offset = 0 /\ begun = 0 /\ detections = 0 /\ attempts = 0 /\ disturbed = {}
      /\ kept = [offset |-> 0, banned |-> FALSE] /\ logged = [lines |-> 0, failures |-> 0]
  BY DEF LogInit, NoPass, Blank
<1>2. LogTypeOK
  <2>1. /\ pass \in [open : BOOLEAN, at : 0 .. 2 * MaxLines, renamed : BOOLEAN]
        /\ offset \in 0 .. 2 * MaxLines /\ begun \in 0 .. 2 * MaxLines
        /\ detections \in 0 .. DetectionSlots /\ attempts \in 0 .. FailuresToBan - 1
    BY <1>1, LogNumbers
  <2>2. /\ kept \in [offset : 0 .. 2 * MaxLines, banned : BOOLEAN]
        /\ logged \in [lines : 0 .. MaxLines, failures : 0 .. MaxLines]
    BY <1>1, LogNumbers
  <2>3. log \in Seq(LineKinds) /\ oldLog \in Seq(LineKinds)
    BY <1>1
  <2> QED BY <1>1, <2>1, <2>2, <2>3 DEF LogTypeOK
<1>3. pass.at = 0 /\ ~pass.renamed /\ Length = 0 /\ logged.lines = 0 /\ logged.failures = 0
  BY <1>1 DEF Length
<1> QED BY <1>1, <1>2, <1>3 DEF FileInv, End

\* Every step keeps the pass within the file it reads.
LEMMA FileStep == FileInv /\ [LogNext]_logVars => FileInv'
<1> SUFFICES ASSUME FileInv, [LogNext]_logVars PROVE FileInv'
  OBVIOUS
<1> USE LogNumbers
<1>1. ASSUME NEW kind \in LineKinds, NEW half \in BOOLEAN, Write(kind, half) PROVE FileInv'
  <2>1. /\ log' = Append(log, kind) /\ halfWritten' = half /\ ~halfWritten
        /\ logged' = [lines |-> logged.lines + 1,
                      failures |-> logged.failures + (IF IsFailure(kind) THEN 1 ELSE 0)]
        /\ logged.lines < MaxLines
        /\ UNCHANGED <<oldLog, watching, pass, offset, detections, attempts, banned, kept, begun, disturbed>>
    BY <1>1 DEF Write, logMemory
  <2>2. /\ log' \in Seq(LineKinds) /\ log' # <<>> /\ Len(log') = Len(log) + 1 /\ Len(log) \in Nat
    <3>1. log \in Seq(LineKinds) /\ log' = Append(log, kind)
      BY <2>1, Positions
    <3>2. log' \in Seq(LineKinds) /\ Len(log') = Len(log) + 1 /\ Len(log) \in Nat
      BY <3>1
    <3> QED BY <3>2
  <2>3. /\ logged \in [lines : 0 .. MaxLines, failures : 0 .. MaxLines]
        /\ logged.failures <= logged.lines /\ Len(log) + Len(oldLog) <= logged.lines
    BY DEF FileInv, LogTypeOK
  <2>4. /\ logged' \in [lines : 0 .. MaxLines, failures : 0 .. MaxLines]
        /\ logged'.failures <= logged'.lines /\ logged'.lines = logged.lines + 1
    BY <2>1, <2>3
  <2>5. Length' >= Length
    BY <2>1, <2>2 DEF Length
  <2>6. pass'.at <= End'
    <3>1. CASE pass.renamed
      BY <2>1, <3>1 DEF End, FileInv
    <3>2. CASE ~pass.renamed
      <4>1. Length' = 2 * (Len(log) + 1) - (IF half THEN 1 ELSE 0) /\ Length = 2 * Len(log)
        BY <2>1, <2>2 DEF Length
      <4>2. End' = Length' /\ End = Length /\ pass.at <= End /\ pass.at \in Nat
        BY <2>1, <3>2, Positions DEF End, FileInv
      <4> QED BY <2>1, <2>2, <4>1, <4>2
    <3> QED BY <3>1, <3>2
  <2>7. Len(oldLog) \in Nat
    BY Positions
  <2>8. LogTypeOK'
    BY <2>1, <2>2, <2>4 DEF FileInv, LogTypeOK
  <2> QED BY <2>1, <2>2, <2>3, <2>4, <2>6, <2>7, <2>8 DEF FileInv
<1>2. CASE WriteTail
  <2>1. /\ halfWritten' = FALSE /\ halfWritten
        /\ UNCHANGED <<log, logged, oldLog, watching, pass, offset, detections, attempts, banned, kept, begun,
                       disturbed>>
    BY <1>2 DEF WriteTail, logMemory
  <2>2. Length' = Length + 1 /\ Length \in Nat /\ pass.at \in Nat
    BY <2>1, Positions DEF Length
  <2>3. pass'.at <= End'
    BY <2>1, <2>2 DEF FileInv, End
  <2>4. LogTypeOK'
    BY <2>1 DEF FileInv, LogTypeOK
  <2> QED BY <2>1, <2>3, <2>4 DEF FileInv
<1>3. CASE Rotate
  <2>1. /\ ~halfWritten /\ log # <<>> /\ log' = <<>> /\ disturbed' = disturbed \cup {"rotated"}
        /\ UNCHANGED <<halfWritten, logged, watching, offset, detections, attempts, banned, kept, begun>>
    BY <1>3 DEF Rotate, logMemory
  <2>2. /\ log \in Seq(LineKinds) /\ Len(log) \in Nat /\ Len(oldLog) \in Nat /\ log' \in Seq(LineKinds)
        /\ Len(log') = 0
    BY <2>1, Positions
  <2>3. CASE pass.open /\ ~pass.renamed
    <3>1. oldLog' = log /\ pass' = [pass EXCEPT !.renamed = TRUE]
      BY <1>3, <2>3 DEF Rotate
    <3>2. /\ pass' \in [open : BOOLEAN, at : 0 .. 2 * MaxLines, renamed : BOOLEAN]
          /\ pass'.open /\ pass'.renamed /\ pass'.at = pass.at
      BY <2>3, <3>1 DEF FileInv, LogTypeOK
    <3>3. oldLog = <<>> /\ Len(oldLog) = 0
      BY <2>3 DEF FileInv
    <3>4. pass'.at <= End'
      BY <2>1, <2>3, <3>1, <3>2 DEF FileInv, End, Length
    <3>5. LogTypeOK'
      <4>1. watching
        BY <2>3 DEF FileInv, LogTypeOK, NoPass
      <4> QED BY <2>1, <2>2, <3>1, <3>2, <4>1 DEF FileInv, LogTypeOK
    <3> QED BY <2>1, <2>2, <3>1, <3>2, <3>3, <3>4, <3>5 DEF FileInv
  <2>4. CASE ~(pass.open /\ ~pass.renamed)
    <3>1. UNCHANGED <<oldLog, pass>>
      BY <1>3, <2>4 DEF Rotate
    <3>2. pass'.at <= End'
      <4>1. CASE pass.renamed
        BY <3>1, <4>1 DEF FileInv, End
      <4>2. CASE ~pass.renamed
        <5>1. ~pass.open /\ pass.at = 0
          BY <2>4, <4>2 DEF FileInv, NoPass
        <5>2. Length' = 0
          BY <2>1, <2>2 DEF Length
        <5> QED BY <3>1, <4>2, <5>1, <5>2 DEF End
      <4> QED BY <4>1, <4>2
    <3>3. LogTypeOK'
      BY <2>1, <2>2, <3>1 DEF FileInv, LogTypeOK
    <3>4. Len(log') + Len(oldLog') <= logged'.lines
      BY <2>1, <2>2, <3>1 DEF FileInv, LogTypeOK
    <3> QED BY <2>1, <2>2, <3>1, <3>2, <3>3, <3>4 DEF FileInv
  <2> QED BY <2>3, <2>4
<1>4. CASE PollLog
  <2>1. /\ watching /\ ~pass.open
        /\ pass' = [open |-> TRUE, at |-> IF Length < offset THEN 0 ELSE offset, renamed |-> FALSE]
        /\ UNCHANGED <<log, halfWritten, logged, oldLog, watching, offset, detections, attempts, banned, kept,
                       begun, disturbed>>
    BY <1>4 DEF PollLog, logFile, logMemory
  <2>2. /\ Length \in Nat /\ offset \in Nat /\ Length' = Length /\ End' = Length'
        /\ offset \in 0 .. 2 * MaxLines
    BY <2>1, Positions DEF Length, End, FileInv, LogTypeOK
  <2>3. /\ pass' \in [open : BOOLEAN, at : 0 .. 2 * MaxLines, renamed : BOOLEAN]
        /\ pass'.open /\ ~pass'.renamed /\ pass'.at <= End'
    BY <2>1, <2>2
  <2>4. oldLog = <<>>
    BY <2>1 DEF FileInv
  <2>5. LogTypeOK'
    BY <2>1, <2>3 DEF FileInv, LogTypeOK
  <2> QED BY <2>1, <2>3, <2>4, <2>5 DEF FileInv
<1>5. CASE ReadLine
  <2> DEFINE matches == IsFailure(Lines[pass.at \div 2 + 1]) /\
                          (NextText = Halves \/ Lines[pass.at \div 2 + 1] \in NextText)
  <2>1. /\ pass.open /\ pass.at < End /\ Deliver(matches)
        /\ pass' = [pass EXCEPT !.at = @ + Cardinality(NextText)]
        /\ UNCHANGED <<log, halfWritten, logged, oldLog, watching, offset, attempts, banned, kept, begun, disturbed>>
    BY <1>5 DEF ReadLine, logFile
  <2>2. pass.at + Cardinality(NextText) <= End /\ Cardinality(NextText) \in 1 .. 2 /\ pass.at \in Nat
        /\ End <= 2 * MaxLines /\ End \in Nat
    BY <2>1, ReadAdvances, Positions
  <2>3. /\ pass' \in [open : BOOLEAN, at : 0 .. 2 * MaxLines, renamed : BOOLEAN]
        /\ pass'.open /\ pass'.renamed = pass.renamed /\ pass'.at = pass.at + Cardinality(NextText)
    <3>1. pass \in [open : BOOLEAN, at : 0 .. 2 * MaxLines, renamed : BOOLEAN]
      BY DEF FileInv, LogTypeOK
    <3> QED BY <2>1, <2>2, <3>1
  <2>4. End' = End
    BY <2>1, <2>3 DEF End, Length
  <2>5. detections' \in 0 .. DetectionSlots
    <3>1. detections \in 0 .. DetectionSlots
      BY DEF FileInv, LogTypeOK
    <3> QED BY <2>1, <3>1 DEF Deliver
  <2>6. watching
    BY <2>1 DEF FileInv, LogTypeOK, NoPass
  <2>7. LogTypeOK'
    BY <2>1, <2>3, <2>5, <2>6 DEF FileInv, LogTypeOK
  <2> QED BY <2>1, <2>2, <2>3, <2>4, <2>7 DEF FileInv
<1>6. CASE ReadFails \/ EndPass
  <2>1. /\ pass.open /\ pass' = NoPass /\ oldLog' = <<>>
        /\ UNCHANGED <<log, halfWritten, logged, watching, detections, attempts, banned, kept, begun>>
    BY <1>6 DEF ReadFails, EndPass, logFile, logMemory
  <2>2. offset' \in 0 .. 2 * MaxLines /\ disturbed' \subseteq {"rotated", "recounted"}
    BY <1>6 DEF ReadFails, EndPass, StoredOffset, logMemory, FileInv, LogTypeOK
  <2>3. /\ pass' \in [open : BOOLEAN, at : 0 .. 2 * MaxLines, renamed : BOOLEAN]
        /\ ~pass'.open /\ ~pass'.renamed /\ pass'.at = 0
    BY <2>1 DEF NoPass
  <2>4. pass'.at <= End' /\ Len(log) + 0 <= logged.lines
    <3>1. Length' = Length /\ Length \in Nat /\ Len(oldLog) \in Nat /\ Len(log) \in Nat
          /\ Len(log) + Len(oldLog) <= logged.lines /\ logged.lines \in Nat
      BY <2>1, Positions DEF Length, FileInv, LogTypeOK
    <3> QED BY <2>3, <3>1 DEF End
  <2>5. watching
    BY <2>1 DEF FileInv, LogTypeOK, NoPass
  <2>6. oldLog' \in Seq(LineKinds) /\ Len(oldLog') = 0
    BY <2>1
  <2>7. LogTypeOK'
    BY <2>1, <2>2, <2>3, <2>5, <2>6 DEF FileInv, LogTypeOK
  <2> QED BY <2>1, <2>3, <2>4, <2>6, <2>7 DEF FileInv
<1>7. CASE CountDetection
  <2>1. /\ watching /\ detections > 0 /\ detections' = detections - 1
        /\ UNCHANGED <<log, halfWritten, logged, oldLog, watching, pass, offset, kept, begun, disturbed>>
    BY <1>7 DEF CountDetection, logFile
  <2>2. /\ detections \in 0 .. DetectionSlots /\ attempts \in 0 .. FailuresToBan - 1 /\ banned \in BOOLEAN
    BY DEF FileInv, LogTypeOK
  <2>3. attempts' \in 0 .. FailuresToBan - 1 /\ banned' \in BOOLEAN
    <3>1. CASE banned
      BY <1>7, <2>2, <3>1 DEF CountDetection
    <3>2. CASE ~banned
      <4>1. /\ attempts' = IF attempts + 1 >= FailuresToBan THEN 0 ELSE attempts + 1
            /\ banned' = (attempts + 1 >= FailuresToBan)
        BY <1>7, <3>2 DEF CountDetection
      <4> QED BY <2>2, <4>1
    <3> QED BY <3>1, <3>2
  <2>4. detections' \in 0 .. DetectionSlots
    BY <2>1, <2>2
  <2>5. LogTypeOK' /\ End' = End
    BY <2>1, <2>3, <2>4 DEF FileInv, LogTypeOK, End, Length
  <2> QED BY <2>1, <2>5 DEF FileInv
<1>8. CASE PersistOffsets
  <2>1. kept' \in [offset : 0 .. 2 * MaxLines, banned : BOOLEAN]
    BY <1>8 DEF PersistOffsets, SaveState, FileInv, LogTypeOK
  <2>2. UNCHANGED <<log, halfWritten, logged, oldLog, watching, pass, offset, detections, attempts, banned, begun,
                    disturbed>>
    BY <1>8 DEF PersistOffsets, logFile, logMemory
  <2>3. LogTypeOK' /\ End' = End
    BY <2>1, <2>2 DEF FileInv, LogTypeOK, End, Length
  <2> QED BY <2>2, <2>3 DEF FileInv
<1>9. CASE StopWatching \/ CrashWatching \/ TearWatching
  <2>1. kept' \in [offset : 0 .. 2 * MaxLines, banned : BOOLEAN]
    <3>1. /\ kept \in [offset : 0 .. 2 * MaxLines, banned : BOOLEAN]
          /\ offset \in 0 .. 2 * MaxLines /\ banned \in BOOLEAN
      BY DEF FileInv, LogTypeOK
    <3>2. CASE StopWatching
      BY <3>1, <3>2 DEF StopWatching, SaveState
    <3>3. CASE CrashWatching
      BY <3>1, <3>3 DEF CrashWatching
    <3>4. CASE TearWatching
      BY <3>4 DEF TearWatching, Blank
    <3> QED BY <1>9, <3>2, <3>3, <3>4
  <2>2. EndProcess
    BY <1>9 DEF StopWatching, CrashWatching, TearWatching
  <2>3. /\ watching' = FALSE /\ pass' = NoPass /\ oldLog' = <<>>
        /\ offset' = 0 /\ detections' = 0 /\ attempts' = 0 /\ banned' = FALSE
        /\ UNCHANGED <<log, halfWritten, logged, begun, disturbed>>
    BY <2>2 DEF EndProcess, logFile
  <2>4. /\ pass' \in [open : BOOLEAN, at : 0 .. 2 * MaxLines, renamed : BOOLEAN]
        /\ ~pass'.open /\ ~pass'.renamed /\ pass'.at = 0
    BY <2>3 DEF NoPass
  <2>5. pass'.at <= End' /\ Len(log) + 0 <= logged.lines
    <3>1. Length' = Length /\ Length \in Nat /\ Len(oldLog) \in Nat /\ Len(log) \in Nat
          /\ Len(log) + Len(oldLog) <= logged.lines /\ logged.lines \in Nat
      BY <2>3, Positions DEF Length, FileInv, LogTypeOK
    <3> QED BY <2>4, <3>1 DEF End
  <2>6. oldLog' \in Seq(LineKinds) /\ Len(oldLog') = 0
    BY <2>3
  <2>7. offset' \in 0 .. 2 * MaxLines /\ detections' \in 0 .. DetectionSlots /\ attempts' \in 0 .. FailuresToBan - 1
    BY <2>3
  <2>8. LogTypeOK'
    BY <2>1, <2>3, <2>4, <2>6, <2>7 DEF FileInv, LogTypeOK
  <2> QED BY <2>3, <2>4, <2>5, <2>6, <2>8 DEF FileInv
<1>10. CASE StartWatching
  <2>1. /\ ~watching /\ watching' = TRUE /\ offset' = kept.offset /\ banned' = kept.banned /\ begun' = kept.offset
        /\ UNCHANGED <<log, halfWritten, logged, oldLog, pass, detections, attempts, kept, disturbed>>
    BY <1>10 DEF StartWatching, logFile
  <2>2. LogTypeOK' /\ End' = End
    BY <2>1 DEF FileInv, LogTypeOK, End, Length
  <2> QED BY <2>1, <2>2 DEF FileInv
<1>11. CASE UNCHANGED logVars
  <2>1. LogTypeOK' /\ End' = End
    BY <1>11 DEF logVars, logFile, logMemory, FileInv, LogTypeOK, End, Length
  <2> QED BY <1>11, <2>1 DEF logVars, logFile, logMemory, FileInv
<1> QED
  BY <1>1, <1>2, <1>3, <1>4, <1>5, <1>6, <1>7, <1>8, <1>9, <1>10, <1>11 DEF LogNext
-----------------------------------------------------------------------------
(* Detections                                                              *)

\* What the count is made of are numbers.
LEMMA Numbers ==
  ASSUME FileInv
  PROVE  /\ attempts \in Nat /\ detections \in Nat /\ logged.failures \in Nat /\ Resume \in Nat
         /\ Position \in Nat /\ Unread \in Nat
         /\ Cardinality(Ahead(log, 0)) \in Nat /\ Cardinality(Ahead(log, Position)) \in Nat
         /\ Cardinality(Ahead(log, Position)) <= Cardinality(Ahead(log, 0))
         /\ Cardinality(Ahead(oldLog, pass.at)) \in Nat
<1>1. /\ log \in Seq(LineKinds) /\ oldLog \in Seq(LineKinds) /\ pass.at \in Nat /\ offset \in Nat
  BY Positions
<1>2. attempts \in Nat /\ detections \in Nat /\ logged.failures \in Nat
  BY LogNumbers DEF FileInv, LogTypeOK
<1>3. Resume \in Nat /\ Position \in Nat
  BY <1>1 DEF Resume, Position
<1>4. /\ Cardinality(Ahead(log, 0)) \in Nat /\ Cardinality(Ahead(log, Position)) \in Nat
      /\ Cardinality(Ahead(oldLog, pass.at)) \in Nat
  BY <1>1, <1>3, AheadIsFinite
<1>5. Cardinality(Ahead(log, Position)) <= Cardinality(Ahead(log, 0))
  BY <1>1, <1>3, AheadShrinks
<1> QED BY <1>2, <1>3, <1>4, <1>5 DEF Unread

\* Both hold after a step as they do before it.
NumberFacts ==
  /\ log \in Seq(LineKinds) /\ Length \in Nat /\ offset \in Nat /\ pass.at \in Nat
  /\ attempts \in Nat /\ detections \in Nat /\ logged.failures \in Nat
  /\ Position \in Nat /\ Unread \in Nat
  /\ Cardinality(Ahead(log, 0)) \in Nat /\ Cardinality(Ahead(log, Position)) \in Nat
  /\ Cardinality(Ahead(log, Position)) <= Cardinality(Ahead(log, 0))
  /\ Cardinality(Ahead(oldLog, pass.at)) \in Nat

\* The same of a state and of the next.
LEMMA NumbersHold == (FileInv => NumberFacts) /\ (FileInv' => NumberFacts')
<1>1. FileInv => NumberFacts
  BY Positions, Numbers DEF NumberFacts
<1> QED BY <1>1, PTL

\* A line that is logged adds to what is unread no more than to the failures.
LEMMA WriteCounts ==
  ASSUME FileInv, FileInv', CountInv, NEW kind \in LineKinds, NEW half \in BOOLEAN, Write(kind, half)
  PROVE  CountInv'
<1> DEFINE failed == IF IsFailure(kind) THEN 1 ELSE 0
<1>1. /\ log' = Append(log, kind) /\ halfWritten' = half /\ ~halfWritten
      /\ logged' = [lines |-> logged.lines + 1, failures |-> logged.failures + failed]
      /\ UNCHANGED <<oldLog, pass, offset, detections, attempts, banned, kept, disturbed>>
  BY DEF Write, logMemory
<1>2. log \in Seq(LineKinds) /\ Len(log) \in Nat
  BY Positions
<1>3. failed \in 0 .. 1 /\ logged'.failures = logged.failures + failed
  BY <1>1
<1>4. \A p \in Nat : Cardinality(Ahead(log', p)) <= Cardinality(Ahead(log, p)) + failed
  BY <1>1, <1>2, AheadGrows
<1>n. /\ NumberFacts /\ NumberFacts'
      /\ Unread \in Nat /\ Unread' \in Nat /\ attempts \in Nat /\ detections \in Nat
      /\ logged.failures \in Nat
      /\ Cardinality(Ahead(log, 0)) \in Nat /\ Cardinality(Ahead(log', 0)) \in Nat
      /\ Cardinality(Ahead(log, Position)) \in Nat /\ Cardinality(Ahead(log', Position')) \in Nat
      /\ Cardinality(Ahead(oldLog, pass.at)) \in Nat
  BY NumbersHold DEF NumberFacts
<1> HIDE DEF failed
<1>5. Position <= Position'
  <2>1. Length <= Length'
    BY <1>1, <1>2 DEF Length
  <2>2. Length \in Nat /\ Length' \in Nat /\ offset \in Nat /\ pass.at \in Nat
    BY NumbersHold DEF NumberFacts
  <2> QED BY <1>1, <2>1, <2>2 DEF Position, Resume
<1>6. Cardinality(Ahead(log', 0)) <= Cardinality(Ahead(log, 0)) + failed
  BY <1>4
<1>7. Cardinality(Ahead(log', Position')) <= Cardinality(Ahead(log, Position)) + failed
  <2>1. Position \in Nat /\ Position' \in Nat
    BY NumbersHold DEF NumberFacts
  <2>2. log' \in Seq(LineKinds)
    BY NumbersHold DEF NumberFacts
  <2>3. Cardinality(Ahead(log', Position')) <= Cardinality(Ahead(log', Position))
    BY <1>5, <2>1, <2>2, AheadShrinks
  <2>4. Cardinality(Ahead(log', Position)) <= Cardinality(Ahead(log, Position)) + failed
    BY <1>4, <2>1
  <2>5. Cardinality(Ahead(log', Position)) \in Nat
    BY <2>1, <2>2, AheadIsFinite
  <2> QED BY <1>3, <1>n, <2>3, <2>4, <2>5
<1>8. Unread' <= Unread + failed
  <2>1. CASE pass.renamed
    <3>1. /\ Unread = Cardinality(Ahead(oldLog, pass.at)) + Cardinality(Ahead(log, 0))
          /\ Unread' = Cardinality(Ahead(oldLog, pass.at)) + Cardinality(Ahead(log', 0))
      BY <1>1, <2>1 DEF Unread
    <3> QED BY <1>3, <1>6, <1>n, <3>1
  <2>2. CASE ~pass.renamed
    BY <1>1, <1>7, <2>2 DEF Unread
  <2> QED BY <2>1, <2>2
<1>9. /\ Cardinality(Ahead(log', 0)) <= logged'.failures
      /\ ~Recounted' => attempts' + detections' + Unread' <= logged'.failures
  BY <1>1, <1>3, <1>6, <1>8, <1>n DEF CountInv, Recounted
<1>10. logged.failures >= FailuresToBan => logged'.failures >= FailuresToBan
  BY <1>3, <1>n, LogNumbers
<1> QED BY <1>1, <1>9, <1>10 DEF CountInv, Recounted

\* What is read either is detected and no longer ahead, or is not detected.
LEMMA ReadCounts == ASSUME FileInv, FileInv', CountInv, ReadLine PROVE CountInv'
<1> DEFINE h == pass.at \div 2
           n == h + 1
           kind == Lines[n]
           matches == IsFailure(kind) /\ (NextText = Halves \/ kind \in NextText)
<1>1. /\ pass.open /\ pass.at < End /\ Deliver(matches)
      /\ pass' = [pass EXCEPT !.at = @ + Cardinality(NextText)]
      /\ UNCHANGED <<log, halfWritten, logged, oldLog, offset, attempts, banned, kept, disturbed>>
  BY DEF ReadLine, logFile
<1>2. /\ n \in 1 .. Len(Lines) /\ pass.at \in Nat /\ Lines \in Seq(LineKinds) /\ Len(Lines) \in Nat
      /\ Cardinality(NextText) \in 1 .. 2
  BY <1>1, ReadAdvances, Positions
<1>3. /\ pass'.open = pass.open /\ pass'.renamed = pass.renamed
      /\ pass'.at = pass.at + Cardinality(NextText) /\ pass'.at \in Nat
  <2>1. pass \in [open : BOOLEAN, at : 0 .. 2 * MaxLines, renamed : BOOLEAN]
    BY DEF FileInv, LogTypeOK
  <2>2. pass' = [pass EXCEPT !.at = pass.at + Cardinality(NextText)]
    BY <1>1
  <2>3. pass.at + Cardinality(NextText) \in Nat
    BY <1>2
  <2> QED BY <2>1, <2>2, <2>3
<1>4. /\ Cardinality(Ahead(Lines, pass.at)) \in Nat /\ Cardinality(Ahead(Lines, pass'.at)) \in Nat
      /\ Cardinality(Ahead(Lines, pass'.at)) <= Cardinality(Ahead(Lines, pass.at))
  <2>1. pass.at <= pass'.at
    BY <1>2, <1>3
  <2> QED BY <1>2, <1>3, <2>1, AheadIsFinite, AheadShrinks
<1>5. matches => n \in Ahead(Lines, pass.at) /\ n \notin Ahead(Lines, pass'.at)
  <2> SUFFICES ASSUME matches PROVE n \in Ahead(Lines, pass.at) /\ n \notin Ahead(Lines, pass'.at)
    OBVIOUS
  <2>1. CASE NextText = Halves
    <3>1. pass.at = 2 * n - 2 /\ pass'.at = 2 * n
      BY <1>1, <1>2, <1>3, <2>1, ReadAdvances
    <3>2. IsFailure(Lines[n])
      OBVIOUS
    <3> HIDE DEF n
    <3> QED BY <1>2, <3>1, <3>2 DEF Ahead
  <2>2. CASE NextText = {"head"}
    <3>1. NextText # Halves /\ kind = "head" /\ {"head"} # {"tail"}
      <4>1. {"head"} # Halves
        BY DEF Halves
      <4> QED BY <2>2, <4>1
    <3>2. pass.at = 2 * n - 2 /\ pass'.at = 2 * n - 1
      <4>1. Cardinality(NextText) = 1
        BY <2>2, FS_Singleton
      <4>2. pass.at = 2 * h /\ h \in Nat
        BY <1>1, <1>2, <2>2, <3>1, ReadAdvances, Halved
      <4> HIDE DEF h
      <4>3. pass'.at = pass.at + 1
        BY <1>3, <4>1
      <4> QED BY <4>2, <4>3
    <3>3. IsFailure(Lines[n]) /\ Lines[n] = "head"
      BY <3>1
    <3> HIDE DEF n
    <3> QED BY <1>2, <3>2, <3>3 DEF Ahead
  <2>3. CASE NextText = {"tail"}
    <3>1. NextText # Halves /\ kind = "tail" /\ {"head"} # {"tail"}
      <4>1. {"tail"} # Halves
        BY DEF Halves
      <4> QED BY <2>3, <4>1
    <3>2. pass.at = 2 * n - 1 /\ pass'.at = 2 * n
      <4>1. Cardinality(NextText) = 1
        BY <2>3, FS_Singleton
      <4>2. pass.at = 2 * h + 1 /\ h \in Nat
        BY <1>1, <1>2, <2>3, <3>1, ReadAdvances, Halved
      <4> HIDE DEF h
      <4>3. pass'.at = pass.at + 1
        BY <1>3, <4>1
      <4> QED BY <4>2, <4>3
    <3>3. Lines[n] = "tail"
      BY <3>1
    <3> HIDE DEF n
    <3> QED BY <1>2, <3>2, <3>3 DEF Ahead
  <2> QED BY <1>1, <2>1, <2>2, <2>3, ReadAdvances
<1> HIDE DEF matches, kind, n
<1>6. matches => Cardinality(Ahead(Lines, pass'.at)) + 1 <= Cardinality(Ahead(Lines, pass.at))
  BY <1>2, <1>3, <1>5, AheadIsRead
<1>7. detections' = (IF matches THEN detections + 1 ELSE detections)
  BY <1>1 DEF Deliver
<1>8. detections' + Cardinality(Ahead(Lines, pass'.at)) <= detections + Cardinality(Ahead(Lines, pass.at))
  BY <1>4, <1>6, <1>7, Numbers
<1>9. detections' + Unread' <= detections + Unread
  <2>1. CASE pass.renamed
    <3>1. Lines = oldLog
      BY <2>1 DEF Lines
    <3>2. Unread = Cardinality(Ahead(Lines, pass.at)) + Cardinality(Ahead(log, 0))
      BY <2>1, <3>1 DEF Unread
    <3>3. Unread' = Cardinality(Ahead(Lines, pass'.at)) + Cardinality(Ahead(log, 0))
      BY <1>1, <1>3, <2>1, <3>1 DEF Unread
    <3>4. Cardinality(Ahead(log, 0)) \in Nat /\ detections \in Nat /\ detections' \in Nat
      BY NumbersHold DEF NumberFacts
    <3> QED BY <1>4, <1>8, <3>2, <3>3, <3>4
  <2>2. CASE ~pass.renamed
    <3>1. Lines = log
      BY <2>2 DEF Lines
    <3>2. Unread = Cardinality(Ahead(Lines, pass.at))
      BY <1>1, <2>2, <3>1 DEF Unread, Position
    <3>3. Unread' = Cardinality(Ahead(Lines, pass'.at))
      BY <1>1, <1>3, <2>2, <3>1 DEF Unread, Position
    <3> QED BY <1>8, <3>2, <3>3
  <2> QED BY <2>1, <2>2
<1>10. /\ attempts \in Nat /\ detections \in Nat /\ detections' \in Nat /\ logged.failures \in Nat
       /\ Unread \in Nat /\ Unread' \in Nat
  BY NumbersHold DEF NumberFacts
<1>11. ~Recounted' => attempts' + detections' + Unread' <= logged'.failures
  BY <1>1, <1>9, <1>10 DEF CountInv, Recounted
<1> QED BY <1>1, <1>11 DEF CountInv, Recounted

\* A detection that is counted leaves the channel.
LEMMA Moved ==
  ASSUME NEW a \in Nat, NEW b \in Nat, NEW d \in Nat, NEW e \in Nat, e = d - 1, b <= a + 1,
         NEW u \in Nat, NEW f \in Nat
  PROVE  b + e <= a + d /\ (a + d + u <= f => b + e + u <= f)
OBVIOUS

\* Nothing is logged and nothing detected.
LEMMA CountInit == LogInit => CountInv
<1> SUFFICES ASSUME LogInit PROVE CountInv
  OBVIOUS
<1>1. /\ log = <<>> /\ oldLog = <<>> /\ ~pass.renamed /\ ~pass.open /\ pass.at = 0 /\ offset = 0
      /\ ~halfWritten /\ attempts = 0 /\ detections = 0 /\ ~banned /\ ~kept.banned /\ logged.failures = 0
  BY DEF LogInit, NoPass, Blank
<1>2. Length = 0 /\ Position = 0
  BY <1>1 DEF Length, Position, Resume
<1> QED BY <1>1, <1>2, NothingAhead DEF CountInv, Unread

\* Every step keeps the count of what was and may be detected.
LEMMA CountStep == FileInv /\ FileInv' /\ CountInv /\ [LogNext]_logVars => CountInv'
<1> SUFFICES ASSUME FileInv, FileInv', CountInv, [LogNext]_logVars PROVE CountInv'
  OBVIOUS
<1>n. /\ Unread \in Nat /\ Unread' \in Nat /\ attempts \in Nat /\ detections \in Nat
      /\ attempts' \in Nat /\ detections' \in Nat /\ logged.failures \in Nat
      /\ Position \in Nat /\ Position' \in Nat /\ Length \in Nat /\ Length' \in Nat /\ offset \in Nat
      /\ pass.at \in Nat
      /\ Cardinality(Ahead(log, 0)) \in Nat
      /\ Cardinality(Ahead(log, Position)) \in Nat /\ Cardinality(Ahead(log', Position')) \in Nat
      /\ Cardinality(Ahead(log, Position)) <= Cardinality(Ahead(log, 0))
      /\ Cardinality(Ahead(log', Position')) <= Cardinality(Ahead(log', 0))
      /\ Cardinality(Ahead(oldLog, pass.at)) \in Nat /\ log \in Seq(LineKinds)
  BY NumbersHold DEF NumberFacts
<1>c. /\ Cardinality(Ahead(log, 0)) <= logged.failures
      /\ ~Recounted => attempts + detections + Unread <= logged.failures
      /\ banned \/ kept.banned => logged.failures >= FailuresToBan \/ Recounted
  BY DEF CountInv
<1>1. ASSUME NEW kind \in LineKinds, NEW half \in BOOLEAN, Write(kind, half) PROVE CountInv'
  BY <1>1, WriteCounts
<1>2. CASE WriteTail
  <2>1. /\ UNCHANGED <<log, logged, oldLog, pass, offset, detections, attempts, banned, kept, disturbed>>
        /\ halfWritten /\ ~halfWritten'
    BY <1>2 DEF WriteTail, logMemory
  <2>2. Length <= Length'
    BY <1>n, <2>1 DEF Length
  <2>3. Position <= Position'
    BY <1>n, <2>1, <2>2 DEF Position, Resume
  <2>4. Cardinality(Ahead(log, Position')) <= Cardinality(Ahead(log, Position))
    BY <1>n, <2>3, AheadShrinks
  <2>5. Unread' <= Unread
    BY <1>n, <2>1, <2>4 DEF Unread
  <2> QED BY <1>n, <1>c, <2>1, <2>5 DEF CountInv, Recounted
<1>3. CASE Rotate
  <2>1. /\ log' = <<>> /\ disturbed' = disturbed \cup {"rotated"}
        /\ UNCHANGED <<logged, offset, detections, attempts, banned, kept>>
    BY <1>3 DEF Rotate, logMemory
  <2>2. Cardinality(Ahead(log', 0)) = 0 /\ Cardinality(Ahead(log', Position')) = 0
    BY <1>n, <2>1, NothingAhead
  <2>3. Unread' <= Unread
    <3>1. CASE pass.open /\ ~pass.renamed
      <4>1. oldLog' = log /\ pass'.renamed /\ pass'.at = pass.at
        BY <1>3, <3>1 DEF Rotate, FileInv, LogTypeOK
      <4>2. Unread = Cardinality(Ahead(log, pass.at))
        BY <3>1 DEF Unread, Position
      <4>3. Unread' = Cardinality(Ahead(log, pass.at)) + 0
        BY <2>2, <4>1 DEF Unread
      <4> QED BY <1>n, <4>2, <4>3
    <3>2. CASE ~(pass.open /\ ~pass.renamed)
      <4>1. UNCHANGED <<oldLog, pass>>
        BY <1>3, <3>2 DEF Rotate
      <4> QED BY <1>n, <2>2, <4>1 DEF Unread
    <3> QED BY <3>1, <3>2
  <2>4. Recounted' = Recounted
    BY <2>1 DEF Recounted
  <2> QED BY <1>n, <1>c, <2>1, <2>2, <2>3, <2>4 DEF CountInv
<1>4. CASE PollLog
  <2>1. /\ ~pass.open /\ pass'.open /\ ~pass'.renamed /\ pass'.at = Resume
        /\ UNCHANGED <<log, halfWritten, logged, offset, detections, attempts, banned, kept, disturbed>>
    BY <1>4 DEF PollLog, logFile, logMemory, Resume
  <2>2. Unread' = Unread
    BY <2>1 DEF Unread, Position, FileInv
  <2> QED BY <1>c, <2>1, <2>2 DEF CountInv, Recounted
<1>5. CASE ReadLine
  BY <1>5, ReadCounts
<1>6. CASE ReadFails
  BY <1>6, <1>c DEF ReadFails, logFile, logMemory, CountInv, Recounted
<1>7. CASE EndPass
  <2>1. /\ pass.open /\ pass.at >= End /\ offset' = pass.at /\ ~pass'.open /\ ~pass'.renamed
        /\ UNCHANGED <<log, halfWritten, logged, detections, attempts, banned, kept, disturbed>>
    BY <1>7 DEF EndPass, StoredOffset, NoPass, logFile
  <2>2. Unread' = Cardinality(Ahead(log, Position'))
    BY <2>1 DEF Unread
  <2>3. Unread' <= Unread
    <3>1. CASE pass.renamed
      BY <1>n, <2>1, <2>2, <3>1 DEF Unread
    <3>2. CASE ~pass.renamed
      <4>1. pass.at = Length /\ Length' = Length
        BY <1>n, <2>1, <3>2 DEF FileInv, End, Length
      <4>2. Position' = pass.at
        BY <1>n, <2>1, <4>1 DEF Position, Resume
      <4> QED BY <1>n, <2>1, <2>2, <3>2, <4>2 DEF Unread, Position
    <3> QED BY <3>1, <3>2
  <2> QED BY <1>n, <1>c, <2>1, <2>3 DEF CountInv, Recounted
<1>8. CASE CountDetection
  <2>1. /\ detections > 0 /\ detections' = detections - 1
        /\ UNCHANGED <<log, halfWritten, logged, oldLog, pass, offset, kept, disturbed>>
        /\ IF banned THEN UNCHANGED <<attempts, banned>>
           ELSE /\ attempts' = IF attempts + 1 >= FailuresToBan THEN 0 ELSE attempts + 1
                /\ banned' = (attempts + 1 >= FailuresToBan)
    BY <1>8 DEF CountDetection, logFile
  <2>2. Unread' = Unread
    BY <2>1 DEF Unread, Position, Resume, Length
  <2>3. attempts' <= attempts + 1
    BY <1>n, <2>1
  <2>4. banned' => banned \/ attempts + 1 >= FailuresToBan
    BY <2>1
  <2>5. attempts + 1 >= FailuresToBan /\ ~Recounted => logged.failures >= FailuresToBan
    BY <1>n, <1>c, <2>1, LogNumbers
  <2>6. ~Recounted => attempts' + detections' + Unread' <= logged.failures
    <3>1. /\ attempts \in Nat /\ attempts' \in Nat /\ detections \in Nat /\ detections' \in Nat
          /\ Unread \in Nat /\ logged.failures \in Nat /\ detections' = detections - 1
      BY <1>n, <2>1
    <3>2. attempts + detections + Unread <= logged.failures
            => attempts' + detections' + Unread <= logged.failures
      BY <2>3, <3>1, Moved
    <3> QED BY <1>c, <2>2, <3>2
  <2> QED BY <1>c, <2>1, <2>4, <2>5, <2>6 DEF CountInv, Recounted
<1>9. CASE PersistOffsets
  <2>1. /\ UNCHANGED <<log, halfWritten, logged, oldLog, pass, offset, detections, attempts, banned, disturbed>>
        /\ kept'.banned = banned
    BY <1>9 DEF PersistOffsets, SaveState, logFile, logMemory
  <2>2. Unread' = Unread
    BY <2>1 DEF Unread, Position, Resume, Length
  <2> QED BY <1>c, <2>1, <2>2 DEF CountInv, Recounted
<1>10. CASE StopWatching \/ CrashWatching \/ TearWatching
  <2>1. EndProcess
    BY <1>10 DEF StopWatching, CrashWatching, TearWatching
  <2>2. /\ ~pass'.renamed /\ attempts' = 0 /\ detections' = 0 /\ ~banned'
        /\ UNCHANGED <<log, halfWritten, logged, disturbed>>
    BY <2>1 DEF EndProcess, NoPass, logFile
  <2>3. kept'.banned => banned \/ kept.banned
    BY <1>10 DEF StopWatching, CrashWatching, TearWatching, SaveState, Blank
  <2>4. Unread' <= Cardinality(Ahead(log, 0))
    BY <1>n, <2>2 DEF Unread
  <2> QED BY <1>n, <1>c, <2>2, <2>3, <2>4 DEF CountInv, Recounted
<1>11. CASE StartWatching
  <2>1. /\ ~watching /\ banned' = kept.banned
        /\ UNCHANGED <<log, halfWritten, logged, pass, detections, attempts, kept, disturbed>>
    BY <1>11 DEF StartWatching, logFile
  <2>2. pass = NoPass /\ detections = 0 /\ attempts = 0
    BY <2>1 DEF FileInv, LogTypeOK
  <2>3. Unread' <= Cardinality(Ahead(log, 0))
    BY <1>n, <2>1, <2>2 DEF Unread, NoPass
  <2> QED BY <1>n, <1>c, <2>1, <2>2, <2>3 DEF CountInv, Recounted
<1>12. CASE UNCHANGED logVars
  <2>1. Unread' = Unread
    BY <1>12 DEF logVars, logFile, logMemory, Unread, Position, Resume, Length
  <2> QED BY <1>12, <1>c, <2>1 DEF logVars, logFile, logMemory, CountInv, Recounted
<1> QED
  BY <1>1, <1>2, <1>3, <1>4, <1>5, <1>6, <1>7, <1>8, <1>9, <1>10, <1>11, <1>12 DEF LogNext

\* The watch keeps its files and its count.
THEOREM WatchSafe == LogSpec => [](FileInv /\ CountInv)
<1>1. LogInit => FileInv /\ CountInv
  BY FileInit, CountInit
<1>2. FileInv /\ CountInv /\ [LogNext]_logVars => FileInv' /\ CountInv'
  BY FileStep, CountStep
<1> QED BY <1>1, <1>2, PTL DEF LogSpec

\* LogTypeOK: for any lines, halves, rotations, crashes and restarts the state
\* of the watch keeps its type, its offsets stay within what was ever logged,
\* and a process that does not run holds none.
THEOREM LogTypes == LogSpec => []LogTypeOK
<1>1. FileInv => LogTypeOK
  BY DEF FileInv
<1> QED BY <1>1, WatchSafe, PTL

\* BanNeedsFailures: an address is banned only after max_retry failures of its
\* own were logged, unless a pass ended at text that is not UTF-8.
THEOREM BansNeedFailures == LogSpec => []BanNeedsFailures
<1>1. CountInv => BanNeedsFailures
  BY DEF CountInv, Recounted, BanNeedsFailures
<1> QED BY <1>1, WatchSafe, PTL
-----------------------------------------------------------------------------
(* The loader and the watch                                                *)


\* What is killed is the loader or the watch; a step of one leaves the other alone.
LEMMA EachKilled == CrashesSpec => Spec /\ LogSpec
<1>1. CrashesInit => Init /\ LogInit
  BY DEF CrashesInit
<1>2. [CrashesNext]_<<killed, vars, logVars>> => [Next]_vars /\ [LogNext]_logVars
  BY DEF CrashesNext
<1> QED BY <1>1, <1>2, PTL DEF CrashesSpec, Spec, LogSpec

\* CrashesTypeOK: killed at any step, the loader and the watch keep their types.
THEOREM CrashesTypes == ASSUME Reliable PROVE CrashesSpec => []CrashesTypeOK
<1>1. Spec => []TypeOK
  BY LoaderTypes
<1> QED BY <1>1, EachKilled, LogTypes, PTL DEF CrashesTypeOK
=============================================================================
