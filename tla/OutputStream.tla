---------------------------- MODULE OutputStream ----------------------------
(***************************************************************************)
(* Finding the outputs of a phase in the log of its pod                    *)
(* (pkg/output/stream.go): LogAndParse reads the log in chunks, line by    *)
(* line and never more than the buffer holds, and takes what follows the   *)
(* separator in a line for an output.  A log is a sequence of letters; the *)
(* letter "n" ends a line.                                                 *)
(***************************************************************************)
EXTENDS Naturals, Sequences
LOCAL INSTANCE SequencesExt

CONSTANTS
  Letters,        \* the letters of a log besides "n"
  PhaseOpString,  \* the separator
  BufferSize,     \* bufferSize64k
  MaxLog          \* a log has at most so many letters

VARIABLES
  log,      \* the whole log
  unread,   \* what has not been read of it
  scan,     \* scanState
  outputs,  \* what was handed to UnmarshalOutput
  scanning  \* "no", "yes" or "done"

outputVars == <<log, unread, scan, outputs, scanning>>

InitState == [outputBuf |-> << >>, readingOutput |-> FALSE, separatorSuffix |-> << >>]
ReadPhaseOutputState(buf) == [InitState EXCEPT !.outputBuf = buf, !.readingOutput = TRUE]
CheckSeparatorSuffixState(suffix) == [InitState EXCEPT !.separatorSuffix = suffix]

OutputInit ==
  /\ log = << >> /\ unread = << >> /\ scan = InitState /\ outputs = << >> /\ scanning = "no"

\* The first place of word in seq, or 0.
Index(seq, word) ==
  LET places == {i \in 1 .. Len(seq) : IsPrefix(word, SubSeq(seq, i, Len(seq)))}
  IN IF places = {} THEN 0 ELSE CHOOSE i \in places : \A j \in places : i <= j

\* bufio.Reader.ReadLine: a line without its end, or as much of it as fills the
\* buffer, and the letters that are used up.
ReadLine(rest) ==
  LET end == Index(rest, <<"n">>) IN
  IF end # 0 /\ end <= BufferSize
    THEN [line |-> SubSeq(rest, 1, end - 1), isPrefix |-> FALSE, length |-> end]
  ELSE IF Len(rest) >= BufferSize
    THEN [line |-> SubSeq(rest, 1, BufferSize), isPrefix |-> TRUE, length |-> BufferSize]
  ELSE [line |-> rest, isPrefix |-> FALSE, length |-> Len(rest)]

\* A fault: a separator that is split is not looked for.
ignoreSplitSeparator(line) == << >>

\* The rest of the separator, if the line ends with the beginning of it: the
\* shortest beginning is looked for first.
checkSplitSeparator(line) ==
  LET begins == {i \in 1 .. Len(PhaseOpString) - 1 : IsSuffix(SubSeq(PhaseOpString, 1, i), line)}
  IN IF begins = {} THEN << >>
     ELSE LET i == CHOOSE i \in begins : \A j \in begins : i <= j
          IN SubSeq(PhaseOpString, i + 1, Len(PhaseOpString))

\* LogAndParse drops an output without content.
Deliver(content) == IF content = << >> THEN outputs ELSE Append(outputs, content)

captureOutputContent(line, isPrefix, start) ==
  LET content == SubSeq(line, start, Len(line)) IN
  IF isPrefix THEN scan' = ReadPhaseOutputState(content) /\ UNCHANGED outputs
              ELSE scan' = InitState /\ outputs' = Deliver(content)

handleOutput(line, isPrefix) ==
  IF isPrefix THEN scan' = ReadPhaseOutputState(scan.outputBuf \o line) /\ UNCHANGED outputs
              ELSE scan' = InitState /\ outputs' = Deliver(scan.outputBuf \o line)

handleLog(line, isPrefix) ==
  LET i == Index(line, PhaseOpString) IN
  IF i = 0 THEN scan' = CheckSeparatorSuffixState(checkSplitSeparator(line)) /\ UNCHANGED outputs
           ELSE captureOutputContent(line, isPrefix, i + Len(PhaseOpString))

handleSeparatorSuffix(line, isPrefix) ==
  IF IsPrefix(scan.separatorSuffix, line)
  THEN captureOutputContent(line, isPrefix, Len(scan.separatorSuffix) + 1)
  ELSE handleLog(line, isPrefix)

\* One round of splitLines.
splitLines ==
  /\ scanning = "yes"
  /\ IF unread = << >> THEN scanning' = "done" /\ UNCHANGED <<unread, scan, outputs>>
     ELSE LET chunk == ReadLine(unread) IN
       /\ unread' = SubSeq(unread, chunk.length + 1, Len(unread))
       /\ IF chunk.line = << >> THEN UNCHANGED <<scan, outputs>>
          ELSE IF scan.readingOutput THEN handleOutput(chunk.line, chunk.isPrefix)
          ELSE IF scan.separatorSuffix # << >> THEN handleSeparatorSuffix(chunk.line, chunk.isPrefix)
          ELSE handleLog(chunk.line, chunk.isPrefix)
       /\ UNCHANGED scanning
  /\ UNCHANGED log

\* The pod writes its log.
WriteLog ==
  /\ scanning = "no" /\ Len(log) < MaxLog
  /\ \E letter \in Letters \cup {"n"} : log' = Append(log, letter)
  /\ UNCHANGED <<unread, scan, outputs, scanning>>

OpenLog ==
  /\ scanning = "no" /\ scanning' = "yes" /\ unread' = log
  /\ UNCHANGED <<log, scan, outputs>>

OutputNext == WriteLog \/ OpenLog \/ splitLines

---------------------------------------------------------------------------
(* The lines of a log, and what is wanted of it. *)

Ends == {i \in 1 .. Len(log) : log[i] = "n"}
Begins == {1} \cup {i + 1 : i \in Ends}
LineAt(i) == LET ends == {j \in Ends \cup {Len(log) + 1} : j >= i}
             IN SubSeq(log, i, (CHOOSE j \in ends : \A k \in ends : j <= k) - 1)

\* The text after the separator in a line, or nothing.
OutputOf(line) == LET i == Index(line, PhaseOpString)
                  IN IF i = 0 THEN << >> ELSE SubSeq(line, i + Len(PhaseOpString), Len(line))
OutputLines == SetToSortSeq({i \in Begins : OutputOf(LineAt(i)) # << >>}, <)

\* Every line with an output was found, in the order of the log, and nothing else.
OutputsAreFound ==
  outputs = [k \in DOMAIN OutputLines |-> OutputOf(LineAt(OutputLines[k]))]

\* A line ends in the beginning of a separator, where the next line may be
\* taken for its end.
Dangling ==
  \E i \in Begins, k \in 1 .. Len(PhaseOpString) - 1 :
    IsSuffix(SubSeq(PhaseOpString, 1, k), LineAt(i))

\* A line with a separator fills the buffer to the last letter, so that no
\* letter of it remains for a last chunk.
FillsBuffer ==
  \E i \in Begins : Index(LineAt(i), PhaseOpString) # 0 /\ Len(LineAt(i)) % BufferSize = 0

\* After how many of its letters the separator of a line is split between two
\* chunks; 0 if it is not.
SplitAfter(line) ==
  LET i == Index(line, PhaseOpString)
      n == BufferSize - ((i - 1) % BufferSize)
  IN IF i # 0 /\ n < Len(PhaseOpString) THEN n ELSE 0

\* The first n letters of the separator end in a shorter beginning of it: the
\* shorter one is found.
Ambiguous(n) ==
  \E k \in 1 .. n - 1 : IsSuffix(SubSeq(PhaseOpString, 1, k), SubSeq(PhaseOpString, 1, n))

\* LogAndParse finds exactly the outputs of the log, in their order and
\* complete, in lines of any length, also when the separator is split between
\* chunks (the "corner case" that checkSplitSeparator is for).  It does not where
\* a line ends in the beginning of a separator, where a line with a separator
\* fills the buffer, and where the part before the split is ambiguous: so it is
\* at five places of "###Phase-output###:", after the second and the third "#"
\* and after each of the last three.
OutputsOfCleanLogs ==
  /\ scanning = "done" /\ ~Dangling /\ ~FillsBuffer
  /\ \A i \in Begins : ~Ambiguous(SplitAfter(LineAt(i)))
  => OutputsAreFound

=============================================================================
