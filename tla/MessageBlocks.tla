---------------------------- MODULE MessageBlocks -----------------------------
(***************************************************************************)
(* What a block of field lines means, read as a whole and not line by      *)
(* line: the reference MessageBuilder is compared with.                    *)
(***************************************************************************)
EXTENDS FieldParser, SequencesExt

IsField(line, name) == ~ IsComment(line) /\ FieldName(line) = <<name>>

(* The value of the last of the wanted lines of block; wanted is a set of  *)
(* positions.                                                              *)
LastValue(block, wanted, default) ==
  IF wanted = {} THEN default ELSE FieldValue(block[Max(wanted)])

(* The values of the wanted lines among the first n, in order, with an LF  *)
(* between neighbours, for each n.                                         *)
AddValue(block, wanted, joined, n) ==
  IF n \notin wanted THEN joined
  ELSE IF n = Min(wanted) THEN FieldValue(block[n])
  ELSE joined \o <<LF>> \o FieldValue(block[n])

JoinedPrefixes(block, wanted) ==
  LET joined[n \in 0 .. Len(block)] ==
        IF n = 0 THEN <<>> ELSE AddValue(block, wanted, joined[n - 1], n)
  IN  joined

JoinedValues(block, wanted) == JoinedPrefixes(block, wanted)[Len(block)]

EventLines(block) ==
  {i \in 1 .. Len(block) :
     IsField(block[i], "event") /\ FieldValue(block[i]) # <<"message">>}
DataLines(block) ==
  {i \in 1 .. Len(block) : IsField(block[i], "data") /\ HasColon(block[i])}
IdLines(block) == {i \in 1 .. Len(block) : IsField(block[i], "id")}
RetryLines(block) ==
  {i \in 1 .. Len(block) :
     IsField(block[i], "retry") /\ ParseRetryValue(FieldValue(block[i])) # None}

(* The data is that of the lines with a colon, in order; the event is the  *)
(* last that is not the default's name; a retry that is not a number does  *)
(* not count.                                                              *)
Interpret(block) ==
  [event |-> LastValue(block, EventLines(block), <<"message">>),
   data |-> JoinedValues(block, DataLines(block)),
   id |-> LastValue(block, IdLines(block), None),
   retry |-> ParseRetryValue(LastValue(block, RetryLines(block), <<>>))]

(* The documented reading of data (sse_parser.hpp:495): a line "data"      *)
(* without a colon is a field with an empty value, so it counts as well.   *)
DocumentedData(block) ==
  JoinedValues(block, {i \in 1 .. Len(block) : IsField(block[i], "data")})

--------------------------------------------------------------------------------
(* A whole text, however it was cut into chunks.                           *)

(* LF, CRLF and CR end a line; the LF of a CRLF does not end another.      *)
EndsLine(s, i) ==
  s[i] \in {CR, LF} /\ ~ (i > 1 /\ s[i - 1] = CR /\ s[i] = LF)

(* Where the terminator before position i ends, 0 if there is none.        *)
TerminatorBefore(s, i) == Max({0} \cup {j \in 1 .. i - 1 : s[j] \in {CR, LF}})

(* The complete lines among the first n tokens of s, for each n.           *)
AddLine(s, lines, n) ==
  IF EndsLine(s, n) THEN Append(lines, SubSeq(s, TerminatorBefore(s, n) + 1, n - 1))
  ELSE lines

LinePrefixes(s) ==
  LET lines[n \in 0 .. Len(s)] ==
        IF n = 0 THEN <<>> ELSE AddLine(s, lines[n - 1], n)
  IN  lines

(* The complete lines of s.                                                *)
LinesOf(s) == LinePrefixes(s)[Len(s)]

(* The last of the first n lines that is empty, 0 if there is none, and    *)
(* the lines after it.                                                     *)
LastEmpty(lines, n) == Max({0} \cup {j \in 1 .. n : lines[j] = <<>>})
BlockAt(lines, n) == SubSeq(lines, LastEmpty(lines, n) + 1, n)

(* The messages of the first n lines, one for each empty line, for each n. *)
AddMessage(lines, messages, n) ==
  IF lines[n] = <<>> THEN Append(messages, Interpret(BlockAt(lines, n - 1)))
  ELSE messages

MessagePrefixes(lines) ==
  LET messages[n \in 0 .. Len(lines)] ==
        IF n = 0 THEN <<>> ELSE AddMessage(lines, messages[n - 1], n)
  IN  messages

(* The messages of s, and the lines after the last of them.                *)
MessagesIn(lines) == MessagePrefixes(lines)[Len(lines)]
MessagesOf(s) == MessagesIn(LinesOf(s))
OpenBlock(s) == BlockAt(LinesOf(s), Len(LinesOf(s)))

================================================================================
