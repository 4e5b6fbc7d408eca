-------------------------------- MODULE Buffer --------------------------------
(***************************************************************************)
(* sse::Buffer: a string, a read position and a size limit.  Consumed      *)
(* bytes stay in buffer_ until an append that does not fit compacts it.    *)
(* Positions are the code's own, counted from 0: the byte at position i is *)
(* buffer_[i + 1].                                                         *)
(***************************************************************************)
EXTENDS Naturals, Sequences

CONSTANTS
  Byte,      \* the alphabet
  CR, LF,    \* the two bytes that end lines
  Chunks,    \* what append may be given
  MaxSizes,  \* the limits the constructor and set_max_size may be given
  None       \* std::nullopt

ASSUME BufferAssumption ==
  /\ CR \in Byte
  /\ LF \in Byte
  /\ CR # LF
  /\ Chunks \subseteq Seq(Byte)
  /\ MaxSizes \subseteq Nat

VARIABLES
  buffer_,
  read_pos_,
  max_size_,
  ret        \* what the last call returned

vars == <<buffer_, read_pos_, max_size_, ret>>

EOL == {CR, LF}

Results ==
       [call : {"none"}]
  \cup [call : {"append"}, err : {"success", "buffer_overflow"}]
  \cup [call : {"read_line"}, line : Seq(Byte) \cup {None}]

(* The one type invariant.  The read position never leaves the string.     *)
TypeOK ==
  /\ buffer_ \in Seq(Byte)
  /\ read_pos_ \in 0 .. Len(buffer_)
  /\ max_size_ \in Nat
  /\ ret \in Results

Init ==
  /\ buffer_ = <<>>
  /\ read_pos_ = 0
  /\ max_size_ \in MaxSizes
  /\ ret = [call |-> "none"]

--------------------------------------------------------------------------------
(* Queries.  view() and empty() speak of the whole string, read or not.    *)

Size == Len(buffer_)
Empty == buffer_ = <<>>
View == buffer_
Unread == SubSeq(buffer_, read_pos_ + 1, Len(buffer_))

(* find_line_end: the first CR or LF at or after start; it is npos when    *)
(* LineEnds(start) is empty.                                               *)
LineEnds(start) == {i \in start .. Len(buffer_) - 1 : buffer_[i + 1] \in EOL}
FindLineEnd(start) ==
  CHOOSE i \in LineEnds(start) : \A j \in LineEnds(start) : i <= j

--------------------------------------------------------------------------------
(* Slips the operators below could contain; each breaks a property.        *)

FitsOneTooMany(content, chunk) == Len(content) + Len(chunk) <= max_size_ + 1
FitsBeforeCompaction(content, chunk) == Len(buffer_) + Len(chunk) <= max_size_
CompactKeepsReadPos == buffer_' = Unread /\ UNCHANGED read_pos_
AfterTerminatorSplitsCRLF(line_end) == line_end + 1
ScanFromStart ==
  LET scan[pos \in 0 .. Len(buffer_)] ==
        /\ LineEnds(pos) # {}
        /\ FindLineEnd(pos) = pos \/ scan[FindLineEnd(pos) + 1]
  IN  scan[0]
ScanStopsAtFirstLine ==
  LineEnds(read_pos_) # {} /\ FindLineEnd(read_pos_) = read_pos_

--------------------------------------------------------------------------------
(* has_complete_message.  The scan steps over an LF but not over a CR, so  *)
(* the CR that ends a line is met again as if it were an empty line.       *)
HasCompleteMessage ==
  LET scan[pos \in 0 .. Len(buffer_)] ==
        /\ LineEnds(pos) # {}
        /\ LET line_end == FindLineEnd(pos)
           IN  \/ line_end = pos
               \/ line_end = pos + 1 /\ buffer_[pos + 1] = CR
               \/ scan[IF buffer_[line_end + 1] = LF
                         THEN line_end + 1 ELSE line_end]
  IN  scan[read_pos_]

(* Operations.                                                             *)

Fits(content, chunk) == Len(content) + Len(chunk) <= max_size_

Compact == buffer_' = Unread /\ read_pos_' = 0

(* append: compaction happens only when the chunk does not fit, and stays  *)
(* done when the chunk is refused all the same.                            *)
AppendChunk(chunk) ==
  /\ UNCHANGED max_size_
  /\ \/ /\ chunk = <<>> \/ Fits(buffer_, chunk)
        /\ buffer_' = buffer_ \o chunk
        /\ UNCHANGED read_pos_
        /\ ret' = [call |-> "append", err |-> "success"]
     \/ /\ chunk # <<>>
        /\ ~ Fits(buffer_, chunk)
        /\ Fits(Unread, chunk)
        /\ buffer_' = Unread \o chunk
        /\ read_pos_' = 0
        /\ ret' = [call |-> "append", err |-> "success"]
     \/ /\ chunk # <<>>
        /\ ~ Fits(buffer_, chunk)
        /\ ~ Fits(Unread, chunk)
        /\ Compact
        /\ ret' = [call |-> "append", err |-> "buffer_overflow"]

(* Where reading resumes after the terminator at line_end.  A CR that is   *)
(* the last byte so far is taken as a whole terminator.                    *)
AfterTerminator(line_end) ==
  IF /\ buffer_[line_end + 1] = CR
     /\ line_end + 1 < Len(buffer_)
     /\ buffer_[line_end + 2] = LF
  THEN line_end + 2
  ELSE line_end + 1

(* The length left once the CRs and LFs at the end of line are cut off.    *)
TrimmedLen(line) ==
  CHOOSE n \in 0 .. Len(line) :
    /\ n = 0 \/ line[n] \notin EOL
    /\ \A i \in n + 1 .. Len(line) : line[i] \in EOL

RawLine == SubSeq(buffer_, read_pos_ + 1, FindLineEnd(read_pos_))

ReadLine ==
  /\ UNCHANGED <<buffer_, max_size_>>
  /\ \/ /\ LineEnds(read_pos_) = {}
        /\ UNCHANGED read_pos_
        /\ ret' = [call |-> "read_line", line |-> None]
     \/ /\ LineEnds(read_pos_) # {}
        /\ read_pos_' = AfterTerminator(FindLineEnd(read_pos_))
        /\ ret' = [call |-> "read_line",
                   line |-> SubSeq(RawLine, 1, TrimmedLen(RawLine))]

Clear ==
  /\ buffer_' = <<>>
  /\ read_pos_' = 0
  /\ ret' = [call |-> "none"]
  /\ UNCHANGED max_size_

SetMaxSize(n) ==
  /\ max_size_' = n
  /\ ret' = [call |-> "none"]
  /\ UNCHANGED <<buffer_, read_pos_>>

Next ==
  \/ \E chunk \in Chunks : AppendChunk(chunk)
  \/ ReadLine
  \/ Clear
  \/ \E n \in MaxSizes : SetMaxSize(n)

Spec == Init /\ [][Next]_vars

--------------------------------------------------------------------------------
(* Properties.                                                             *)

(* Where the string ends up after compaction, refusal and consumption is   *)
(* invisible: the unread bytes behave as the plain bounded stream of       *)
(* LineStream.  A chunk is refused exactly when it does not fit next to    *)
(* the unread bytes, refused chunks leave no trace, and lines are the      *)
(* bytes before the first terminator, untrimmed (append, read_line).       *)
LS == INSTANCE LineStream WITH unread <- Unread
ImplementsLineStream == LS!Spec

(* The string grows only up to the limit in force, whatever was consumed,  *)
(* compacted or set before (append).                                       *)
GrowthIsBounded ==
  [][Len(buffer_') > Len(buffer_) => Len(buffer_') <= max_size_]_vars

(* The unread bytes contain an empty line: a terminator, not the LF of a   *)
(* CRLF, at their start or right after another terminator.                 *)
EmptyLineAhead ==
  \E k \in 1 .. Len(Unread) :
    /\ Unread[k] \in EOL
    /\ \/ k = 1
       \/ Unread[k - 1] \in EOL /\ ~ (Unread[k - 1] = CR /\ Unread[k] = LF)

(* has_complete_message never overlooks a message boundary.                *)
BoundaryNeverMissed == EmptyLineAhead => HasCompleteMessage

(* Without CR in the unread bytes has_complete_message is exact.           *)
BoundaryExactForLF ==
  (\A k \in 1 .. Len(Unread) : Unread[k] # CR) =>
    (HasCompleteMessage <=> EmptyLineAhead)

(* has_complete_message as documented (sse_parser.hpp:235): "true if an    *)
(* empty line (message boundary) exists", false otherwise.                 *)
BoundaryExact == HasCompleteMessage <=> EmptyLineAhead

================================================================================
