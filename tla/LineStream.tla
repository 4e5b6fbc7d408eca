------------------------------ MODULE LineStream ------------------------------
(***************************************************************************)
(* What sse::Buffer promises its callers: a bounded stream of unread bytes *)
(* that is cut into lines at LF, CRLF or CR.  There is no read position    *)
(* and no compaction here; Buffer.tla is shown to implement this module    *)
(* with unread <- the bytes of buffer_ from read_pos_ on.                  *)
(***************************************************************************)
EXTENDS Naturals, Sequences

CONSTANTS Byte, CR, LF, Chunks, MaxSizes, None

VARIABLES unread, max_size_, ret

vars == <<unread, max_size_, ret>>

Init ==
  /\ unread = <<>>
  /\ max_size_ \in MaxSizes
  /\ ret = [call |-> "none"]

(* Either the whole chunk is appended, or it is refused as a whole and the *)
(* unread bytes are untouched.  Only unread bytes count against the bound. *)
AppendChunk(chunk) ==
  /\ UNCHANGED max_size_
  /\ \/ /\ chunk = <<>> \/ Len(unread) + Len(chunk) <= max_size_
        /\ unread' = unread \o chunk
        /\ ret' = [call |-> "append", err |-> "success"]
     \/ /\ chunk # <<>>
        /\ Len(unread) + Len(chunk) > max_size_
        /\ UNCHANGED unread
        /\ ret' = [call |-> "append", err |-> "buffer_overflow"]

(* The terminator that starts at position n, counted in bytes.             *)
TerminatorLen(n) ==
  IF unread[n] = CR /\ n < Len(unread) /\ unread[n + 1] = LF THEN 2 ELSE 1

(* The line is exactly the bytes before the first terminator.              *)
ReadLine ==
  /\ UNCHANGED max_size_
  /\ \/ /\ \A i \in 1 .. Len(unread) : unread[i] \notin {CR, LF}
        /\ UNCHANGED unread
        /\ ret' = [call |-> "read_line", line |-> None]
     \/ \E n \in 1 .. Len(unread) :
          /\ unread[n] \in {CR, LF}
          /\ \A i \in 1 .. n - 1 : unread[i] \notin {CR, LF}
          /\ ret' = [call |-> "read_line", line |-> SubSeq(unread, 1, n - 1)]
          /\ unread' = SubSeq(unread, n + TerminatorLen(n), Len(unread))

Clear ==
  /\ unread' = <<>>
  /\ ret' = [call |-> "none"]
  /\ UNCHANGED max_size_

SetMaxSize(n) ==
  /\ max_size_' = n
  /\ ret' = [call |-> "none"]
  /\ UNCHANGED unread

Next ==
  \/ \E chunk \in Chunks : AppendChunk(chunk)
  \/ ReadLine
  \/ Clear
  \/ \E n \in MaxSizes : SetMaxSize(n)

Spec == Init /\ [][Next]_vars

================================================================================
