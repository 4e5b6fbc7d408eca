--------------------------- MODULE SseParserHistory ---------------------------
(***************************************************************************)
(* SseParser with a record of what its user did: the text accepted so far, *)
(* the callback set last.  The properties compare what was delivered with  *)
(* that text read as a whole.                                              *)
(***************************************************************************)
EXTENDS SseParser, MessageBlocks

CONSTANT MaxCalls   \* bound on the calls of parse and flush

VARIABLES
  calls,       \* the calls of parse and flush so far
  accepted,    \* the text accepted since the last fresh start
  base,        \* how many messages were complete at the last fresh start
  registered,  \* the receiver set last, or None
  expected,    \* the deliveries that should have been made
  tail         \* the message the flush in progress should deliver, or None

history == <<calls, accepted, base, registered, expected, tail>>

Completed == [i \in 1 .. Len(completed_messages_) - base |-> completed_messages_[base + i]]

HInit ==
  /\ Init
  /\ calls = 0
  /\ accepted = <<>>
  /\ base = 0
  /\ registered = callback_
  /\ expected = <<>>
  /\ tail = None

(* A reset and a flush that cleared the buffer start afresh.               *)
FreshStart == accepted' = <<>> /\ base' = Len(completed_messages_')

HParse(chunk) ==
  /\ calls < MaxCalls
  /\ Parse(chunk)
  /\ calls' = calls + 1
  /\ accepted' = IF pc' = "parse" THEN accepted \o chunk ELSE accepted
  /\ UNCHANGED <<base, registered, expected, tail>>

(* When nothing in the buffer was read and it holds no complete line, the  *)
(* flush should deliver the open block with the buffer as its last line.   *)
HFlush ==
  /\ calls < MaxCalls
  /\ Flush
  /\ calls' = calls + 1
  /\ tail' = IF pc' = "flush" /\ Buf!Unread = buffer_ /\ Buf!LineEnds(0) = {}
             THEN Interpret(Append(OpenBlock(accepted), buffer_)) ELSE None
  /\ UNCHANGED <<accepted, base, registered, expected>>

HContinue ==
  /\ Continue
  /\ expected' =
       IF registered = None \/ completed_messages_' = completed_messages_ THEN expected
       ELSE Append(expected, [to |-> registered,
                              msg |-> completed_messages_'[Len(completed_messages_')]])
  /\ IF pc = "clear" THEN FreshStart ELSE UNCHANGED <<accepted, base>>
  /\ UNCHANGED <<calls, registered, tail>>

HReset ==
  /\ Reset
  /\ FreshStart
  /\ UNCHANGED <<calls, registered, expected, tail>>

HSetCallback(callback) ==
  /\ SetCallback(callback)
  /\ registered' = callback
  /\ UNCHANGED <<calls, accepted, base, expected, tail>>

HSetFnCallback(fn, user_data) ==
  /\ SetFnCallback(fn, user_data)
  /\ registered' = IF fn = None THEN None ELSE <<fn, user_data>>
  /\ UNCHANGED <<calls, accepted, base, expected, tail>>

HNext ==
  \/ \E chunk \in Chunks : HParse(chunk)
  \/ HFlush
  \/ HContinue
  \/ HReset
  \/ \E callback \in StdCallbacks \cup {None} : HSetCallback(callback)
  \/ \E fn \in FnCallbacks \cup {None}, user_data \in UserData :
       HSetFnCallback(fn, user_data)

HSpec == HInit /\ [][HNext]_<<vars, history>> /\ WF_<<vars, history>>(HContinue)

--------------------------------------------------------------------------------
(* At every step the messages completed since the last fresh start are the *)
(* first messages of the accepted text read as a whole: no cut between     *)
(* chunks, no refused chunk, no failed line or failed flush adds, changes  *)
(* or reorders one (parse, append, read_line, feed_line).                  *)
NothingSpurious ==
  pc \notin {"complete", "clear"} => IsPrefix(Completed, MessagesOf(accepted))

(* A parse that was given bytes and returned success has completed every   *)
(* message of the accepted text, those that an earlier failed call left    *)
(* unread included (parse).                                                *)
SuccessMeansComplete ==
  [][pc = "parse" /\ pc' = "idle" /\ result'.err = "success"
       => Completed = MessagesOf(accepted)]_<<vars, history>>

(* While no complete line is unread, a chunk is refused exactly when it    *)
(* does not fit next to the unfinished line of the accepted text, however  *)
(* much was read, compacted or refused before: so a line as long as the    *)
(* limit blocks the parser until a flush or a reset (parse, append).       *)
Unfinished(s) == SubSeq(s, TerminatorBefore(s, Len(s) + 1) + 1, Len(s))

RefusedExactlyWhenFull ==
  [][\A chunk \in Chunks \ {<<>>} :
       HParse(chunk) /\ Buf!LineEnds(read_pos_) = {} =>
         (pc' = "idle" /\ result' = [call |-> "parse", err |-> "buffer_overflow"]
            <=> Len(Unfinished(accepted)) + Len(chunk) > MaxSize)]_<<vars, history>>

(* The text is decoded alike however it is cut into chunks                 *)
(* (.planning/REQUIREMENTS.md:4: "Parse any valid SSE stream correctly     *)
(* regardless of network fragmentation").                                  *)
CutsAreInvisible == NothingSpurious

(* Each message completed while a callback of either kind was set reaches  *)
(* the one set last, with its own user data, once and in order; no null    *)
(* function pointer is called (both set_callback, complete_message).       *)
LastCallbackReceives ==
  delivered = expected

(* A flush of a last line without terminator, nothing of the buffer being  *)
(* read yet, delivers one message: the open block with that line (flush).  *)
FlushDeliversTail ==
  pc = "clear" /\ tail # None =>
    /\ completed_messages_[Len(completed_messages_)] = tail
    /\ Len(Completed) = Len(MessagesOf(accepted)) + 1

(* Every call returns (the loops of parse and flush).                      *)
EveryCallReturns == pc # "idle" ~> pc = "idle"

--------------------------------------------------------------------------------
(* What the comments and tests of the repository say, and the code does    *)
(* not do.                                                                 *)

(* The text ends at a message boundary.                                    *)
NothingIncomplete ==
  /\ accepted = <<>> \/ accepted[Len(accepted)] \in {CR, LF}
  /\ OpenBlock(accepted) = <<>>

(* sse_parser.hpp:992: "No incomplete message -> success, no callback".    *)
FlushQuietWhenComplete == pc = "complete" => ~ NothingIncomplete

(* sse_parser.hpp:981: flush is called "to deliver any buffered partial    *)
(* message": once it has succeeded, no partial message is left.            *)
FlushLeavesNoPartial ==
  pc = "idle" /\ result = [call |-> "flush", err |-> "success"] =>
    current_msg_ = DefaultMessage

(* sse_parser.hpp:1048: last_event_id is "updated automatically when       *)
(* messages with id field are parsed".                                     *)
LastEventIdFollows ==
  LET with_id == SelectSeq(Completed, LAMBDA m : m.id # None)
  IN  pc = "idle" /\ with_id # <<>> => last_event_id_ = with_id[Len(with_id)].id

(* sse_parser.hpp:1060: has_incomplete_message "indicates whether flush()  *)
(* would deliver a message"; flush returns at once on an empty buffer.     *)
IncompleteMeansFlushDelivers ==
  pc = "idle" /\ HasIncompleteMessage => ~ Buf!Empty

================================================================================
