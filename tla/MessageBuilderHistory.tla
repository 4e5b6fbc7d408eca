------------------------- MODULE MessageBuilderHistory ------------------------
(***************************************************************************)
(* MessageBuilder with a record of what its user did and saw, kept beside  *)
(* it and computed from the lines alone.                                   *)
(***************************************************************************)
EXTENDS MessageBuilder, MessageBlocks

CONSTANT MaxLines   \* bound on the number of lines fed

VARIABLES
  fed,          \* how many lines were fed
  block,        \* the lines fed since the last boundary or reset
  completed,    \* the messages that should have been completed
  due,          \* the callback calls that should have been made
  shown,        \* the callback calls that were made
  popped,       \* the messages get_message returned
  registered,   \* the callback the user set last
  ids_from      \* how many messages were complete at the last clear of the id

history == <<fed, block, completed, due, shown, popped, registered, ids_from>>

HInit ==
  /\ Init
  /\ fed = 0
  /\ block = <<>>
  /\ completed = <<>>
  /\ due = <<>>
  /\ shown = <<>>
  /\ popped = <<>>
  /\ registered = None
  /\ ids_from = 0

HFeedLine(line) ==
  /\ fed < MaxLines
  /\ FeedLine(line)
  /\ fed' = fed + 1
  /\ IF line = <<>>
     THEN /\ completed' = Append(completed, Interpret(block))
          /\ due' = IF registered # None
                    THEN Append(due, [to |-> registered, msg |-> Interpret(block)])
                    ELSE due
          /\ block' = <<>>
     ELSE /\ block' = Append(block, line)
          /\ UNCHANGED <<completed, due>>
  /\ shown' = IF out'.called # None THEN Append(shown, out'.called) ELSE shown
  /\ UNCHANGED <<popped, registered, ids_from>>

HGetMessage ==
  /\ GetMessage
  /\ popped' = IF out'.got # None THEN Append(popped, out'.got) ELSE popped
  /\ UNCHANGED <<fed, block, completed, due, shown, registered, ids_from>>

HReset ==
  /\ Reset
  /\ block' = <<>>
  /\ UNCHANGED <<fed, completed, due, shown, popped, registered, ids_from>>

HClearLastEventId ==
  /\ ClearLastEventId
  /\ ids_from' = Len(completed)
  /\ UNCHANGED <<fed, block, completed, due, shown, popped, registered>>

HSetCallback(callback) ==
  /\ SetCallback(callback)
  /\ registered' = callback
  /\ UNCHANGED <<fed, block, completed, due, shown, popped, ids_from>>

HNext ==
  \/ \E line \in Lines : HFeedLine(line)
  \/ HGetMessage
  \/ HReset
  \/ HClearLastEventId
  \/ \E callback \in Callbacks \cup {None} : HSetCallback(callback)

HSpec == HInit /\ [][HNext]_<<vars, history>>

--------------------------------------------------------------------------------
(* The message under construction is what the lines fed since the last     *)
(* boundary or reset mean when read as one block: nothing leaks in from an *)
(* earlier message, from a line that failed or from before a reset         *)
(* (feed_line, complete_message, reset).                                   *)
CurrentIsItsBlock == current_msg_ = Interpret(block)

(* Every completed message is in the queue or was taken from it, once and  *)
(* in order, through resets and changes of the callback (get_message).     *)
QueueKeepsEveryMessage == popped \o completed_messages_ = completed

(* The callbacks saw the messages completed while one was set, each once,  *)
(* in order, and by the one set at that time; empty messages too           *)
(* (complete_message, set_callback).                                       *)
CallbackSeesEveryMessage == shown = due

(* last_event_id() is the id of the latest completed message that has one, *)
(* since clear_last_event_id; the id of a message that is not complete, or *)
(* was dropped by reset, never shows (complete_message).                   *)
LastIdOfCompleted ==
  LET unset(first) == \A i \in first .. Len(completed) : completed[i].id = None
  IN  \/ last_event_id_ = <<>> /\ unset(ids_from + 1)
      \/ \E i \in ids_from + 1 .. Len(completed) :
           last_event_id_ = completed[i].id /\ unset(i + 1)

(* The data as documented for parse_field_line, "data" lines without a     *)
(* colon included.                                                         *)
BareDataCounts == current_msg_.data = DocumentedData(block)

================================================================================
