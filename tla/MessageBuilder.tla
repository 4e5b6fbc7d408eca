---------------------------- MODULE MessageBuilder ----------------------------
(***************************************************************************)
(* sse::MessageBuilder: turns field lines into messages.  Each completed   *)
(* message goes to the callback, if there is one, and to the queue.        *)
(***************************************************************************)
EXTENDS FieldParser

CONSTANTS
  Lines,      \* what feed_line may be given
  Callbacks   \* the callables set_callback may be given, beside nullptr

ASSUME MessageBuilderAssumption ==
  /\ Lines \subseteq Seq(Token)
  /\ None \notin Callbacks \cup Message \cup [to : Callbacks, msg : Message]

VARIABLES
  current_msg_,
  callback_,
  completed_messages_,
  accumulating_data_,
  last_event_id_,
  out   \* what the last operation returned, and the callback call it made

vars == <<current_msg_, callback_, completed_messages_, accumulating_data_,
          last_event_id_, out>>

(* The one type invariant.                                                 *)
TypeOK ==
  /\ current_msg_ \in Message
  /\ callback_ \in Callbacks \cup {None}
  /\ completed_messages_ \in Seq(Message)
  /\ accumulating_data_ \in BOOLEAN
  /\ last_event_id_ \in Seq(Token)
  /\ out \in [err : {"success", "invalid_retry"},
              called : [to : Callbacks, msg : Message] \cup {None},
              got : Message \cup {None}]

Nothing == [err |-> "success", called |-> None, got |-> None]

Init ==
  /\ current_msg_ = DefaultMessage
  /\ callback_ = None
  /\ completed_messages_ = <<>>
  /\ accumulating_data_ = FALSE
  /\ last_event_id_ = <<>>
  /\ out = Nothing

HasMessage == completed_messages_ # <<>>

--------------------------------------------------------------------------------
(* Slips the operators below could contain; each breaks a property.        *)

AddDataWithoutNewline(value) ==
  current_msg_' = [current_msg_ EXCEPT
    !.data = IF accumulating_data_ THEN @ \o value ELSE value]
TrackIdOfEveryMessage ==
  last_event_id_' = IF current_msg_.id # None THEN current_msg_.id ELSE <<>>
PopBack ==
  /\ out' = [Nothing EXCEPT !.got = completed_messages_[Len(completed_messages_)]]
  /\ completed_messages_' =
       SubSeq(completed_messages_, 1, Len(completed_messages_) - 1)
NotifyOnlyWithData ==
  out' = [Nothing EXCEPT
    !.called = IF callback_ # None /\ current_msg_.data # <<>>
               THEN [to |-> callback_, msg |-> current_msg_] ELSE None]

--------------------------------------------------------------------------------
(* process_field.  Lines that start with "data:" are handled here; all     *)
(* others are parsed into a fresh message, whose data is then left behind. *)

IsDataLine(line) == Len(line) >= 2 /\ line[1] = "data" /\ line[2] = Colon
DataValue(line) == StripSpace(SubSeq(line, 3, Len(line)))

AddData(value) ==
  current_msg_' = [current_msg_ EXCEPT
    !.data = IF accumulating_data_ THEN @ \o <<LF>> \o value ELSE value]

(* An event that spells the default counts as no event.                    *)
Merge(msg) ==
  current_msg_' = [current_msg_ EXCEPT
    !.event = IF msg.event # DefaultMessage.event THEN msg.event ELSE @,
    !.id = IF msg.id # None THEN msg.id ELSE @,
    !.retry = IF msg.retry # None THEN msg.retry ELSE @]

ProcessField(line) ==
  /\ UNCHANGED <<callback_, completed_messages_, last_event_id_>>
  /\ \/ /\ IsDataLine(line)
        /\ AddData(DataValue(line))
        /\ accumulating_data_' = TRUE
        /\ out' = Nothing
     \/ /\ ~ IsDataLine(line)
        /\ UNCHANGED accumulating_data_
        /\ LET parsed == ParseFieldLine(line, DefaultMessage)
           IN  /\ out' = [Nothing EXCEPT !.err = parsed.err]
               /\ IF parsed.err = "success"
                  THEN Merge(parsed.msg) ELSE UNCHANGED current_msg_

(* complete_message: last id, callback, queue, fresh message, in this      *)
(* order.  Messages without data are delivered too.                        *)
TrackId ==
  last_event_id_' =
    IF current_msg_.id # None THEN current_msg_.id ELSE last_event_id_

Notify ==
  out' = [Nothing EXCEPT
    !.called = IF callback_ # None
               THEN [to |-> callback_, msg |-> current_msg_] ELSE None]

CompleteMessage ==
  /\ TrackId
  /\ Notify
  /\ completed_messages_' = Append(completed_messages_, current_msg_)
  /\ current_msg_' = DefaultMessage
  /\ accumulating_data_' = FALSE
  /\ UNCHANGED callback_

--------------------------------------------------------------------------------
(* Operations.                                                             *)

FeedLine(line) ==
  \/ line = <<>> /\ CompleteMessage
  \/ line # <<>> /\ ProcessField(line)

PopFront ==
  /\ out' = [Nothing EXCEPT !.got = Head(completed_messages_)]
  /\ completed_messages_' = Tail(completed_messages_)

GetMessage ==
  /\ UNCHANGED <<current_msg_, callback_, accumulating_data_, last_event_id_>>
  /\ \/ HasMessage /\ PopFront
     \/ ~ HasMessage /\ out' = Nothing /\ UNCHANGED completed_messages_

(* The queue, the last id and the callback survive.                        *)
Reset ==
  /\ current_msg_' = DefaultMessage
  /\ accumulating_data_' = FALSE
  /\ out' = Nothing
  /\ UNCHANGED <<callback_, completed_messages_, last_event_id_>>

ClearLastEventId ==
  /\ last_event_id_' = <<>>
  /\ out' = Nothing
  /\ UNCHANGED <<current_msg_, callback_, completed_messages_, accumulating_data_>>

SetCallback(callback) ==
  /\ callback_' = callback
  /\ out' = Nothing
  /\ UNCHANGED <<current_msg_, completed_messages_, accumulating_data_, last_event_id_>>

Next ==
  \/ \E line \in Lines : FeedLine(line)
  \/ GetMessage
  \/ Reset
  \/ ClearLastEventId
  \/ \E callback \in Callbacks \cup {None} : SetCallback(callback)

Spec == Init /\ [][Next]_vars

================================================================================
