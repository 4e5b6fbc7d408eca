------------------------- MODULE MessageBuilderProofs -------------------------
(***************************************************************************)
(* Theorems about MessageBuilder for every set of lines, of callbacks and  *)
(* every INT_MAX.  The step lemmas are stated action by action, so that    *)
(* SseParserProofs can use them for the builder inside a parser.           *)
(***************************************************************************)
EXTENDS MessageBuilderHistory, TextLemmas

(* A default constructed Message is well formed.                           *)
LEMMA DefaultIsMessage == DefaultMessage \in Message
<1>1. "message" \in Token
  BY FieldParserAssumption
<1>2. <<"message">> \in Seq(Token) /\ <<>> \in Seq(Token)
  BY <1>1
<1> QED
  BY <1>2 DEF DefaultMessage, Message

(* What an operation reports.                                              *)
Outs == [err : {"success", "invalid_retry"},
         called : [to : Callbacks, msg : Message] \cup {None},
         got : Message \cup {None}]

(* An operation that reports nothing reports well.                         *)
LEMMA NothingIsOut == Nothing \in Outs
  BY DEF Nothing, Outs

(* A line that is not a data line leaves a well formed message behind,     *)
(* whether it was parsed or not; a data line appends to the data.          *)
LEMMA ProcessFieldType ==
  ASSUME TypeOK, NEW line \in Seq(Token), ProcessField(line)
  PROVE  TypeOK'
<1>1. /\ current_msg_ \in Message /\ callback_' \in Callbacks \cup {None}
      /\ completed_messages_' \in Seq(Message) /\ last_event_id_' \in Seq(Token)
  BY DEF TypeOK, ProcessField
<1>2. CASE IsDataLine(line)
  <2>1. DataValue(line) \in Seq(Token)
    <3>1. 3 \in 1 .. Len(line) + 1 /\ Len(line) \in 0 .. Len(line)
      BY <1>2 DEF IsDataLine
    <3>2. SubSeq(line, 3, Len(line)) \in Seq(Token)
      BY <3>1, Piece
    <3> QED
      BY <3>2, StripSpaceEffect DEF DataValue
  <2>2. current_msg_.data \o <<LF>> \o DataValue(line) \in Seq(Token)
    <3> DEFINE before == current_msg_.data
               value == DataValue(line)
    <3>1. before \in Seq(Token) /\ value \in Seq(Token) /\ <<LF>> \in Seq(Token)
      <4>1. LF \in Token
        BY FieldParserAssumption
      <4> QED
        BY <1>1, <2>1, <4>1 DEF Message
    <3> HIDE DEF before, value
    <3>2. before \o <<LF>> \in Seq(Token)
      BY <3>1, ConcatProperties
    <3>3. (before \o <<LF>>) \o value \in Seq(Token)
      BY <3>1, <3>2, ConcatProperties
    <3> QED
      BY <3>3 DEF before, value
  <2>3. current_msg_' \in Message
    BY <1>1, <1>2, <2>1, <2>2 DEF ProcessField, AddData, Message
  <2>4. accumulating_data_' \in BOOLEAN /\ out' \in Outs
    BY <1>2, NothingIsOut DEF ProcessField
  <2> QED
    BY <1>1, <2>3, <2>4 DEF TypeOK, Outs
<1>3. CASE ~ IsDataLine(line)
  <2> DEFINE parsed == ParseFieldLine(line, DefaultMessage)
  <2>1. parsed \in [err : {"success", "invalid_retry"}, msg : Message]
    BY DefaultIsMessage, ParseFieldLineType
  <2>2. /\ accumulating_data_' = accumulating_data_
        /\ out' = [Nothing EXCEPT !.err = parsed.err]
        /\ \/ Merge(parsed.msg)
           \/ UNCHANGED current_msg_
    BY <1>3 DEF ProcessField
  <2> HIDE DEF parsed
  <2>3. current_msg_' \in Message
    BY <1>1, <2>1, <2>2 DEF Merge, Message
  <2>4. out' \in Outs
    BY <2>1, <2>2 DEF Nothing, Outs
  <2> QED
    BY <1>1, <2>2, <2>3, <2>4 DEF TypeOK, Outs
<1> QED
  BY <1>2, <1>3

(* complete_message: what is queued, handed to the callback and started    *)
(* anew is well formed.                                                    *)
LEMMA CompleteMessageType ==
  ASSUME TypeOK, CompleteMessage
  PROVE  TypeOK'
<1>1. /\ current_msg_ \in Message /\ callback_ \in Callbacks \cup {None}
      /\ completed_messages_ \in Seq(Message) /\ last_event_id_ \in Seq(Token)
  BY DEF TypeOK
<1>2. last_event_id_' \in Seq(Token)
  BY <1>1 DEF CompleteMessage, TrackId, Message
<1>3. out' \in Outs
  BY <1>1 DEF CompleteMessage, Notify, Nothing, Outs
<1>4. completed_messages_' \in Seq(Message)
  BY <1>1, AppendProperties DEF CompleteMessage
<1>5. /\ current_msg_' \in Message /\ accumulating_data_' \in BOOLEAN
      /\ callback_' \in Callbacks \cup {None}
  BY <1>1, DefaultIsMessage DEF CompleteMessage
<1> QED
  BY <1>2, <1>3, <1>4, <1>5 DEF TypeOK, Outs

(* feed_line.                                                              *)
LEMMA FeedLineType ==
  ASSUME TypeOK, NEW line \in Seq(Token), FeedLine(line)
  PROVE  TypeOK'
  BY ProcessFieldType, CompleteMessageType DEF FeedLine

(* The callback that feed_line calls is the one set.                       *)
LEMMA CalledIsSet ==
  ASSUME NEW line, FeedLine(line)
  PROVE  out'.called = None \/ out'.called.to = callback_
  BY DEF FeedLine, ProcessField, CompleteMessage, Notify, Nothing

(* get_message.                                                            *)
LEMMA GetMessageType ==
  ASSUME TypeOK, GetMessage
  PROVE  TypeOK'
<1>1. CASE HasMessage /\ PopFront
  <2>1. /\ Head(completed_messages_) \in Message
        /\ Tail(completed_messages_) \in Seq(Message)
    BY <1>1, HeadTailProperties DEF TypeOK, HasMessage
  <2>2. out' \in Outs
    BY <1>1, <2>1 DEF PopFront, Nothing, Outs
  <2>3. completed_messages_' \in Seq(Message)
    BY <1>1, <2>1 DEF PopFront
  <2> QED
    BY <2>2, <2>3 DEF GetMessage, TypeOK, Outs
<1>2. CASE ~ HasMessage /\ out' = Nothing /\ UNCHANGED completed_messages_
  BY <1>2, NothingIsOut DEF GetMessage, TypeOK, Outs
<1> QED
  BY <1>1, <1>2 DEF GetMessage

(* reset.                                                                  *)
LEMMA ResetType ==
  ASSUME TypeOK, Reset
  PROVE  TypeOK'
  BY DefaultIsMessage, NothingIsOut DEF Reset, TypeOK, Outs

(* set_callback.                                                           *)
LEMMA SetCallbackType ==
  ASSUME TypeOK, NEW callback \in Callbacks \cup {None}, SetCallback(callback)
  PROVE  TypeOK'
  BY NothingIsOut DEF SetCallback, TypeOK, Outs

(* A fresh builder is well formed.                                         *)
LEMMA InitType == Init => TypeOK
<1>1. <<>> \in Seq(Token) /\ <<>> \in Seq(Message)
  BY EmptySeq
<1> QED
  BY <1>1, DefaultIsMessage, NothingIsOut DEF Init, TypeOK, Outs

(* And so it stays, whatever the operation.                                *)
LEMMA NextType ==
  ASSUME TypeOK, [Next]_vars
  PROVE  TypeOK'
<1>1. CASE \E line \in Lines : FeedLine(line)
  BY <1>1, FeedLineType, MessageBuilderAssumption
<1>2. CASE GetMessage
  BY <1>2, GetMessageType
<1>3. CASE Reset
  BY <1>3, ResetType
<1>4. CASE ClearLastEventId
  BY <1>4, EmptySeq, NothingIsOut DEF ClearLastEventId, TypeOK, Outs
<1>5. CASE \E callback \in Callbacks \cup {None} : SetCallback(callback)
  BY <1>5, SetCallbackType
<1>6. CASE UNCHANGED vars
  BY <1>6 DEF vars, TypeOK
<1> QED
  BY <1>1, <1>2, <1>3, <1>4, <1>5, <1>6 DEF Next

(* In every reachable state of a builder the message under construction    *)
(* and all completed ones are well formed; no retry exceeds INT_MAX; only  *)
(* callbacks that were set are called (all operations).                    *)
THEOREM TypeCorrect == Spec => []TypeOK
<1> QED
  BY InitType, NextType, PTL DEF Spec

--------------------------------------------------------------------------------
(* process_field and the meaning of its lines.                             *)

(* The first field name is no colon.                                       *)
LEMMA DataIsNoColon == "data" # Colon
  BY Zenon DEF Colon

(* The short cut of process_field takes the data lines with a colon, and   *)
(* finds the value that parse_field_line would.                            *)
LEMMA DataLineIsField ==
  ASSUME NEW line \in Seq(Token)
  PROVE  /\ IsDataLine(line) <=> IsField(line, "data") /\ HasColon(line)
         /\ IsDataLine(line) => DataValue(line) = FieldValue(line)
<1>1. Len(line) \in Nat
  OBVIOUS
<1>2. ASSUME IsDataLine(line)
      PROVE  /\ IsField(line, "data") /\ HasColon(line)
             /\ DataValue(line) = FieldValue(line)
  <2>1. Len(line) >= 2 /\ line[1] = "data" /\ line[2] = Colon
    BY <1>2 DEF IsDataLine
  <2>2. HasColon(line)
    BY <1>1, <2>1 DEF HasColon
  <2>3. FirstColon(line) = 2
    BY <1>1, <2>1, <2>2, ColonEffect, DataIsNoColon
  <2>4. SubSeq(line, 1, 1) = <<"data">>
    <3>1. /\ SubSeq(line, 1, 1) \in Seq(Token) /\ Len(SubSeq(line, 1, 1)) = 1
          /\ SubSeq(line, 1, 1)[1] = line[1]
      <4>1. 1 \in 1 .. Len(line) + 1 /\ 1 \in 0 .. Len(line)
        BY <1>1, <2>1
      <4>2. /\ SubSeq(line, 1, 1) \in Seq(Token) /\ Len(SubSeq(line, 1, 1)) = 1 - 1 + 1
            /\ \A i \in 1 .. 1 - 1 + 1 : SubSeq(line, 1, 1)[i] = line[1 + i - 1]
        BY <4>1, Piece
      <4> QED
        BY <4>2
    <3>2. \A s \in Seq(Token) : Len(s) = 1 => s = <<s[1]>>
      OBVIOUS
    <3> QED
      BY <2>1, <3>1, <3>2
  <2> QED
    BY <2>1, <2>2, <2>3, <2>4, DataIsNoColon
       DEF IsField, IsComment, FieldName, FieldValue, DataValue
<1>3. ASSUME IsField(line, "data"), HasColon(line) PROVE IsDataLine(line)
  <2> DEFINE k == FirstColon(line)
  <2>1. k \in 1 .. Len(line) /\ line[k] = Colon
    BY <1>3, ColonEffect
  <2>2. SubSeq(line, 1, k - 1) = <<"data">>
    BY <1>3 DEF IsField, FieldName
  <2> HIDE DEF k
  <2>3. /\ Len(SubSeq(line, 1, k - 1)) = k - 1
        /\ \A i \in 1 .. k - 1 : SubSeq(line, 1, k - 1)[i] = line[i]
    BY <1>1, <2>1, Piece
  <2>4. k = 2 /\ line[1] = "data"
    <3> DEFINE name == SubSeq(line, 1, k - 1)
    <3>1. Len(name) = 1 /\ name[1] = "data"
      <4>1. name = <<"data">>
        BY <2>2
      <4> HIDE DEF name
      <4> QED
        BY <4>1
    <3>2. k - 1 = 1 /\ line[1] = name[1]
      <4> HIDE DEF name
      <4>1. Len(name) = k - 1 /\ \A i \in 1 .. k - 1 : name[i] = line[i]
        BY <2>3 DEF name
      <4>2. k - 1 = 1
        BY <3>1, <4>1
      <4>3. 1 \in 1 .. k - 1
        BY <4>2
      <4> QED
        BY <4>1, <4>2, <4>3
    <3> QED
      BY <1>1, <2>1, <3>1, <3>2
  <2> QED
    BY <1>1, <2>1, <2>4 DEF IsDataLine
<1> QED
  BY <1>2, <1>3

(* process_field adds to the message what the line adds to the lines it    *)
(* stands for; a line that fails adds nothing.                             *)
LEMMA ProcessFieldReads ==
  ASSUME TypeOK, NEW lines \in Block, current_msg_ = Interpret(lines),
         accumulating_data_ <=> DataLines(lines) # {},
         NEW line \in Seq(Token), ProcessField(line)
  PROVE  /\ current_msg_' = Interpret(Append(lines, line))
         /\ accumulating_data_' <=> DataLines(Append(lines, line)) # {}
         /\ out'.err # "success" => UNCHANGED <<current_msg_, accumulating_data_>>
<1> DEFINE value == FieldValue(line)
           retry == ParseRetryValue(value)
           now == Interpret(Append(lines, line))
           isEvent == IsField(line, "event")
           isData == IsField(line, "data")
           isId == IsField(line, "id")
           isRetry == IsField(line, "retry")
<1>1. /\ now.event = IF isEvent /\ value # <<"message">>
                     THEN value ELSE current_msg_.event
      /\ now.data = IF isData /\ HasColon(line)
                    THEN IF accumulating_data_ THEN current_msg_.data \o <<LF>> \o value
                         ELSE value
                    ELSE current_msg_.data
      /\ now.id = IF isId THEN value ELSE current_msg_.id
      /\ now.retry = IF isRetry /\ retry # None THEN retry ELSE current_msg_.retry
  <2>1. current_msg_ = Interpret(lines) /\ (accumulating_data_ <=> DataLines(lines) # {})
    OBVIOUS
  <2> QED
    BY <2>1, InterpretLonger, Zenon
<1>2. now = [event |-> now.event, data |-> now.data, id |-> now.id, retry |-> now.retry]
  BY DEF Interpret
<1>3. value \in Seq(Token) /\ value # None /\ current_msg_ \in Message
      /\ accumulating_data_ \in BOOLEAN
  BY ValueIsText, FieldParserAssumption DEF TypeOK
<1>4. DataLines(Append(lines, line)) # {} <=>
        accumulating_data_ \/ (isData /\ HasColon(line))
  <2>1. DataLines(Append(lines, line)) = DataLines(lines)
          \cup (IF isData /\ HasColon(line) THEN {Len(lines) + 1} ELSE {})
    BY NewLines, Zenon
  <2> QED
    BY <2>1
<1>5. /\ ~ (isData /\ isEvent) /\ ~ (isData /\ isId) /\ ~ (isData /\ isRetry)
      /\ ~ (isRetry /\ isEvent) /\ ~ (isRetry /\ isId)
  BY OneField
<1>6. /\ IsDataLine(line) <=> isData /\ HasColon(line)
      /\ IsDataLine(line) => DataValue(line) = value
  BY DataLineIsField
<1>7. CASE IsDataLine(line)
  <2>1. /\ accumulating_data_' = TRUE /\ out'.err = "success"
        /\ current_msg_' = [current_msg_ EXCEPT
             !.data = IF accumulating_data_ THEN current_msg_.data \o <<LF>> \o value
                      ELSE value]
    BY <1>6, <1>7 DEF ProcessField, AddData, Nothing
  <2>2. /\ now.event = current_msg_.event /\ now.id = current_msg_.id
        /\ now.retry = current_msg_.retry
        /\ now.data = IF accumulating_data_ THEN current_msg_.data \o <<LF>> \o value
                      ELSE value
    BY <1>1, <1>5, <1>6, <1>7
  <2> HIDE DEF now, value, retry, isData, isEvent, isId, isRetry
  <2>3. current_msg_' = now
    BY <1>2, <1>3, <2>1, <2>2 DEF Message
  <2> QED
    BY <1>4, <1>6, <1>7, <2>1, <2>3 DEF now
<1>8. CASE ~ IsDataLine(line)
  <2> DEFINE parsed == ParseFieldLine(line, DefaultMessage)
  <2>1. /\ parsed.msg.event = IF isEvent THEN value ELSE <<"message">>
        /\ parsed.msg.id = IF isId THEN value ELSE None
        /\ parsed.msg.retry = IF isRetry THEN retry ELSE None
        /\ parsed.err = IF isRetry /\ retry = None THEN "invalid_retry" ELSE "success"
    BY ParsedFields, Zenon
  <2>2. /\ accumulating_data_' = accumulating_data_ /\ out'.err = parsed.err
        /\ IF parsed.err = "success" THEN Merge(parsed.msg) ELSE UNCHANGED current_msg_
    BY <1>8 DEF ProcessField, Nothing
  <2>3. DefaultMessage.event = <<"message">>
    BY DEF DefaultMessage
  <2> HIDE DEF parsed, now, value, retry, isData, isEvent, isId, isRetry
  <2>4. now.data = current_msg_.data
    BY <1>1, <1>6, <1>8
  <2>5. CASE isRetry /\ retry = None
    <3>1. current_msg_' = current_msg_
      BY <2>1, <2>2, <2>5
    <3>2. /\ now.event = current_msg_.event /\ now.id = current_msg_.id
          /\ now.retry = current_msg_.retry
      BY <1>1, <1>5, <2>5
    <3>3. current_msg_' = now
      BY <1>2, <1>3, <2>4, <3>1, <3>2 DEF Message
    <3> QED
      BY <1>4, <1>6, <1>8, <2>2, <3>1, <3>3 DEF now
  <2>6. CASE ~ (isRetry /\ retry = None)
    <3>1. Merge(parsed.msg)
      BY <2>1, <2>2, <2>6
    <3>2. current_msg_' = [event |-> IF parsed.msg.event # <<"message">>
                                     THEN parsed.msg.event ELSE current_msg_.event,
                           data |-> current_msg_.data,
                           id |-> IF parsed.msg.id # None
                                  THEN parsed.msg.id ELSE current_msg_.id,
                           retry |-> IF parsed.msg.retry # None
                                     THEN parsed.msg.retry ELSE current_msg_.retry]
      BY <1>3, <2>3, <3>1 DEF Merge, Message
    <3>3. now.event = IF parsed.msg.event # <<"message">>
                      THEN parsed.msg.event ELSE current_msg_.event
      BY <1>1, <2>1, Zenon
    <3>4. now.id = IF parsed.msg.id # None THEN parsed.msg.id ELSE current_msg_.id
      BY <1>1, <1>3, <2>1, Zenon
    <3>5. now.retry = IF parsed.msg.retry # None
                      THEN parsed.msg.retry ELSE current_msg_.retry
      BY <1>1, <2>1, <2>6, Zenon
    <3>6. current_msg_' = now
      BY <1>2, <2>4, <3>2, <3>3, <3>4, <3>5
    <3>7. out'.err = "success"
      BY <2>1, <2>2, <2>6
    <3> QED
      BY <1>4, <1>6, <1>8, <2>2, <3>6, <3>7 DEF now
  <2> QED
    BY <2>5, <2>6
<1> QED
  BY <1>7, <1>8

--------------------------------------------------------------------------------
(* The history.                                                            *)

(* Data is being accumulated just when the block has a data line, even one *)
(* with an empty value: the data itself does not tell.                     *)
AccumulatingIsData == accumulating_data_ <=> DataLines(block) # {}

(* What CurrentIsItsBlock needs to be inductive.                           *)
BlockInv ==
  /\ TypeOK
  /\ block \in Block
  /\ AccumulatingIsData
  /\ CurrentIsItsBlock

(* Every operation keeps the message under construction in step with its   *)
(* block.                                                                  *)
LEMMA BlockInvariant == HSpec => []BlockInv
<1>1. HInit => BlockInv
  <2>1. Init => TypeOK
    BY InitType
  <2>2. <<>> \in Block
    BY EmptySeq DEF Block
  <2> QED
    BY <2>1, <2>2, NoLines
       DEF HInit, Init, BlockInv, AccumulatingIsData, CurrentIsItsBlock
<1>2. BlockInv /\ [HNext]_<<vars, history>> => BlockInv'
  <2> SUFFICES ASSUME BlockInv, [HNext]_<<vars, history>> PROVE BlockInv'
    OBVIOUS
  <2>1. TypeOK'
    <3>1. [Next]_vars
      BY DEF HNext, Next, HFeedLine, HGetMessage, HReset, HClearLastEventId, HSetCallback
    <3> QED
      BY <3>1, NextType DEF BlockInv
  <2>2. ASSUME NEW line \in Lines, HFeedLine(line) PROVE BlockInv'
    <3>1. line \in Seq(Token)
      BY MessageBuilderAssumption
    <3>2. CASE line = <<>>
      <4>1. current_msg_' = DefaultMessage /\ accumulating_data_' = FALSE /\ block' = <<>>
        BY <2>2, <3>2 DEF HFeedLine, FeedLine, CompleteMessage
      <4> QED
        BY <2>1, <4>1, NoLines, EmptySeq
           DEF BlockInv, Block, AccumulatingIsData, CurrentIsItsBlock
    <3>3. CASE line # <<>>
      <4>1. ProcessField(line) /\ block' = Append(block, line)
        BY <2>2, <3>3 DEF HFeedLine, FeedLine
      <4>2. block' \in Block
        BY <3>1, <4>1, Appended DEF BlockInv
      <4> QED
        BY <2>1, <3>1, <4>1, <4>2, ProcessFieldReads
           DEF BlockInv, AccumulatingIsData, CurrentIsItsBlock
    <3> QED
      BY <3>2, <3>3
  <2>3. CASE HReset
    <3>1. current_msg_' = DefaultMessage /\ accumulating_data_' = FALSE /\ block' = <<>>
      BY <2>3 DEF HReset, Reset
    <3> QED
      BY <2>1, <3>1, NoLines, EmptySeq
         DEF BlockInv, Block, AccumulatingIsData, CurrentIsItsBlock
  <2>4. ASSUME UNCHANGED <<current_msg_, accumulating_data_, block>> PROVE BlockInv'
    BY <2>1, <2>4 DEF BlockInv, AccumulatingIsData, CurrentIsItsBlock
  <2>5. CASE HGetMessage
    BY <2>4, <2>5 DEF HGetMessage, GetMessage
  <2>6. CASE HClearLastEventId
    BY <2>4, <2>6 DEF HClearLastEventId, ClearLastEventId
  <2>7. CASE \E callback \in Callbacks \cup {None} : HSetCallback(callback)
    BY <2>4, <2>7 DEF HSetCallback, SetCallback
  <2>8. CASE UNCHANGED <<vars, history>>
    BY <2>4, <2>8 DEF vars, history
  <2> QED
    BY <2>2, <2>3, <2>5, <2>6, <2>7, <2>8 DEF HNext
<1> QED
  BY <1>1, <1>2, PTL DEF HSpec

(* In every reachable state the message under construction is what the     *)
(* lines fed since the last boundary or reset mean as one block, for all   *)
(* lines and callbacks (feed_line, complete_message, reset).               *)
THEOREM CurrentCorrect == HSpec => []CurrentIsItsBlock
<1>1. BlockInv => CurrentIsItsBlock
  BY DEF BlockInv
<1> QED
  BY <1>1, BlockInvariant, PTL

--------------------------------------------------------------------------------
(* What became of the completed messages.                                  *)

(* What QueueKeepsEveryMessage and CallbackSeesEveryMessage need beside    *)
(* BlockInv to be inductive.                                               *)
MessageInv ==
  /\ popped \in Seq(Message)
  /\ registered = callback_
  /\ QueueKeepsEveryMessage
  /\ CallbackSeesEveryMessage

(* A message appended to the queue is appended to what was taken from it   *)
(* and what it still holds.                                                *)
LEMMA AppendToSecond ==
  ASSUME NEW S, NEW s \in Seq(S), NEW t \in Seq(S), NEW m \in S
  PROVE  s \o Append(t, m) = Append(s \o t, m)
<1>1. <<m>> \in Seq(S) /\ s \o t \in Seq(S)
  BY ConcatProperties
<1>2. Append(t, m) = t \o <<m>> /\ Append(s \o t, m) = (s \o t) \o <<m>>
  BY <1>1, AppendIsConcat
<1> QED
  BY <1>1, <1>2, ConcatAssociative

(* A message moved from the front of the queue to the end of those taken   *)
(* keeps its place.                                                        *)
LEMMA MoveToFirst ==
  ASSUME NEW S, NEW s \in Seq(S), NEW t \in Seq(S), t # <<>>
  PROVE  Append(s, Head(t)) \o Tail(t) = s \o t
<1>1. Head(t) \in S /\ Tail(t) \in Seq(S) /\ <<Head(t)>> \in Seq(S)
  BY HeadTailProperties
<1>2. <<Head(t)>> \o Tail(t) = t
  <2> DEFINE u == <<Head(t)>> \o Tail(t)
             h == <<Head(t)>>
  <2>1. h \in Seq(S) /\ Len(h) = 1 /\ h[1] = t[1]
    BY <1>1
  <2>2. /\ Len(Tail(t)) = Len(t) - 1 /\ Len(t) \in Nat
        /\ \A i \in 1 .. Len(t) - 1 : Tail(t)[i] = t[i + 1]
    BY HeadTailProperties
  <2>3. /\ u \in Seq(S) /\ Len(u) = Len(h) + Len(Tail(t))
        /\ \A i \in 1 .. Len(h) + Len(Tail(t)) :
             u[i] = IF i <= Len(h) THEN h[i] ELSE Tail(t)[i - Len(h)]
    BY <1>1, <2>1, ConcatProperties
  <2> HIDE DEF h, u
  <2>4. Len(u) = Len(t)
    BY <2>1, <2>2, <2>3
  <2>5. ASSUME NEW i \in 1 .. Len(u) PROVE u[i] = t[i]
    <3>1. CASE i = 1
      BY <2>1, <2>2, <2>3, <2>4, <3>1
    <3>2. CASE i # 1
      <4>1. /\ i \in 1 .. Len(h) + Len(Tail(t)) /\ ~ (i <= Len(h))
            /\ i - Len(h) \in 1 .. Len(t) - 1 /\ (i - Len(h)) + 1 = i
        BY <2>1, <2>2, <2>3, <2>4, <3>2
      <4> QED
        BY <2>2, <2>3, <4>1
    <3> QED
      BY <3>1, <3>2
  <2>6. u = t
    BY <2>3, <2>4, <2>5, SeqEqual
  <2> QED
    BY <2>6 DEF u, h
<1>3. Append(s, Head(t)) = s \o <<Head(t)>>
  BY <1>1, AppendIsConcat
<1> QED
  BY <1>1, <1>2, <1>3, ConcatAssociative

(* A line that is not empty completes nothing and calls nobody.            *)
LEMMA FieldLineIsQuiet ==
  ASSUME NEW line, ProcessField(line)
  PROVE  UNCHANGED completed_messages_ /\ out'.called = None
  BY DEF ProcessField, Nothing

(* A completed message goes to the queue and to the callback that is set.  *)
LEMMA CompleteMessageDelivers ==
  ASSUME BlockInv, CompleteMessage
  PROVE  /\ completed_messages_' = Append(completed_messages_, Interpret(block))
         /\ out'.called = IF callback_ # None
                          THEN [to |-> callback_, msg |-> Interpret(block)] ELSE None
         /\ callback_ # None => out'.called # None
<1>1. current_msg_ = Interpret(block) /\ current_msg_ \in Message
      /\ callback_ \in Callbacks \cup {None}
  BY DEF BlockInv, CurrentIsItsBlock, TypeOK
<1>2. out'.called = IF callback_ # None
                    THEN [to |-> callback_, msg |-> current_msg_] ELSE None
  BY DEF CompleteMessage, Notify, Nothing
<1>3. ASSUME callback_ # None PROVE [to |-> callback_, msg |-> current_msg_] # None
  BY <1>1, <1>3, MessageBuilderAssumption
<1> QED
  BY <1>1, <1>2, <1>3 DEF CompleteMessage

(* Every operation keeps the messages accounted for.                       *)
LEMMA MessageStep ==
  ASSUME BlockInv, MessageInv, [HNext]_<<vars, history>>
  PROVE  MessageInv'
<1>1. /\ completed_messages_ \in Seq(Message) /\ popped \in Seq(Message)
      /\ popped \o completed_messages_ = completed /\ shown = due
      /\ registered = callback_
  BY DEF BlockInv, TypeOK, MessageInv, QueueKeepsEveryMessage, CallbackSeesEveryMessage
<1>2. ASSUME UNCHANGED <<completed_messages_, callback_, popped, completed, due, shown,
                         registered>>
      PROVE  MessageInv'
  BY <1>2 DEF MessageInv, QueueKeepsEveryMessage, CallbackSeesEveryMessage
<1>3. ASSUME NEW line \in Lines, HFeedLine(line) PROVE MessageInv'
  <2>1. CASE line = <<>>
    <3>1. CompleteMessage
      BY <1>3, <2>1 DEF HFeedLine, FeedLine
    <3>2. /\ completed' = Append(completed, Interpret(block))
          /\ due' = IF registered # None
                    THEN Append(due, [to |-> registered, msg |-> Interpret(block)])
                    ELSE due
          /\ shown' = IF out'.called # None THEN Append(shown, out'.called) ELSE shown
          /\ popped' = popped /\ registered' = registered
      BY <1>3, <2>1 DEF HFeedLine
    <3>3. /\ completed_messages_' = Append(completed_messages_, Interpret(block))
          /\ out'.called = IF callback_ # None
                           THEN [to |-> callback_, msg |-> Interpret(block)] ELSE None
          /\ callback_ # None => out'.called # None
          /\ callback_' = callback_
      BY <3>1, CompleteMessageDelivers DEF CompleteMessage
    <3>4. shown' = due'
      BY <1>1, <3>2, <3>3, Zenon
    <3>5. Interpret(block) \in Message
      BY DEF BlockInv, CurrentIsItsBlock, TypeOK
    <3>6. popped' \o completed_messages_' = completed'
      <4> DEFINE m == Interpret(block)
      <4> HIDE DEF m
      <4>1. popped \o Append(completed_messages_, m)
            = Append(popped \o completed_messages_, m)
        BY <1>1, <3>5, AppendToSecond DEF m
      <4> QED
        BY <1>1, <3>2, <3>3, <4>1, Zenon DEF m
    <3> QED
      BY <1>1, <3>2, <3>3, <3>4, <3>6
         DEF MessageInv, QueueKeepsEveryMessage, CallbackSeesEveryMessage
  <2>2. CASE line # <<>>
    <3>1. ProcessField(line)
      BY <1>3, <2>2 DEF HFeedLine, FeedLine
    <3>2. UNCHANGED completed_messages_ /\ out'.called = None
      BY <3>1, FieldLineIsQuiet
    <3> QED
      BY <1>2, <1>3, <2>2, <3>1, <3>2 DEF HFeedLine, ProcessField
  <2> QED
    BY <2>1, <2>2
<1>4. CASE HGetMessage
  <2>1. CASE HasMessage
    <3>1. /\ out'.got = Head(completed_messages_)
          /\ completed_messages_' = Tail(completed_messages_)
      BY <1>4, <2>1 DEF HGetMessage, GetMessage, PopFront, Nothing
    <3>2. Head(completed_messages_) \in Message /\ Head(completed_messages_) # None
      BY <1>1, <2>1, HeadTailProperties, MessageBuilderAssumption DEF HasMessage
    <3>3. popped' = Append(popped, Head(completed_messages_))
      BY <1>4, <3>1, <3>2 DEF HGetMessage
    <3>4. Append(popped, Head(completed_messages_)) \o Tail(completed_messages_)
          = popped \o completed_messages_
      BY <1>1, <2>1, MoveToFirst DEF HasMessage
    <3>5. popped' \in Seq(Message)
      BY <1>1, <3>2, <3>3, AppendProperties
    <3>6. /\ registered' = registered /\ callback_' = callback_
          /\ completed' = completed /\ shown' = shown /\ due' = due
      BY <1>4 DEF HGetMessage, GetMessage
    <3> QED
      BY <1>1, <3>1, <3>3, <3>4, <3>5, <3>6
         DEF MessageInv, QueueKeepsEveryMessage, CallbackSeesEveryMessage
  <2>2. CASE ~ HasMessage
    <3>1. UNCHANGED <<completed_messages_, callback_>> /\ out'.got = None
      BY <1>4, <2>2 DEF HGetMessage, GetMessage, Nothing
    <3> QED
      BY <1>2, <1>4, <3>1 DEF HGetMessage
  <2> QED
    BY <2>1, <2>2
<1>5. CASE HReset
  BY <1>2, <1>5 DEF HReset, Reset
<1>6. CASE HClearLastEventId
  BY <1>2, <1>6 DEF HClearLastEventId, ClearLastEventId
<1>7. ASSUME NEW callback, HSetCallback(callback) PROVE MessageInv'
  BY <1>7 DEF HSetCallback, SetCallback, MessageInv, QueueKeepsEveryMessage,
              CallbackSeesEveryMessage
<1>8. CASE UNCHANGED <<vars, history>>
  BY <1>2, <1>8 DEF vars, history
<1> QED
  BY <1>3, <1>4, <1>5, <1>6, <1>7, <1>8 DEF HNext

(* Nothing is completed, queued or shown at first.                         *)
LEMMA MessageStart == HInit => MessageInv
  BY EmptySeq DEF HInit, Init, MessageInv, QueueKeepsEveryMessage, CallbackSeesEveryMessage

(* Every message ever completed is in the queue or was taken from it by    *)
(* get_message, once and in order, whatever is fed, reset or registered in *)
(* between (complete_message, get_message).                                *)
THEOREM QueueCorrect == HSpec => []QueueKeepsEveryMessage
<1>1. MessageInv => QueueKeepsEveryMessage
  BY DEF MessageInv
<1> QED
  BY <1>1, MessageStart, MessageStep, BlockInvariant, PTL DEF HSpec

(* The callback calls are those due: one for each message completed while  *)
(* a callback was set, to the one set then (complete_message,              *)
(* set_callback).                                                          *)
THEOREM CallbackCorrect == HSpec => []CallbackSeesEveryMessage
<1>1. MessageInv => CallbackSeesEveryMessage
  BY DEF MessageInv
<1> QED
  BY <1>1, MessageStart, MessageStep, BlockInvariant, PTL DEF HSpec

--------------------------------------------------------------------------------
(* The last event id.                                                      *)

(* What LastIdOfCompleted needs beside BlockInv to be inductive.           *)
IdInv ==
  /\ completed \in Seq(Message)
  /\ ids_from \in 0 .. Len(completed)
  /\ LastIdOfCompleted

(* Completing a message keeps the last id if it has none, and takes its id *)
(* if it has one.                                                          *)
LEMMA IdOfLonger ==
  ASSUME IdInv, NEW m \in Message, completed' = Append(completed, m), ids_from' = ids_from,
         last_event_id_' = IF m.id # None THEN m.id ELSE last_event_id_
  PROVE  IdInv'
<1> DEFINE n == Len(completed)
           longer == Append(completed, m)
<1>1. /\ n \in Nat /\ longer \in Seq(Message) /\ Len(longer) = n + 1 /\ longer[n + 1] = m
      /\ \A i \in 1 .. n : longer[i] = completed[i]
      /\ ids_from \in 0 .. n
  BY AppendProperties DEF IdInv
<1> HIDE DEF n, longer
<1>2. CASE m.id # None
  <2>1. n + 1 \in ids_from' + 1 .. Len(longer) /\ last_event_id_' = longer[n + 1].id
    BY <1>1, <1>2
  <2>2. \A i \in (n + 1) + 1 .. Len(longer) : longer[i].id = None
    BY <1>1
  <2>3. LastIdOfCompleted'
    BY <2>1, <2>2, Zenon DEF LastIdOfCompleted, longer
  <2> QED
    BY <1>1, <2>3 DEF IdInv, longer
<1>3. CASE m.id = None
  <2>1. ASSUME NEW first \in 1 .. n + 1, \A i \in first .. n : completed[i].id = None
        PROVE  \A i \in first .. Len(longer) : longer[i].id = None
    BY <1>1, <1>3, <2>1
  <2>2. last_event_id_' = last_event_id_
    BY <1>3
  <2>3. CASE last_event_id_ = <<>> /\ \A i \in ids_from + 1 .. n : completed[i].id = None
    <3>1. ids_from + 1 \in 1 .. n + 1
      BY <1>1
    <3>2. \A i \in ids_from' + 1 .. Len(longer) : longer[i].id = None
      BY <2>1, <2>3, <3>1
    <3>3. LastIdOfCompleted'
      BY <2>2, <2>3, <3>2, Zenon DEF LastIdOfCompleted, longer
    <3> QED
      BY <1>1, <3>3 DEF IdInv, longer
  <2>4. CASE \E i \in ids_from + 1 .. n :
               /\ last_event_id_ = completed[i].id
               /\ \A j \in i + 1 .. n : completed[j].id = None
    <3>1. PICK i \in ids_from + 1 .. n :
                 /\ last_event_id_ = completed[i].id
                 /\ \A j \in i + 1 .. n : completed[j].id = None
      BY <2>4
    <3>2. /\ i \in 1 .. n /\ i + 1 \in 1 .. n + 1
          /\ i \in ids_from' + 1 .. Len(longer)
      BY <1>1
    <3>3. last_event_id_' = longer[i].id
      BY <1>1, <2>2, <3>1, <3>2
    <3>4. \A j \in i + 1 .. Len(longer) : longer[j].id = None
      BY <2>1, <3>1, <3>2
    <3>5. LastIdOfCompleted'
      BY <3>2, <3>3, <3>4, Zenon DEF LastIdOfCompleted, longer
    <3> QED
      BY <1>1, <3>5 DEF IdInv, longer
  <2> QED
    BY <2>3, <2>4, Zenon DEF IdInv, LastIdOfCompleted, n
<1> QED
  BY <1>2, <1>3

(* Every operation keeps the last id that of the completed messages.       *)
LEMMA IdStep ==
  ASSUME BlockInv, IdInv, [HNext]_<<vars, history>>
  PROVE  IdInv'
<1>1. ASSUME UNCHANGED <<completed, ids_from, last_event_id_>> PROVE IdInv'
  BY <1>1 DEF IdInv, LastIdOfCompleted
<1>2. ASSUME NEW line \in Lines, HFeedLine(line) PROVE IdInv'
  <2>1. CASE line = <<>>
    <3>1. current_msg_ = Interpret(block) /\ current_msg_ \in Message
      BY DEF BlockInv, CurrentIsItsBlock, TypeOK
    <3>2. /\ completed' = Append(completed, current_msg_)
          /\ ids_from' = ids_from
          /\ last_event_id_' = IF current_msg_.id # None
                               THEN current_msg_.id ELSE last_event_id_
      BY <1>2, <2>1, <3>1 DEF HFeedLine, FeedLine, CompleteMessage, TrackId
    <3> QED
      BY <3>1, <3>2, IdOfLonger
  <2>2. CASE line # <<>>
    BY <1>1, <1>2, <2>2 DEF HFeedLine, FeedLine, ProcessField
  <2> QED
    BY <2>1, <2>2
<1>3. CASE HGetMessage
  BY <1>1, <1>3 DEF HGetMessage, GetMessage
<1>4. CASE HReset
  BY <1>1, <1>4 DEF HReset, Reset
<1>5. CASE HClearLastEventId
  <2>1. last_event_id_' = <<>> /\ ids_from' = Len(completed) /\ completed' = completed
    BY <1>5 DEF HClearLastEventId, ClearLastEventId
  <2>2. Len(completed) \in Nat /\ completed \in Seq(Message)
    BY DEF IdInv
  <2>3. \A i \in Len(completed) + 1 .. Len(completed) : completed[i].id = None
    BY <2>2
  <2>4. LastIdOfCompleted'
    BY <2>1, <2>3, Zenon DEF LastIdOfCompleted
  <2> QED
    BY <2>1, <2>2, <2>4 DEF IdInv
<1>6. ASSUME NEW callback, HSetCallback(callback) PROVE IdInv'
  BY <1>1, <1>6 DEF HSetCallback, SetCallback
<1>7. CASE UNCHANGED <<vars, history>>
  BY <1>1, <1>7 DEF vars, history
<1> QED
  BY <1>2, <1>3, <1>4, <1>5, <1>6, <1>7 DEF HNext

(* last_event_id() is the id of the latest completed message that has one, *)
(* since clear_last_event_id; never that of a message that is not complete *)
(* or was dropped (complete_message, reset, clear_last_event_id).          *)
THEOREM LastIdCorrect == HSpec => []LastIdOfCompleted
<1>1. HInit => IdInv
  <2> SUFFICES ASSUME HInit PROVE IdInv
    OBVIOUS
  <2>1. /\ completed = <<>> /\ ids_from = 0 /\ last_event_id_ = <<>>
        /\ Len(completed) = 0 /\ completed \in Seq(Message)
    BY EmptySeq DEF HInit, Init
  <2>2. \A i \in ids_from + 1 .. Len(completed) : completed[i].id = None
    BY <2>1
  <2>3. LastIdOfCompleted
    BY <2>1, <2>2, Zenon DEF LastIdOfCompleted
  <2> QED
    BY <2>1, <2>3 DEF IdInv
<1>2. IdInv => LastIdOfCompleted
  BY DEF IdInv
<1> QED
  BY <1>1, <1>2, IdStep, BlockInvariant, PTL DEF HSpec

================================================================================
