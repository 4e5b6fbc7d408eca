-------------------------- MODULE SseReentrantProofs --------------------------
(***************************************************************************)
(* Theorems about SseReentrant for every set of chunks, of callbacks and   *)
(* of calls that callbacks make, every depth of nesting, every limit and   *)
(* every INT_MAX, and callbacks that throw.                                *)
(***************************************************************************)
EXTENDS SseReentrant, TextLemmas, SequenceTheorems

--------------------------------------------------------------------------------
(* BufP and BldP are Buf and Bld, with theorems; BldP is given no history  *)
(* of the builder.                                                         *)

BufP == INSTANCE BufferProofs WITH Byte <- Token, MaxSizes <- {MaxSize}
BldP == INSTANCE MessageBuilderProofs WITH
          Lines <- {}, Callbacks <- StdCallbacks,
          MaxLines <- 0, fed <- 0, block <- <<>>, completed <- <<>>, due <- <<>>,
          shown <- <<>>, popped <- <<>>, registered <- None, ids_from <- 0

(* The parser gives its parts what they assume.                            *)
LEMMA PartsAssumptions ==
  /\ BufP!BufferAssumption
  /\ BldP!FieldParserAssumption
  /\ BldP!MessageBuilderAssumption
<1>1. BufP!BufferAssumption
  <2>1. CR \in Token /\ LF \in Token /\ Chunks \subseteq Seq(Token) /\ MaxSize \in Nat
    BY FieldParserAssumption, SseReentrantAssumption
  <2>2. CR # LF
    BY DEF CR, LF
  <2> QED
    BY <2>1, <2>2 DEF BufP!BufferAssumption
<1> QED
  BY <1>1, FieldParserAssumption, SseReentrantAssumption DEF
     BldP!MessageBuilderAssumption, BldP!FieldParserAssumption, BldP!Message, Message,
     BldP!Colon, BldP!Space, BldP!CR, BldP!LF, Colon, Space, CR, LF

(* The operations of the buffer, seen through either instance.             *)
LEMMA SameBuffer ==
  /\ Buf!TypeOK <=> BufP!TypeOK
  /\ Buf!TypeOK' <=> BufP!TypeOK'
  /\ \A chunk : Buf!AppendChunk(chunk) <=> BufP!AppendChunk(chunk)
  /\ Buf!ReadLine <=> BufP!ReadLine
  /\ Buf!Clear <=> BufP!Clear
  BY DEF
     Buf!TypeOK, BufP!TypeOK, Buf!Results, BufP!Results, Buf!AppendChunk,
     BufP!AppendChunk, Buf!Fits, BufP!Fits, Buf!Compact, BufP!Compact,
     Buf!Unread, BufP!Unread, Buf!ReadLine, BufP!ReadLine, Buf!LineEnds,
     BufP!LineEnds, Buf!FindLineEnd, BufP!FindLineEnd, Buf!EOL, BufP!EOL,
     Buf!AfterTerminator, BufP!AfterTerminator, Buf!RawLine, BufP!RawLine,
     Buf!TrimmedLen, BufP!TrimmedLen, Buf!Clear, BufP!Clear

(* The functions of the field parser, seen through either instance.        *)
LEMMA SameRetry == \A v : Bld!ParseRetryValue(v) = BldP!ParseRetryValue(v)
  BY DEF
     Bld!ParseRetryValue, BldP!ParseRetryValue, Bld!Trim, BldP!Trim,
     Bld!IsSpace, BldP!IsSpace, Bld!DigitLoop, BldP!DigitLoop, Bld!AddDigit,
     BldP!AddDigit, Bld!IsDigit, BldP!IsDigit, Bld!Digits, BldP!Digits,
     Bld!DigitValue, BldP!DigitValue, Bld!WouldOverflow, BldP!WouldOverflow,
     Bld!Space, BldP!Space, Bld!CR, BldP!CR, Bld!LF, BldP!LF

(* The parts of a line, seen through either instance.                      *)
LEMMA SameFields ==
  \A v : /\ Bld!FieldValue(v) = BldP!FieldValue(v)
        /\ Bld!FieldName(v) = BldP!FieldName(v)
        /\ Bld!IsComment(v) = BldP!IsComment(v)
        /\ Bld!DataValue(v) = BldP!DataValue(v)
        /\ Bld!IsDataLine(v) = BldP!IsDataLine(v)
  BY DEF
     Bld!FieldValue, BldP!FieldValue, Bld!FieldName, BldP!FieldName,
     Bld!HasColon, BldP!HasColon, Bld!StripSpace, BldP!StripSpace,
     Bld!FirstColon, BldP!FirstColon, Bld!IsComment, BldP!IsComment,
     Bld!DataValue, BldP!DataValue, Bld!IsDataLine, BldP!IsDataLine,
     Bld!Colon, BldP!Colon, Bld!Space, BldP!Space

(* parse_field_line, seen through either instance.                         *)
LEMMA SameParse ==
  \A line, msg : Bld!ParseFieldLine(line, msg) = BldP!ParseFieldLine(line, msg)
  BY SameRetry, SameFields DEF
     Bld!ParseFieldLine, BldP!ParseFieldLine

(* The operations of the builder, seen through either instance.            *)
LEMMA SameBuilder ==
  /\ Bld!TypeOK <=> BldP!TypeOK
  /\ Bld!TypeOK' <=> BldP!TypeOK'
  /\ \A line : Bld!ProcessField(line) <=> BldP!ProcessField(line)
  /\ Bld!Reset <=> BldP!Reset
  /\ \A callback : Bld!SetCallback(callback) <=> BldP!SetCallback(callback)
<1>1. (Bld!TypeOK <=> BldP!TypeOK) /\ (Bld!TypeOK' <=> BldP!TypeOK')
  BY DEF
     Bld!TypeOK, BldP!TypeOK, Bld!Message, BldP!Message
<1>2. ASSUME NEW line PROVE Bld!ProcessField(line) <=> BldP!ProcessField(line)
  BY SameFields, SameParse DEF
     Bld!ProcessField, BldP!ProcessField, Bld!AddData, BldP!AddData,
     Bld!Merge, BldP!Merge, Bld!Nothing, BldP!Nothing, Bld!DefaultMessage,
     BldP!DefaultMessage, Bld!LF, BldP!LF
<1>3. Bld!Reset <=> BldP!Reset
  BY DEF
     Bld!Reset, BldP!Reset, Bld!Nothing, BldP!Nothing, Bld!DefaultMessage,
     BldP!DefaultMessage
<1>4. ASSUME NEW callback
      PROVE  Bld!SetCallback(callback) <=> BldP!SetCallback(callback)
  BY DEF
     Bld!SetCallback, BldP!SetCallback, Bld!Nothing, BldP!Nothing
<1> QED
  BY <1>1, <1>2, <1>3, <1>4

(* What the operations of the buffer do to a well formed one.              *)
LEMMA BufferSteps ==
  ASSUME Buf!TypeOK
  PROVE  /\ \A chunk \in Seq(Token) :
              Buf!AppendChunk(chunk) => /\ Buf!TypeOK'
                                        /\ ret'.err \in {"success", "buffer_overflow"}
         /\ Buf!ReadLine => Buf!TypeOK' /\ ret'.line \in Seq(Token) \cup {None}
         /\ Buf!Clear => Buf!TypeOK'
<1>1. BufP!TypeOK /\ (Buf!TypeOK' <=> BufP!TypeOK')
  BY SameBuffer
<1>2. ASSUME NEW chunk \in Seq(Token), Buf!AppendChunk(chunk)
      PROVE  Buf!TypeOK' /\ ret'.err \in {"success", "buffer_overflow"}
  <2>1. BufP!AppendChunk(chunk)
    BY <1>2, SameBuffer
  <2>2. /\ BufP!TypeOK'
        /\ ret' \in [call : {"append"}, err : {"success", "buffer_overflow"}]
    BY <1>1, <2>1, PartsAssumptions, BufP!AppendChunkType
  <2> QED
    BY <1>1, <2>2
<1>3. ASSUME Buf!ReadLine
      PROVE  Buf!TypeOK' /\ ret'.line \in Seq(Token) \cup {None}
  <2>1. BufP!ReadLine
    BY <1>3, SameBuffer
  <2>2. /\ BufP!TypeOK'
        /\ ret' \in [call : {"read_line"}, line : Seq(Token) \cup {None}]
    BY <1>1, <2>1, PartsAssumptions, BufP!ReadLineType
  <2> QED
    BY <1>1, <2>2
<1>4. Buf!Clear => Buf!TypeOK'
  BY <1>1, SameBuffer, PartsAssumptions, BufP!ClearType
<1> QED
  BY <1>2, <1>3, <1>4

(* What the operations of the builder do to a well formed one.             *)
LEMMA BuilderSteps ==
  ASSUME Bld!TypeOK
  PROVE  /\ \A line \in Seq(Token) : Bld!ProcessField(line) => Bld!TypeOK'
         /\ Bld!Reset => Bld!TypeOK'
         /\ \A callback \in StdCallbacks \cup {None} :
              Bld!SetCallback(callback) => Bld!TypeOK'
<1>1. BldP!TypeOK /\ (Bld!TypeOK' <=> BldP!TypeOK')
  BY SameBuilder
<1>2. ASSUME NEW line \in Seq(Token), Bld!ProcessField(line) PROVE Bld!TypeOK'
  <2>1. BldP!ProcessField(line)
    BY <1>2, SameBuilder
  <2> QED
    BY <1>1, <2>1, PartsAssumptions, BldP!ProcessFieldType
<1>3. Bld!Reset => Bld!TypeOK'
  BY <1>1, SameBuilder, PartsAssumptions, BldP!ResetType
<1>4. ASSUME NEW callback \in StdCallbacks \cup {None}, Bld!SetCallback(callback)
      PROVE  Bld!TypeOK'
  BY <1>1, <1>4, SameBuilder, PartsAssumptions, BldP!SetCallbackType
<1> QED
  BY <1>2, <1>3, <1>4

--------------------------------------------------------------------------------
(* The stack.                                                              *)

(* What TypeOK says of the stack: all calls wait for a callback, save      *)
(* perhaps the one on top.                                                 *)
StackOK ==
  /\ stack \in Seq(Frame) /\ Len(stack) <= MaxDepth
  /\ \A i \in 2 .. Len(stack) : stack[i].running # None

Places == {"loop", "leftover", "complete", "clear"}

(* The call on top, when there is one.                                     *)
LEMMA TopIsFrame ==
  ASSUME StackOK, stack # <<>>
  PROVE  Top \in Frame /\ Top = stack[1] /\ Len(stack) \in Nat /\ 1 \in 1 .. Len(stack)
<1>1. stack \in Seq(Frame)
  BY DEF StackOK
<1>2. Top \in Frame /\ Len(stack) \in Nat \ {0}
  BY <1>1, HeadTailProperties, EmptySeq DEF Top
<1> QED
  BY <1>1, <1>2 DEF Top

(* A call that goes on stays on top.                                       *)
LEMMA GotoEffect ==
  ASSUME StackOK, stack # <<>>, NEW at \in Places, NEW running \in Delivery \cup {None},
         Goto(at, running)
  PROVE  /\ StackOK' /\ stack' # <<>> /\ Len(stack') = Len(stack)
         /\ Top'.running = running /\ Top'.at = at /\ Top'.call = Top.call
         /\ result' = result
<1> DEFINE frame == [call |-> Top.call, at |-> at, running |-> running]
<1>1. Top \in Frame /\ Len(stack) \in Nat /\ 1 \in 1 .. Len(stack) /\ stack \in Seq(Frame)
  BY TopIsFrame DEF StackOK
<1>2. frame \in Frame
  BY <1>1 DEF Frame, Places
<1>3. stack' = [stack EXCEPT ![1] = frame] /\ result' = result
  BY DEF Goto
<1>4. frame.running = running /\ frame.at = at /\ frame.call = Top.call
  OBVIOUS
<1> HIDE DEF frame
<1>5. /\ stack' \in Seq(Frame) /\ Len(stack') = Len(stack)
      /\ \A j \in 1 .. Len(stack) : stack'[j] = IF j = 1 THEN frame ELSE stack[j]
  BY <1>1, <1>2, <1>3, ExceptSeq
<1>6. stack'[1] = frame /\ \A j \in 2 .. Len(stack') : stack'[j] = stack[j]
  BY <1>1, <1>5
<1>7. StackOK'
  BY <1>5, <1>6 DEF StackOK
<1>8. stack' # <<>>
  BY <1>1, <1>5
<1>9. Top' = frame
  BY <1>5, <1>6, <1>8 DEF Top
<1> QED
  BY <1>3, <1>4, <1>5, <1>7, <1>8, <1>9

(* A call that returns leaves one that waits for a callback on top, or     *)
(* none.                                                                   *)
LEMMA ReturnEffect ==
  ASSUME StackOK, stack # <<>>, NEW err, Return(err)
  PROVE  /\ StackOK' /\ Len(stack') = Len(stack) - 1
         /\ stack' # <<>> => Top'.running # None
         /\ result' = [call |-> Top.call, err |-> err]
         /\ Top.call \in {"parse", "flush"}
<1>1. Top \in Frame /\ Len(stack) \in Nat /\ stack \in Seq(Frame)
  BY TopIsFrame DEF StackOK
<1>2. stack' = Tail(stack) /\ result' = [call |-> Top.call, err |-> err]
  BY DEF Return
<1>3. /\ stack' \in Seq(Frame) /\ Len(stack') = Len(stack) - 1
      /\ \A i \in 1 .. Len(stack') : stack'[i] = stack[i + 1]
  BY <1>1, <1>2, HeadTailProperties
<1>4. MaxDepth \in Nat
  BY SseReentrantAssumption
<1>5. ASSUME NEW i \in 1 .. Len(stack') PROVE stack'[i].running # None
  <2>1. i + 1 \in 2 .. Len(stack) /\ stack'[i] = stack[i + 1]
    BY <1>1, <1>3
  <2> QED
    BY <2>1 DEF StackOK
<1>6. StackOK'
  <2>1. \A i \in 2 .. Len(stack') : i \in 1 .. Len(stack')
    BY <1>1, <1>3
  <2>2. Len(stack') <= MaxDepth
    BY <1>1, <1>3, <1>4 DEF StackOK
  <2> QED
    BY <1>3, <1>5, <2>1, <2>2 DEF StackOK
<1>7. ASSUME stack' # <<>> PROVE Top'.running # None
  <2>1. 1 \in 1 .. Len(stack') /\ Top' = stack'[1]
    <3>1. Len(stack') \in Nat \ {0}
      BY <1>3, <1>7, EmptySeq
    <3> QED
      BY <1>3, <1>7, <3>1 DEF Top
  <2> QED
    BY <1>5, <2>1
<1> QED
  BY <1>1, <1>2, <1>3, <1>6, <1>7 DEF Frame

(* A call made by a callback, or while no call is in progress.             *)
LEMMA EnterEffect ==
  ASSUME StackOK, Len(stack) < MaxDepth, stack # <<>> => Top.running # None,
         NEW call \in {"parse", "flush"}, Enter(call)
  PROVE  /\ StackOK' /\ Len(stack') = Len(stack) + 1
         /\ stack' # <<>> /\ Top'.running = None /\ result' = result
         /\ Top'.at = "loop" /\ Top'.call = call
<1> DEFINE frame == [call |-> call, at |-> "loop", running |-> None]
           one == <<frame>>
<1>1. stack \in Seq(Frame) /\ Len(stack) \in Nat /\ MaxDepth \in Nat
  BY SseReentrantAssumption DEF StackOK
<1>2. /\ frame \in Frame /\ frame.running = None
      /\ frame.at = "loop" /\ frame.call = call
  BY DEF Frame
<1>3. stack' = one \o stack /\ result' = result
  BY DEF Enter
<1> HIDE DEF frame
<1>4. one \in Seq(Frame) /\ Len(one) = 1 /\ one[1] = frame
  BY <1>2
<1> HIDE DEF one
<1>5. /\ stack' \in Seq(Frame) /\ Len(stack') = 1 + Len(stack)
      /\ \A i \in 1 .. 1 + Len(stack) :
           stack'[i] = IF i <= 1 THEN one[i] ELSE stack[i - 1]
  <2>1. /\ one \o stack \in Seq(Frame) /\ Len(one \o stack) = Len(one) + Len(stack)
        /\ \A i \in 1 .. Len(one) + Len(stack) :
             (one \o stack)[i] = IF i <= Len(one) THEN one[i] ELSE stack[i - Len(one)]
    BY <1>1, <1>4, ConcatProperties
  <2> QED
    BY <1>3, <1>4, <2>1
<1>6. stack'[1] = frame /\ stack' # <<>> /\ Top' = stack'[1]
  <2>1. 1 \in 1 .. 1 + Len(stack) /\ stack'[1] = frame
    BY <1>1, <1>4, <1>5
  <2>2. stack' # <<>>
    BY <1>1, <1>5
  <2> QED
    BY <1>5, <2>1, <2>2 DEF Top
<1>7. ASSUME NEW i \in 2 .. Len(stack') PROVE stack'[i].running # None
  <2>1. /\ i \in 1 .. 1 + Len(stack) /\ ~ (i <= 1) /\ i - 1 \in 1 .. Len(stack)
        /\ stack'[i] = stack[i - 1]
    BY <1>1, <1>5
  <2>2. CASE i - 1 = 1
    <3>1. stack # <<>> /\ stack[1] = Top
      BY <1>1, <2>1, <2>2 DEF Top
    <3> QED
      BY <2>1, <2>2, <3>1
  <2>3. CASE i - 1 # 1
    <3>1. i - 1 \in 2 .. Len(stack)
      BY <1>1, <2>1, <2>3
    <3> QED
      BY <2>1, <3>1 DEF StackOK
  <2> QED
    BY <2>2, <2>3
<1>8. StackOK'
  BY <1>1, <1>5, <1>7 DEF StackOK
<1> QED
  BY <1>1, <1>2, <1>3, <1>5, <1>6, <1>8

--------------------------------------------------------------------------------
(* The invariant: TypeOK and OneMessagePerBoundary, which is inductive with *)
(* it, because TypeOK says that the calls below the top wait.              *)

IInv == TypeOK /\ OneMessagePerBoundary

Results ==
  [call : {"none", "parse", "flush", "reset", "set_callback"},
   err : {"success", "buffer_overflow", "invalid_retry", "exception"}]

(* The queue has a length.                                                 *)
LEMMA Lengths ==
  ASSUME IInv
  PROVE  /\ Buf!TypeOK /\ Bld!TypeOK /\ StackOK /\ result \in Results
         /\ Len(stack) \in Nat /\ completed_messages_ \in Seq(Message)
         /\ Len(completed_messages_) \in Nat
         /\ owed = Len(completed_messages_) + Len(stack) - (IF ParserRuns THEN 1 ELSE 0)
<1>1. completed_messages_ \in Seq(Message) /\ stack \in Seq(Frame)
  BY DEF IInv, TypeOK, Bld!TypeOK, Bld!Message, Message
<1> QED
  BY <1>1 DEF IInv, TypeOK, OneMessagePerBoundary, StackOK, Results

(* The last part of complete_message queues one message.                   *)
LEMMA FinishEffect ==
  ASSUME IInv, FinishMessage
  PROVE  /\ current_msg_' \in Message /\ accumulating_data_' \in BOOLEAN
         /\ completed_messages_' \in Seq(Message)
         /\ Len(completed_messages_') = Len(completed_messages_) + 1
<1>1. current_msg_ \in Message
  BY Lengths DEF Bld!TypeOK, Bld!Message, Message
<1>2. DefaultMessage \in Message
  <2>1. "message" \in Token
    BY FieldParserAssumption
  <2> QED
    BY <2>1, EmptySeq DEF DefaultMessage, Message
<1> QED
  BY <1>1, <1>2, Lengths, AppendProperties DEF FinishMessage

(* complete_message: with a callback, the message is owed until it returns. *)
LEMMA CompleteEffect ==
  ASSUME IInv, ParserRuns, NEW next \in Places, CompleteMessage(next)
  PROVE  /\ Bld!TypeOK' /\ StackOK' /\ OneMessagePerBoundary'
         /\ delivered' \in Seq(Delivery) /\ result' = result
<1>1. /\ current_msg_ \in Message /\ callback_ \in StdCallbacks \cup {None}
      /\ last_event_id_ \in Seq(Token) /\ accumulating_data_ \in BOOLEAN
      /\ delivered \in Seq(Delivery)
  BY DEF IInv, TypeOK, Bld!TypeOK, Bld!Message, Message
<1>2. out' = [err |-> "success", got |-> None,
              called |-> IF callback_ # None
                         THEN [to |-> callback_, msg |-> current_msg_] ELSE None]
  BY DEF CompleteMessage, Bld!Notify, Bld!Nothing
<1>3. out'.called \in Delivery \cup {None}
  BY <1>1, <1>2 DEF Delivery
<1>4. last_event_id_' \in Seq(Token) /\ callback_' = callback_ /\ owed' = owed + 1
  BY <1>1 DEF CompleteMessage, Bld!TrackId, Message
<1>5. /\ StackOK' /\ stack' # <<>> /\ Len(stack') = Len(stack)
      /\ Top'.running = out'.called /\ result' = result
  BY <1>3, GotoEffect, Lengths DEF CompleteMessage, ParserRuns
<1>6. ASSUME current_msg_' \in Message, accumulating_data_' \in BOOLEAN,
             completed_messages_' \in Seq(Message)
      PROVE  Bld!TypeOK'
  <2>1. out' \in [err : {"success", "invalid_retry"},
                  called : [to : StdCallbacks, msg : Message] \cup {None},
                  got : Message \cup {None}]
    BY <1>2, <1>3 DEF Delivery
  <2> QED
    BY <1>1, <1>4, <1>6, <2>1 DEF Bld!TypeOK, Bld!Message, Message
<1>7. CASE out'.called = None /\ FinishMessage /\ UNCHANGED delivered
  <2>1. ParserRuns'
    BY <1>5, <1>7 DEF ParserRuns
  <2>2. OneMessagePerBoundary'
    <3>1. Len(completed_messages_') = Len(completed_messages_) + 1
      BY <1>7, FinishEffect
    <3>2. /\ Len(completed_messages_) \in Nat /\ Len(stack) \in Nat
          /\ Len(completed_messages_) + Len(stack) - 1 = owed
      BY Lengths DEF IInv, OneMessagePerBoundary
    <3> QED
      BY <1>4, <1>5, <2>1, <3>1, <3>2 DEF OneMessagePerBoundary
  <2> QED
    BY <1>1, <1>5, <1>6, <1>7, <2>2, FinishEffect
<1>8. CASE /\ out'.called # None
           /\ delivered' = Append(delivered, out'.called)
           /\ UNCHANGED <<completed_messages_, current_msg_, accumulating_data_>>
  <2>1. ~ ParserRuns'
    BY <1>5, <1>8 DEF ParserRuns
  <2>2. OneMessagePerBoundary'
    BY <1>4, <1>5, <1>8, <2>1, Lengths DEF OneMessagePerBoundary
  <2>3. out'.called \in Delivery
    BY <1>3, <1>8
  <2>4. delivered' \in Seq(Delivery)
    BY <1>1, <1>8, <2>3, AppendProperties
  <2> QED
    BY <1>1, <1>5, <1>6, <1>8, <2>2, <2>4, Lengths
<1> QED
  BY <1>7, <1>8 DEF CompleteMessage

(* feed_line, with the return of its error.                                *)
LEMMA FeedEffect ==
  ASSUME IInv, ParserRuns, NEW line \in Seq(Token), NEW next \in Places, Feed(line, next)
  PROVE  /\ Bld!TypeOK' /\ StackOK' /\ OneMessagePerBoundary'
         /\ delivered' \in Seq(Delivery) /\ result' \in Results
<1>1. CASE line = <<>> /\ CompleteMessage(next)
  BY <1>1, CompleteEffect, Lengths
<1>2. CASE /\ line # <<>>
           /\ Bld!ProcessField(line)
           /\ IF out'.err = "success" THEN Goto(next, None) ELSE Return(out'.err)
           /\ UNCHANGED <<delivered, owed>>
  <2>1. Bld!TypeOK'
    BY <1>2, BuilderSteps, Lengths
  <2>2. completed_messages_' = completed_messages_
    BY <1>2 DEF Bld!ProcessField
  <2>3. out'.err \in {"success", "invalid_retry"}
    BY <2>1 DEF Bld!TypeOK
  <2>4. delivered' \in Seq(Delivery)
    BY <1>2 DEF IInv, TypeOK
  <2>5. CASE Goto(next, None)
    <3>1. /\ StackOK' /\ Len(stack') = Len(stack) /\ result' = result
          /\ stack' # <<>> /\ Top'.running = None
      BY <2>5, GotoEffect, Lengths DEF ParserRuns
    <3>2. ParserRuns'
      BY <3>1 DEF ParserRuns
    <3>3. OneMessagePerBoundary'
      BY <1>2, <2>2, <3>1, <3>2, Lengths DEF OneMessagePerBoundary
    <3> QED
      BY <2>1, <2>4, <3>1, <3>3, Lengths
  <2>6. CASE Return(out'.err)
    <3>1. /\ StackOK' /\ Len(stack') = Len(stack) - 1
          /\ stack' # <<>> => Top'.running # None
          /\ result' \in Results
      BY <2>3, <2>6, ReturnEffect, Lengths DEF ParserRuns, Results
    <3>2. ~ ParserRuns'
      BY <3>1 DEF ParserRuns
    <3>3. OneMessagePerBoundary'
      BY <1>2, <2>2, <3>1, <3>2, Lengths DEF OneMessagePerBoundary
    <3> QED
      BY <2>1, <2>4, <3>1, <3>3
  <2> QED
    BY <1>2, <2>5, <2>6
<1> QED
  BY <1>1, <1>2 DEF Feed

(* A call by user code that is over at once.                               *)
LEMMA AtOnce ==
  ASSUME IInv, NEW call \in {"parse", "flush", "reset", "set_callback"},
         NEW err \in {"success", "buffer_overflow"}, ReturnAtOnce(call, err),
         UNCHANGED <<completed_messages_, owed>>
  PROVE  StackOK' /\ OneMessagePerBoundary' /\ result' \in Results
<1>1. stack' = stack /\ result' \in Results
  BY DEF ReturnAtOnce, Results
<1> QED
  BY <1>1, Lengths DEF OneMessagePerBoundary, StackOK, ParserRuns, Top

(* A call by user code that goes on.                                       *)
LEMMA Entered ==
  ASSUME IInv, NEW call \in {"parse", "flush"}, MayCall(call), Len(stack) < MaxDepth,
         Enter(call), UNCHANGED <<completed_messages_, owed>>
  PROVE  StackOK' /\ OneMessagePerBoundary' /\ result' \in Results
<1>1. stack # <<>> => Top.running # None
  BY DEF MayCall
<1>2. /\ StackOK' /\ Len(stack') = Len(stack) + 1
      /\ stack' # <<>> /\ Top'.running = None /\ result' = result
  BY <1>1, EnterEffect, Lengths
<1>3. ~ ParserRuns /\ ParserRuns'
  BY <1>1, <1>2 DEF ParserRuns
<1> QED
  BY <1>2, <1>3, Lengths DEF OneMessagePerBoundary

(* A call that returns to the callback or the program it was made by.      *)
LEMMA Returned ==
  ASSUME IInv, ParserRuns, Return("success"), UNCHANGED <<completed_messages_, owed>>
  PROVE  StackOK' /\ OneMessagePerBoundary' /\ result' \in Results
<1>1. /\ StackOK' /\ Len(stack') = Len(stack) - 1
      /\ stack' # <<>> => Top'.running # None
      /\ result' \in Results
  BY ReturnEffect, Lengths DEF ParserRuns, Results
<1>2. ~ ParserRuns'
  BY <1>1 DEF ParserRuns
<1> QED
  BY <1>1, <1>2, Lengths DEF OneMessagePerBoundary

(* A call that goes on without completing a message.                       *)
LEMMA WentOn ==
  ASSUME IInv, ParserRuns, NEW at \in Places, Goto(at, None),
         UNCHANGED <<completed_messages_, owed>>
  PROVE  StackOK' /\ OneMessagePerBoundary' /\ result' \in Results
<1>1. /\ StackOK' /\ Len(stack') = Len(stack) /\ result' = result
      /\ stack' # <<>> /\ Top'.running = None
  BY GotoEffect, Lengths DEF ParserRuns
<1>2. ParserRuns'
  BY <1>1 DEF ParserRuns
<1> QED
  BY <1>1, <1>2, Lengths DEF OneMessagePerBoundary

(* A fresh parser.                                                         *)
LEMMA InitInv == Init => IInv
<1> SUFFICES ASSUME Init PROVE IInv
  OBVIOUS
<1>1. Buf!TypeOK
  <2>1. MaxSize \in Nat
    BY SseReentrantAssumption
  <2> QED
    BY <2>1 DEF Init, Buf!Init, Buf!TypeOK, Buf!Results
<1>2. Bld!TypeOK
  <2>1. "message" \in Token
    BY FieldParserAssumption
  <2>2. current_msg_ \in Bld!Message
    BY <2>1 DEF Init, DefaultMessage, Bld!Message
  <2>3. out \in [err : {"success", "invalid_retry"},
                 called : [to : StdCallbacks, msg : Bld!Message] \cup {None},
                 got : Bld!Message \cup {None}]
    BY DEF Init, Bld!Nothing
  <2>4. <<>> \in Seq(Token) /\ <<>> \in Seq(Bld!Message)
    BY EmptySeq
  <2> QED
    BY <2>2, <2>3, <2>4 DEF Init, Bld!TypeOK
<1>3. /\ stack \in Seq(Frame) /\ Len(stack) = 0 /\ ~ ParserRuns
      /\ \A i \in 2 .. Len(stack) : stack[i].running # None
  BY EmptySeq DEF Init, ParserRuns
<1>4. MaxDepth \in Nat
  BY SseReentrantAssumption
<1>5. OneMessagePerBoundary
  BY <1>3, EmptySeq DEF Init, OneMessagePerBoundary
<1>6. /\ delivered \in Seq(Delivery) /\ accepted \in Seq(Token) /\ fed \in Seq(Seq(Token))
      /\ result \in Results
  BY EmptySeq DEF Init, Results
<1> QED
  BY <1>1, <1>2, <1>3, <1>4, <1>5, <1>6 DEF IInv, TypeOK, Results

(* What TypeOK says of the history.                                        *)
HistoryOK ==
  delivered \in Seq(Delivery) /\ accepted \in Seq(Token) /\ fed \in Seq(Seq(Token))

(* Every step, of user code or of the parser, keeps the invariant.         *)
LEMMA NextInv == IInv /\ [Next]_vars => IInv'
<1> SUFFICES ASSUME IInv, [Next]_vars
             PROVE  /\ Buf!TypeOK' /\ Bld!TypeOK' /\ StackOK' /\ result' \in Results
                    /\ HistoryOK' /\ OneMessagePerBoundary'
  BY DEF IInv, TypeOK, StackOK, Results, HistoryOK
<1>1. /\ Buf!TypeOK /\ Bld!TypeOK /\ HistoryOK
      /\ \A chunk \in Chunks : chunk \in Seq(Token)
  BY SseReentrantAssumption DEF IInv, TypeOK, HistoryOK
<1>2. ASSUME UNCHANGED buf_vars PROVE Buf!TypeOK'
  BY <1>1, <1>2 DEF buf_vars, Buf!TypeOK
<1>3. ASSUME UNCHANGED bld_vars PROVE Bld!TypeOK' /\ UNCHANGED completed_messages_
  BY <1>1, <1>3 DEF bld_vars, Bld!TypeOK
<1>4. FreshStart => accepted' \in Seq(Token) /\ fed' \in Seq(Seq(Token))
  BY EmptySeq DEF FreshStart
<1>5. ASSUME NEW chunk \in Chunks, Parse(chunk)
      PROVE  /\ Buf!TypeOK' /\ Bld!TypeOK' /\ StackOK' /\ result' \in Results
             /\ HistoryOK' /\ OneMessagePerBoundary'
  <2>1. /\ MayCall("parse") /\ Len(stack) < MaxDepth
        /\ UNCHANGED <<bld_vars, delivered, fed, owed>>
    BY <1>5 DEF Parse
  <2>2. Bld!TypeOK' /\ UNCHANGED completed_messages_
    BY <1>3, <2>1
  <2>3. CASE ReturnAtOnce("parse", "success") /\ UNCHANGED <<buf_vars, accepted>>
    BY <1>1, <1>2, <2>1, <2>2, <2>3, AtOnce DEF HistoryOK
  <2>4. CASE /\ Buf!AppendChunk(chunk)
             /\ IF ret'.err = "success"
                THEN Enter("parse") /\ accepted' = accepted \o chunk
                ELSE ReturnAtOnce("parse", ret'.err) /\ UNCHANGED accepted
    <3>1. Buf!TypeOK' /\ ret'.err \in {"success", "buffer_overflow"}
      BY <1>1, <2>4, BufferSteps
    <3>2. accepted \o chunk \in Seq(Token)
      BY <1>1, ConcatProperties DEF HistoryOK
    <3>3. HistoryOK'
      BY <1>1, <2>1, <2>4, <3>2 DEF HistoryOK
    <3>4. CASE Enter("parse")
      BY <2>1, <2>2, <3>1, <3>3, <3>4, Entered
    <3>5. CASE ReturnAtOnce("parse", ret'.err)
      BY <2>1, <2>2, <3>1, <3>3, <3>5, AtOnce
    <3> QED
      BY <2>4, <3>4, <3>5
  <2> QED
    BY <1>5, <2>3, <2>4 DEF Parse
<1>6. CASE Flush
  <2>1. /\ MayCall("flush") /\ Len(stack) < MaxDepth
        /\ UNCHANGED <<buf_vars, bld_vars, delivered, accepted, fed, owed>>
        /\ ReturnAtOnce("flush", "success") \/ Enter("flush")
    BY <1>6 DEF Flush
  <2>2. Buf!TypeOK' /\ Bld!TypeOK' /\ HistoryOK' /\ UNCHANGED completed_messages_
    BY <1>1, <1>2, <1>3, <2>1 DEF HistoryOK
  <2> QED
    BY <2>1, <2>2, AtOnce, Entered
<1>7. CASE Reset
  <2>1. /\ Buf!Clear /\ Bld!Reset /\ FreshStart
        /\ ReturnAtOnce("reset", "success") /\ UNCHANGED <<delivered, owed>>
    BY <1>7 DEF Reset
  <2>2. Buf!TypeOK' /\ Bld!TypeOK' /\ UNCHANGED completed_messages_
    BY <1>1, <2>1, BufferSteps, BuilderSteps DEF Bld!Reset
  <2>3. HistoryOK'
    BY <1>1, <1>4, <2>1 DEF HistoryOK
  <2> QED
    BY <2>1, <2>2, <2>3, AtOnce
<1>8. ASSUME NEW callback \in StdCallbacks \cup {None}, SetCallback(callback)
      PROVE  /\ Buf!TypeOK' /\ Bld!TypeOK' /\ StackOK' /\ result' \in Results
             /\ HistoryOK' /\ OneMessagePerBoundary'
  <2>1. /\ Bld!SetCallback(callback) /\ ReturnAtOnce("set_callback", "success")
        /\ UNCHANGED <<buf_vars, delivered, accepted, fed, owed>>
    BY <1>8 DEF SetCallback
  <2>2. Buf!TypeOK' /\ Bld!TypeOK' /\ UNCHANGED completed_messages_ /\ HistoryOK'
    BY <1>1, <1>2, <2>1, BuilderSteps DEF Bld!SetCallback, HistoryOK
  <2> QED
    BY <2>1, <2>2, AtOnce
<1>9. CASE CallbackReturns
  <2>1. /\ stack # <<>> /\ Top.running # None /\ FinishMessage /\ Goto(Top.at, None)
        /\ UNCHANGED <<buf_vars, callback_, last_event_id_, out, delivered, accepted,
                       fed, owed>>
    BY <1>9 DEF CallbackReturns
  <2>2. Top.at \in Places
    BY <2>1, TopIsFrame, Lengths DEF Frame, Places
  <2>3. /\ StackOK' /\ stack' # <<>> /\ Len(stack') = Len(stack)
        /\ Top'.running = None /\ result' = result
    BY <2>1, <2>2, GotoEffect, Lengths
  <2>4. /\ current_msg_' \in Message /\ accumulating_data_' \in BOOLEAN
        /\ completed_messages_' \in Seq(Message)
        /\ Len(completed_messages_') = Len(completed_messages_) + 1
    BY <2>1, FinishEffect
  <2>5. Bld!TypeOK'
    BY <1>1, <2>1, <2>4 DEF Bld!TypeOK, Bld!Message, Message
  <2>6. ~ ParserRuns /\ ParserRuns'
    BY <2>1, <2>3 DEF ParserRuns
  <2>7. OneMessagePerBoundary'
    BY <2>1, <2>3, <2>4, <2>6, Lengths DEF OneMessagePerBoundary
  <2> QED
    BY <1>1, <1>2, <2>1, <2>3, <2>5, <2>7, Lengths DEF HistoryOK
<1>10. CASE CallbackThrows
  <2>1. /\ stack # <<>> /\ Top.running # None /\ Return("exception") /\ owed' = owed - 1
        /\ UNCHANGED <<buf_vars, bld_vars, delivered, accepted, fed>>
    BY <1>10 DEF CallbackThrows
  <2>2. /\ StackOK' /\ Len(stack') = Len(stack) - 1
        /\ stack' # <<>> => Top'.running # None
        /\ result' \in Results
    BY <2>1, ReturnEffect, Lengths DEF Results
  <2>3. ~ ParserRuns /\ ~ ParserRuns'
    BY <2>1, <2>2 DEF ParserRuns
  <2>4. OneMessagePerBoundary'
    BY <1>3, <2>1, <2>2, <2>3, Lengths DEF OneMessagePerBoundary
  <2> QED
    BY <1>1, <1>2, <1>3, <2>1, <2>2, <2>4 DEF HistoryOK
<1>11. CASE ReadLine
  <2>1. /\ ParserRuns /\ Buf!ReadLine /\ UNCHANGED accepted
    BY <1>11 DEF ReadLine
  <2>2. Buf!TypeOK' /\ ret'.line \in Seq(Token) \cup {None}
    BY <1>1, <2>1, BufferSteps
  <2>3. CASE /\ IF Top.call = "parse" THEN Return("success") ELSE Goto("leftover", None)
             /\ UNCHANGED <<bld_vars, delivered, fed, owed>>
    <3>1. Bld!TypeOK' /\ UNCHANGED completed_messages_ /\ HistoryOK'
      BY <1>1, <1>3, <2>1, <2>3 DEF HistoryOK
    <3> QED
      BY <2>1, <2>2, <2>3, <3>1, Returned, WentOn DEF Places
  <2>4. CASE ret'.line # None /\ fed' = Append(fed, ret'.line) /\ Feed(ret'.line, "loop")
    <3>1. ret'.line \in Seq(Token)
      BY <2>2, <2>4
    <3>2. /\ Bld!TypeOK' /\ StackOK' /\ OneMessagePerBoundary'
          /\ delivered' \in Seq(Delivery) /\ result' \in Results
      BY <2>1, <2>4, <3>1, FeedEffect DEF Places
    <3>3. fed' \in Seq(Seq(Token))
      BY <1>1, <2>4, <3>1, AppendProperties DEF HistoryOK
    <3> QED
      BY <1>1, <2>1, <2>2, <3>2, <3>3 DEF HistoryOK
  <2> QED
    BY <1>11, <2>3, <2>4 DEF ReadLine
<1>12. CASE FlushLeftover
  <2>1. /\ ParserRuns /\ UNCHANGED <<buf_vars, accepted, fed>>
        /\ Buf!View \in Seq(Token)
    BY <1>1, <1>12 DEF FlushLeftover, Buf!View, Buf!TypeOK
  <2>2. CASE Goto("clear", None) /\ UNCHANGED <<bld_vars, delivered, owed>>
    <3>1. Bld!TypeOK' /\ UNCHANGED completed_messages_ /\ HistoryOK'
      BY <1>1, <1>3, <2>1, <2>2 DEF HistoryOK
    <3> QED
      BY <1>2, <2>1, <2>2, <3>1, WentOn DEF Places
  <2>3. CASE Feed(Buf!View, "complete")
    <3>1. /\ Bld!TypeOK' /\ StackOK' /\ OneMessagePerBoundary'
          /\ delivered' \in Seq(Delivery) /\ result' \in Results
      BY <2>1, <2>3, FeedEffect DEF Places
    <3> QED
      BY <1>1, <1>2, <2>1, <3>1 DEF HistoryOK
  <2> QED
    BY <1>12, <2>2, <2>3 DEF FlushLeftover
<1>13. CASE FlushComplete
  <2>1. /\ ParserRuns /\ Feed(<<>>, "clear") /\ UNCHANGED <<buf_vars, accepted, fed>>
    BY <1>13 DEF FlushComplete
  <2>2. /\ Bld!TypeOK' /\ StackOK' /\ OneMessagePerBoundary'
        /\ delivered' \in Seq(Delivery) /\ result' \in Results
    BY <2>1, EmptySeq, FeedEffect DEF Places
  <2> QED
    BY <1>1, <1>2, <2>1, <2>2 DEF HistoryOK
<1>14. CASE FlushClear
  <2>1. /\ ParserRuns /\ Buf!Clear /\ FreshStart /\ Return("success")
        /\ UNCHANGED <<bld_vars, delivered, owed>>
    BY <1>14 DEF FlushClear
  <2>2. Buf!TypeOK' /\ Bld!TypeOK' /\ UNCHANGED completed_messages_
    BY <1>1, <1>3, <2>1, BufferSteps
  <2>3. HistoryOK'
    BY <1>1, <1>4, <2>1 DEF HistoryOK
  <2> QED
    BY <2>1, <2>2, <2>3, Returned
<1>15. CASE UNCHANGED vars
  <2>1. UNCHANGED <<buf_vars, bld_vars, stack, result, delivered, accepted, fed, owed>>
    BY <1>15 DEF vars
  <2>2. Buf!TypeOK' /\ Bld!TypeOK' /\ UNCHANGED completed_messages_ /\ HistoryOK'
    BY <1>1, <1>2, <1>3, <2>1 DEF HistoryOK
  <2> QED
    BY <2>1, <2>2, Lengths DEF OneMessagePerBoundary, StackOK, ParserRuns, Top
<1> QED
  BY <1>5, <1>6, <1>7, <1>8, <1>9, <1>10, <1>11, <1>12, <1>13, <1>14, <1>15
     DEF Next, ParserStep

(* The parser stays well formed whatever its callbacks call and whether or *)
(* not they throw; on its stack only the call on top runs.                 *)
THEOREM ReentrantTypeCorrect == Spec => []TypeOK
<1>1. IInv => TypeOK
  BY DEF IInv
<1> QED
  BY <1>1, InitInv, NextInv, PTL DEF Spec

(* Each boundary fed puts one message into the queue once its callback has *)
(* returned, however deep the calls that callbacks make are nested and     *)
(* whichever of them throw (complete_message).                             *)
THEOREM BoundariesCounted == Spec => []OneMessagePerBoundary
<1>1. IInv => OneMessagePerBoundary
  BY DEF IInv
<1> QED
  BY <1>1, InitInv, NextInv, PTL DEF Spec

--------------------------------------------------------------------------------
(* The lines fed.                                                          *)

(* What the operations of the buffer do to the unread text.                *)
LEMMA BufferTexts ==
  ASSUME Buf!TypeOK
  PROVE  /\ Buf!Unread \in Seq(Token)
         /\ \A chunk \in Seq(Token) : Buf!AppendChunk(chunk) =>
              Buf!Unread' = IF ret'.err = "success" THEN Buf!Unread \o chunk ELSE Buf!Unread
         /\ Buf!Clear => Buf!Unread' = <<>>
<1>1. BufP!TypeOK /\ BufP!BufferAssumption
  BY SameBuffer, PartsAssumptions
<1>2. Buf!Unread = BufP!Unread /\ Buf!Unread' = BufP!Unread'
  BY DEF Buf!Unread, BufP!Unread
<1>3. Buf!Unread \in Seq(Token)
  BY <1>1, <1>2, BufP!UnreadBytes
<1>4. ASSUME NEW chunk \in Seq(Token), Buf!AppendChunk(chunk)
      PROVE  Buf!Unread' = IF ret'.err = "success" THEN Buf!Unread \o chunk ELSE Buf!Unread
  <2>1. BufP!AppendChunk(chunk)
    BY <1>4, SameBuffer
  <2>2. BufP!Unread' = IF ret'.err = "success" THEN BufP!Unread \o chunk ELSE BufP!Unread
    BY <1>1, <2>1, BufP!AppendText
  <2> QED
    BY <1>2, <2>2
<1>5. Buf!Clear => Buf!Unread' = <<>>
  <2>1. Buf!Clear => BufP!Clear
    BY SameBuffer
  <2>2. BufP!Clear => BufP!Unread' = <<>>
    BY <1>1, BufP!ClearText
  <2> QED
    BY <1>2, <2>1, <2>2
<1> QED
  BY <1>3, <1>4, <1>5

(* read_line moves the cut behind the next line, or all lines were read.   *)
LEMMA CutMoves ==
  ASSUME Buf!TypeOK, NEW text, Cut(text, Buf!Unread), Buf!ReadLine
  PROVE  \/ /\ ret'.line = None
            /\ HasNoEnd(Buf!Unread)
            /\ Buf!Unread' = Buf!Unread
            /\ LinesRead(text, Buf!Unread) = LinesOf(text)
         \/ /\ ret'.line \in Seq(Token)
            /\ ~ HasNoEnd(Buf!Unread)
            /\ Cut(text, Buf!Unread')
            /\ LinesRead(text, Buf!Unread')
                 = Append(LinesRead(text, Buf!Unread), ret'.line)
<1> DEFINE old == Buf!Unread
           new == Buf!Unread'
<1>1. BufP!TypeOK /\ BufP!ReadLine /\ BufP!BufferAssumption
  BY SameBuffer, PartsAssumptions
<1>2. old = BufP!Unread /\ new = BufP!Unread'
  BY DEF Buf!Unread, BufP!Unread
<1>3. BufP!EOL = EOL
  BY DEF BufP!EOL, EOL
<1>4. \/ /\ ret'.line = None
         /\ new = old
         /\ \A i \in 1 .. Len(old) : old[i] \notin EOL
      \/ \E n \in 1 .. Len(old) :
           /\ old[n] \in EOL
           /\ \A i \in 1 .. n - 1 : old[i] \notin EOL
           /\ ret'.line = SubSeq(old, 1, n - 1)
           /\ LET t == IF old[n] = CR /\ n < Len(old) /\ old[n + 1] = LF THEN 2 ELSE 1
              IN  new = SubSeq(old, n + t, Len(old))
  <2> HIDE DEF old, new
  <2> QED
    BY <1>1, <1>2, <1>3, BufP!ReadLineText
<1>5. Cut(text, old)
  OBVIOUS
<1> HIDE DEF old, new
<1>6. CASE ret'.line = None /\ new = old /\ \A i \in 1 .. Len(old) : old[i] \notin EOL
  <2>1. LinesRead(text, old) = LinesOf(text)
    BY <1>5, <1>6, CutAtEnd
  <2> QED
    BY <1>6, <2>1 DEF HasNoEnd, old, new
<1>7. ASSUME NEW n \in 1 .. Len(old),
             old[n] \in EOL,
             \A i \in 1 .. n - 1 : old[i] \notin EOL,
             ret'.line = SubSeq(old, 1, n - 1),
             NEW t, t = IF old[n] = CR /\ n < Len(old) /\ old[n + 1] = LF THEN 2 ELSE 1,
             new = SubSeq(old, n + t, Len(old))
      PROVE  /\ ret'.line \in Seq(Token)
             /\ ~ HasNoEnd(old)
             /\ Cut(text, new)
             /\ LinesRead(text, new) = Append(LinesRead(text, old), ret'.line)
  <2>1. Cut(text, new) /\ LinesRead(text, new) = Append(LinesRead(text, old), ret'.line)
    BY <1>5, <1>7, CutOfNext
  <2>2. SubSeq(old, 1, n - 1) \in Seq(Token)
    <3>1. /\ old \in Seq(Token) /\ 1 \in 1 .. Len(old) + 1 /\ n - 1 \in 0 .. Len(old)
          /\ 1 <= (n - 1) + 1
      BY <1>5 DEF Cut
    <3> QED
      BY <3>1, Piece
  <2> QED
    BY <1>7, <2>1, <2>2 DEF HasNoEnd
<1> QED
  BY <1>4, <1>6, <1>7 DEF old, new

(* What was fed are the lines before the place where the unread text       *)
(* starts, whoever has read them.                                          *)
ReadsOn ==
  Cut(accepted, Buf!Unread) /\ fed = LinesRead(accepted, Buf!Unread)

EndsLikeAChunk ==
  accepted # <<>> =>
    \E chunk \in Chunks : chunk # <<>> /\ chunk[Len(chunk)] = accepted[Len(accepted)]

FedInv == ReadsOn /\ EndsLikeAChunk

(* No chunk ends in a CR when another starts with an LF, so that no cut    *)
(* falls inside a CRLF; SplitCRLF.cfg shows what happens when one does.    *)
NoCRLFCut ==
  \A first, second \in Chunks :
    ~ (first # <<>> /\ second # <<>> /\ first[Len(first)] = CR /\ second[1] = LF)

(* A step that changes neither the buffer nor the text.                    *)
LEMMA ReadsStill ==
  ASSUME FedInv, UNCHANGED <<buffer_, read_pos_>>, UNCHANGED <<accepted, fed>>
  PROVE  FedInv'
<1>1. Buf!Unread' = Buf!Unread
  BY DEF Buf!Unread
<1> QED
  BY <1>1 DEF FedInv, ReadsOn, EndsLikeAChunk

(* reset and the end of flush clear the text with the buffer.              *)
LEMMA ClearReads ==
  ASSUME IInv, Buf!Clear, FreshStart
  PROVE  FedInv'
<1>1. Buf!Unread' = <<>> /\ accepted' = <<>> /\ fed' = <<>>
  BY Lengths, BufferTexts DEF FreshStart
<1>2. LinesRead(accepted', Buf!Unread') = <<>> /\ Cut(accepted', Buf!Unread')
  BY <1>1, CutOfNothing
<1> QED
  BY <1>1, <1>2 DEF FedInv, ReadsOn, EndsLikeAChunk

(* A chunk that is accepted is unread text; one that is refused leaves     *)
(* none.                                                                   *)
LEMMA ParseReads ==
  ASSUME NoCRLFCut, IInv, FedInv, NEW chunk \in Chunks, Parse(chunk)
  PROVE  FedInv'
<1>1. Buf!TypeOK /\ chunk \in Seq(Token) /\ UNCHANGED fed
  BY Lengths, SseReentrantAssumption DEF Parse
<1>2. CASE UNCHANGED <<buf_vars, accepted>>
  BY <1>1, <1>2, ReadsStill DEF buf_vars
<1>3. CASE /\ chunk # <<>>
           /\ Buf!AppendChunk(chunk)
           /\ IF ret'.err = "success"
              THEN Enter("parse") /\ accepted' = accepted \o chunk
              ELSE ReturnAtOnce("parse", ret'.err) /\ UNCHANGED accepted
  <2> DEFINE old == Buf!Unread
             new == Buf!Unread'
  <2>1. new = IF ret'.err = "success" THEN old \o chunk ELSE old
    BY <1>1, <1>3, BufferTexts
  <2>2. Cut(accepted, old) /\ fed = LinesRead(accepted, old) /\ EndsLikeAChunk
    BY DEF FedInv, ReadsOn
  <2>3. FedInv' <=> /\ Cut(accepted', new) /\ fed' = LinesRead(accepted', new)
                    /\ EndsLikeAChunk'
    BY DEF FedInv, ReadsOn
  <2> HIDE DEF old, new
  <2>4. CASE new = old /\ accepted' = accepted
    BY <1>1, <2>2, <2>3, <2>4 DEF EndsLikeAChunk
  <2>5. CASE new = old \o chunk /\ accepted' = accepted \o chunk
    <3>1. ~ (accepted # <<>> /\ chunk # <<>> /\ accepted[Len(accepted)] = CR /\ chunk[1] = LF)
      BY <2>2 DEF EndsLikeAChunk, NoCRLFCut
    <3>2. /\ Cut(accepted \o chunk, old \o chunk)
          /\ LinesRead(accepted \o chunk, old \o chunk) = LinesRead(accepted, old)
      BY <1>1, <2>2, <3>1, CutOfLonger
    <3>3. accepted'[Len(accepted')] = chunk[Len(chunk)]
      BY <1>1, <1>3, <2>2, <2>5, EndOfConcat DEF Cut
    <3>4. EndsLikeAChunk'
      BY <1>3, <3>3 DEF EndsLikeAChunk
    <3> QED
      BY <1>1, <2>2, <2>3, <2>5, <3>2, <3>4
  <2> QED
    BY <1>3, <2>1, <2>4, <2>5
<1> QED
  BY <1>2, <1>3 DEF Parse

(* One turn of a loop, at any depth.                                       *)
LEMMA LineReads ==
  ASSUME IInv, FedInv, ReadLine
  PROVE  FedInv' /\ (ret'.line = None => fed = LinesOf(accepted))
<1> DEFINE old == Buf!Unread
           new == Buf!Unread'
<1>1. /\ Buf!TypeOK /\ Buf!ReadLine /\ UNCHANGED accepted
      /\ \/ ret'.line = None /\ UNCHANGED fed
         \/ ret'.line # None /\ fed' = Append(fed, ret'.line)
  BY Lengths DEF ReadLine
<1>2. Cut(accepted, old) /\ fed = LinesRead(accepted, old)
  BY DEF FedInv, ReadsOn
<1>3. \/ /\ ret'.line = None /\ new = old
         /\ LinesRead(accepted, old) = LinesOf(accepted)
      \/ /\ ret'.line \in Seq(Token) /\ Cut(accepted, new)
         /\ LinesRead(accepted, new) = Append(LinesRead(accepted, old), ret'.line)
  BY <1>1, <1>2, CutMoves
<1>4. None \notin Seq(Token)
  BY FieldParserAssumption
<1>5. EndsLikeAChunk'
  BY <1>1 DEF FedInv, EndsLikeAChunk
<1>6. ReadsOn' <=> Cut(accepted, new) /\ fed' = LinesRead(accepted, new)
  BY <1>1 DEF ReadsOn
<1> HIDE DEF old, new
<1> QED
  BY <1>1, <1>2, <1>3, <1>4, <1>5, <1>6 DEF FedInv

LEMMA FedInit == Init => FedInv
<1> SUFFICES ASSUME Init PROVE FedInv
  OBVIOUS
<1>1. accepted = <<>> /\ fed = <<>> /\ buffer_ = <<>> /\ read_pos_ = 0
  BY DEF Init, Buf!Init
<1>2. Buf!Unread = <<>>
  BY <1>1 DEF Buf!Unread
<1> QED
  BY <1>1, <1>2, CutOfNothing DEF FedInv, ReadsOn, EndsLikeAChunk

(* Every step keeps what is known of the text.                             *)
LEMMA FedNext ==
  ASSUME NoCRLFCut
  PROVE  IInv /\ FedInv /\ [Next]_vars => FedInv'
<1> SUFFICES ASSUME IInv, FedInv, [Next]_vars PROVE FedInv'
  OBVIOUS
<1>1. ASSUME UNCHANGED <<buf_vars, accepted, fed>> PROVE FedInv'
  BY <1>1, ReadsStill DEF buf_vars
<1>2. CASE \E chunk \in Chunks : Parse(chunk)
  BY <1>2, ParseReads
<1>3. CASE Flush \/ (\E callback \in StdCallbacks \cup {None} : SetCallback(callback))
  BY <1>1, <1>3 DEF Flush, SetCallback
<1>4. CASE Reset \/ FlushClear
  BY <1>4, ClearReads DEF Reset, FlushClear
<1>5. CASE CallbackReturns \/ CallbackThrows \/ FlushLeftover \/ FlushComplete
  BY <1>1, <1>5 DEF CallbackReturns, CallbackThrows, FlushLeftover, FlushComplete
<1>6. CASE ReadLine
  BY <1>6, LineReads
<1>7. CASE UNCHANGED vars
  BY <1>1, <1>7 DEF vars
<1> QED
  BY <1>2, <1>3, <1>4, <1>5, <1>6, <1>7 DEF Next, ParserStep

--------------------------------------------------------------------------------
(* What a call returns.                                                    *)

(* Only flush goes past its loop, so that parse returns success from there. *)
OnlyFlush ==
  \A i \in 1 .. Len(stack) : stack[i].at # "loop" => stack[i].call = "flush"

(* A call that goes on keeps its name.                                     *)
LEMMA GotoKeeps ==
  ASSUME StackOK, OnlyFlush, stack # <<>>, NEW at, NEW running, Goto(at, running),
         at # "loop" => Top.call = "flush"
  PROVE  OnlyFlush' /\ Len(stack') = Len(stack)
<1> DEFINE frame == [call |-> Top.call, at |-> at, running |-> running]
<1>1. stack' = [stack EXCEPT ![1] = frame]
  BY DEF Goto
<1>2. frame.at # "loop" => frame.call = "flush"
  OBVIOUS
<1> HIDE DEF frame
<1>3. /\ Len(stack') = Len(stack)
      /\ \A i \in 1 .. Len(stack) : stack'[i] = IF i = 1 THEN frame ELSE stack[i]
  BY <1>1 DEF StackOK
<1> QED
  BY <1>2, <1>3 DEF OnlyFlush

LEMMA ReturnKeeps ==
  ASSUME StackOK, OnlyFlush, stack # <<>>, NEW err, Return(err)
  PROVE  OnlyFlush'
<1>1. stack \in Seq(Frame) /\ Len(stack) \in Nat
  BY DEF StackOK
<1>2. stack' = Tail(stack)
  BY DEF Return
<1>3. /\ Len(stack') = Len(stack) - 1
      /\ \A i \in 1 .. Len(stack') : stack'[i] = stack[i + 1]
  BY <1>1, <1>2, HeadTailProperties
<1>4. \A i \in 1 .. Len(stack') : i + 1 \in 1 .. Len(stack)
  BY <1>1, <1>3
<1> QED
  BY <1>3, <1>4 DEF OnlyFlush

LEMMA EnterKeeps ==
  ASSUME StackOK, OnlyFlush, NEW call, Enter(call)
  PROVE  OnlyFlush' /\ Len(stack') = Len(stack) + 1
<1> DEFINE frame == [call |-> call, at |-> "loop", running |-> None]
           one == <<frame>>
<1>1. stack \in Seq(Frame) /\ Len(stack) \in Nat /\ stack' = one \o stack
  BY DEF StackOK, Enter
<1>2. frame.at = "loop"
  OBVIOUS
<1> HIDE DEF frame
<1>3. Len(one) = 1 /\ one[1] = frame
  OBVIOUS
<1>4. /\ Len(stack') = Len(stack) + 1
      /\ \A i \in 1 .. Len(stack) + 1 :
           stack'[i] = IF i = 1 THEN frame ELSE stack[i - 1]
  BY <1>1, <1>3
<1>5. \A i \in 2 .. Len(stack) + 1 : i - 1 \in 1 .. Len(stack)
  BY <1>1
<1> QED
  BY <1>1, <1>2, <1>4, <1>5 DEF OnlyFlush

(* feed_line, with the return of its error.                                *)
LEMMA FeedKeeps ==
  ASSUME StackOK, OnlyFlush, ParserRuns, NEW line, NEW next, Feed(line, next),
         next # "loop" => Top.call = "flush"
  PROVE  OnlyFlush' /\ (Len(stack') < Len(stack) => result'.err # "success")
<1>1. stack # <<>> /\ Len(stack) \in Nat
  BY DEF ParserRuns, StackOK
<1>2. ASSUME NEW running, Goto(next, running)
      PROVE  OnlyFlush' /\ ~ (Len(stack') < Len(stack))
  BY <1>1, <1>2, GotoKeeps
<1>3. CASE CompleteMessage(next)
  BY <1>2, <1>3 DEF CompleteMessage
<1>4. CASE IF out'.err = "success" THEN Goto(next, None) ELSE Return(out'.err)
  <2>1. CASE Goto(next, None)
    BY <1>2, <2>1
  <2>2. CASE out'.err # "success" /\ Return(out'.err)
    <3>1. OnlyFlush'
      BY <1>1, <2>2, ReturnKeeps
    <3>2. result'.err = out'.err
      BY <2>2 DEF Return
    <3> QED
      BY <2>2, <3>1, <3>2
  <2> QED
    BY <1>4, <2>1, <2>2
<1> QED
  BY <1>3, <1>4 DEF Feed

(* The place of the call on top, and what it calls.                        *)
LEMMA TopOfFlush ==
  ASSUME StackOK, OnlyFlush, stack # <<>>, Top.at # "loop"
  PROVE  Top.call = "flush"
BY TopIsFrame DEF OnlyFlush

(* A call that returns success to a parse has fed all lines.               *)
SuccessIsFed ==
  Len(stack') < Len(stack) /\ result' = [call |-> "parse", err |-> "success"]
    => fed = LinesOf(accepted)

LEMMA OnlyFlushNext ==
  ASSUME IInv, OnlyFlush, [Next]_vars
  PROVE  OnlyFlush' /\ (FedInv => SuccessIsFed)
<1>1. StackOK /\ Len(stack) \in Nat
  BY Lengths
<1>2. ASSUME UNCHANGED stack PROVE OnlyFlush' /\ SuccessIsFed
  BY <1>1, <1>2 DEF OnlyFlush, SuccessIsFed
<1>3. ASSUME NEW call, Enter(call) PROVE OnlyFlush' /\ SuccessIsFed
  BY <1>1, <1>3, EnterKeeps DEF SuccessIsFed
<1>4. CASE \E chunk \in Chunks : Parse(chunk)
  BY <1>2, <1>3, <1>4 DEF Parse, ReturnAtOnce
<1>5. CASE Flush
  BY <1>2, <1>3, <1>5 DEF Flush, ReturnAtOnce
<1>6. CASE Reset \/ (\E callback \in StdCallbacks \cup {None} : SetCallback(callback))
  BY <1>2, <1>6 DEF Reset, SetCallback, ReturnAtOnce
<1>7. CASE CallbackReturns
  <2>1. stack # <<>> /\ Goto(Top.at, None)
    BY <1>7 DEF CallbackReturns
  <2>2. OnlyFlush' /\ Len(stack') = Len(stack)
    BY <1>1, <2>1, TopOfFlush, GotoKeeps
  <2> QED
    BY <1>1, <2>2 DEF SuccessIsFed
<1>8. CASE CallbackThrows
  <2>1. stack # <<>> /\ Return("exception")
    BY <1>8 DEF CallbackThrows
  <2>2. OnlyFlush' /\ result'.err = "exception"
    BY <1>1, <2>1, ReturnKeeps DEF Return
  <2> QED
    BY <2>2 DEF SuccessIsFed
<1>9. CASE ReadLine
  <2>1. ParserRuns /\ stack # <<>> /\ Top.at = "loop" /\ Top.call \in {"parse", "flush"}
    BY <1>1, <1>9, TopIsFrame DEF ReadLine, ParserRuns, Frame
  <2>2. CASE ret'.line = None /\ Top.call = "parse" /\ Return("success")
    <3>1. OnlyFlush'
      BY <1>1, <2>1, <2>2, ReturnKeeps
    <3>2. FedInv => fed = LinesOf(accepted)
      BY <1>9, <2>2, LineReads
    <3> QED
      BY <3>1, <3>2 DEF SuccessIsFed
  <2>3. CASE ret'.line = None /\ Top.call # "parse" /\ Goto("leftover", None)
    <3>1. OnlyFlush' /\ Len(stack') = Len(stack)
      BY <1>1, <2>1, <2>3, GotoKeeps
    <3> QED
      BY <1>1, <3>1 DEF SuccessIsFed
  <2>4. CASE Feed(ret'.line, "loop")
    <3>1. OnlyFlush' /\ (Len(stack') < Len(stack) => result'.err # "success")
      BY <1>1, <2>1, <2>4, FeedKeeps
    <3> QED
      BY <3>1 DEF SuccessIsFed
  <2> QED
    BY <1>9, <2>2, <2>3, <2>4 DEF ReadLine
<1>10. CASE FlushLeftover
  <2>1. ParserRuns /\ stack # <<>> /\ Top.call = "flush"
    BY <1>1, <1>10, TopOfFlush DEF FlushLeftover, ParserRuns
  <2>2. CASE Goto("clear", None)
    <3>1. OnlyFlush' /\ Len(stack') = Len(stack)
      BY <1>1, <2>1, <2>2, GotoKeeps
    <3> QED
      BY <1>1, <3>1 DEF SuccessIsFed
  <2>3. CASE Feed(Buf!View, "complete")
    <3>1. OnlyFlush' /\ (Len(stack') < Len(stack) => result'.err # "success")
      BY <1>1, <2>1, <2>3, FeedKeeps
    <3> QED
      BY <3>1 DEF SuccessIsFed
  <2> QED
    BY <1>10, <2>2, <2>3 DEF FlushLeftover
<1>11. CASE FlushComplete
  <2>1. ParserRuns /\ stack # <<>> /\ Top.call = "flush" /\ Feed(<<>>, "clear")
    BY <1>1, <1>11, TopOfFlush DEF FlushComplete, ParserRuns
  <2>2. OnlyFlush' /\ (Len(stack') < Len(stack) => result'.err # "success")
    BY <1>1, <2>1, FeedKeeps
  <2> QED
    BY <2>2 DEF SuccessIsFed
<1>12. CASE FlushClear
  <2>1. stack # <<>> /\ Top.call = "flush" /\ Return("success")
    BY <1>1, <1>12, TopOfFlush DEF FlushClear, ParserRuns
  <2>2. OnlyFlush' /\ result'.call = "flush"
    BY <1>1, <2>1, ReturnKeeps DEF Return
  <2> QED
    BY <2>2 DEF SuccessIsFed
<1>13. CASE UNCHANGED vars
  BY <1>2, <1>13 DEF vars
<1> QED
  BY <1>4, <1>5, <1>6, <1>7, <1>8, <1>9, <1>10, <1>11, <1>12, <1>13
     DEF Next, ParserStep

(* For the same chunks: a parse that returns success, at any depth, has    *)
(* left no complete line of the accepted text unread, whatever the         *)
(* callbacks under it have fed, flushed or reset (parse, read_line).       *)
THEOREM SuccessFedAll ==
  ASSUME NoCRLFCut
  PROVE  Spec => SuccessMeansAllFed
<1> DEFINE Inv == IInv /\ FedInv /\ OnlyFlush
<1>1. Init => Inv
  BY InitInv, FedInit DEF Init, OnlyFlush
<1>2. Inv /\ [Next]_vars => Inv'
  BY NextInv, FedNext, OnlyFlushNext
<1>3. Inv /\ [Next]_vars =>
        [Len(stack') < Len(stack) /\ result' = [call |-> "parse", err |-> "success"]
           => fed = LinesOf(accepted)]_vars
  BY OnlyFlushNext DEF SuccessIsFed
<1> QED
  BY <1>1, <1>2, <1>3, PTL DEF Spec, SuccessMeansAllFed

--------------------------------------------------------------------------------
(* What the messages are made of.                                          *)

(* The builder holds what was fed since a message was last queued, or      *)
(* reset, also under a callback and after one that threw.                  *)
BlockInv ==
  /\ block \in Block
  /\ current_msg_ = Interpret(block)
  /\ accumulating_data_ <=> DataLines(block) # {}

(* The readings of a line and of a block, seen through either instance.    *)
LEMMA SameValues ==
  /\ \A v : /\ ParseRetryValue(v) = BldP!ParseRetryValue(v)
            /\ FieldValue(v) = BldP!FieldValue(v)
            /\ HasColon(v) = BldP!HasColon(v)
  /\ \A v, name : IsField(v, name) = BldP!IsField(v, name)
  BY DEF
     IsField, BldP!IsField, FieldValue, BldP!FieldValue, FieldName, BldP!FieldName,
     HasColon, BldP!HasColon, StripSpace, BldP!StripSpace, FirstColon, BldP!FirstColon,
     IsComment, BldP!IsComment, ParseRetryValue, BldP!ParseRetryValue, Trim, BldP!Trim,
     IsSpace, BldP!IsSpace, DigitLoop, BldP!DigitLoop, AddDigit, BldP!AddDigit,
     IsDigit, BldP!IsDigit, Digits, BldP!Digits, DigitValue, BldP!DigitValue,
     WouldOverflow, BldP!WouldOverflow, Colon, BldP!Colon, Space, BldP!Space,
     CR, BldP!CR, LF, BldP!LF

LEMMA SameBlocks ==
  ASSUME NEW lines
  PROVE  DataLines(lines) = BldP!DataLines(lines) /\ Interpret(lines) = BldP!Interpret(lines)
<1>1. /\ EventLines(lines) = BldP!EventLines(lines)
      /\ DataLines(lines) = BldP!DataLines(lines)
      /\ IdLines(lines) = BldP!IdLines(lines)
      /\ RetryLines(lines) = BldP!RetryLines(lines)
  BY SameValues DEF
     EventLines, BldP!EventLines, DataLines, BldP!DataLines,
     IdLines, BldP!IdLines, RetryLines, BldP!RetryLines
<1>2. \A W, default : LastValue(lines, W, default) = BldP!LastValue(lines, W, default)
  BY SameValues DEF LastValue, BldP!LastValue, Max, BldP!Max
<1>3. \A W : JoinedValues(lines, W) = BldP!JoinedValues(lines, W)
  BY SameValues DEF
     JoinedValues, BldP!JoinedValues, JoinedPrefixes, BldP!JoinedPrefixes,
     AddValue, BldP!AddValue, Min, BldP!Min, LF, BldP!LF
<1> QED
  BY <1>1, <1>2, <1>3, SameValues DEF Interpret, BldP!Interpret

(* What MessagesAreTheirLines says of a step.                              *)
MessagesOfStep ==
  /\ delivered' # delivered => delivered'[Len(delivered')].msg = Interpret(block)
  /\ completed_messages_' # completed_messages_ =>
       completed_messages_' = Append(completed_messages_, Interpret(block))

(* A step that leaves the builder's message and the two lists alone.       *)
LEMMA BlockStill ==
  ASSUME BlockInv,
         UNCHANGED <<current_msg_, accumulating_data_, completed_messages_, delivered, block>>
  PROVE  BlockInv' /\ MessagesOfStep
  BY DEF BlockInv, MessagesOfStep

(* reset drops the block with the message.                                 *)
LEMMA BlockDropped ==
  ASSUME current_msg_' = DefaultMessage, accumulating_data_' = FALSE, block' = <<>>
  PROVE  BlockInv'
<1>1. <<>> \in Block
  BY EmptySeq DEF Block
<1> QED
  BY <1>1, NoLines DEF BlockInv

(* The last part of complete_message queues the block and drops it.        *)
LEMMA BlockFinished ==
  ASSUME BlockInv, FinishMessage, block' = <<>>, UNCHANGED delivered
  PROVE  BlockInv' /\ MessagesOfStep
<1>1. BlockInv'
  BY BlockDropped DEF FinishMessage
<1> QED
  BY <1>1 DEF FinishMessage, BlockInv, MessagesOfStep

(* A line that is not empty joins the block, also one that fails.          *)
LEMMA BlockGrows ==
  ASSUME IInv, BlockInv, NEW line \in Seq(Token), Bld!ProcessField(line),
         block' = Append(block, line), UNCHANGED delivered
  PROVE  BlockInv' /\ MessagesOfStep
<1>1. BldP!TypeOK /\ BldP!ProcessField(line)
  BY Lengths, SameBuilder
<1>2. /\ current_msg_ = BldP!Interpret(block)
      /\ accumulating_data_ <=> BldP!DataLines(block) # {}
      /\ block \in BldP!Block /\ block \in Block
  BY SameBlocks DEF BlockInv, Block, BldP!Block
<1>3. /\ current_msg_' = BldP!Interpret(Append(block, line))
      /\ accumulating_data_' <=> BldP!DataLines(Append(block, line)) # {}
  BY <1>1, <1>2, PartsAssumptions, BldP!ProcessFieldReads
<1>4. block' \in Block
  BY <1>2, Appended
<1>5. UNCHANGED completed_messages_
  BY <1>1 DEF BldP!ProcessField
<1> QED
  BY <1>3, <1>4, <1>5, SameBlocks DEF BlockInv, MessagesOfStep

(* feed_line: the message handed to a callback stays under construction    *)
(* until the callback returns.                                             *)
LEMMA BlockFed ==
  ASSUME IInv, BlockInv, NEW line \in Seq(Token), NEW next, Feed(line, next)
  PROVE  BlockInv' /\ MessagesOfStep
<1>1. CASE CompleteMessage(next) /\ FinishMessage /\ block' = <<>> /\ UNCHANGED delivered
  BY <1>1, BlockFinished
<1>2. CASE /\ CompleteMessage(next) /\ out'.called # None
           /\ delivered' = Append(delivered, out'.called)
           /\ UNCHANGED <<completed_messages_, current_msg_, accumulating_data_, block>>
  <2>1. out'.called.msg = Interpret(block)
    BY <1>2 DEF CompleteMessage, Bld!Notify, Bld!Nothing, BlockInv
  <2>2. delivered \in Seq(Delivery)
    BY DEF IInv, TypeOK
  <2>3. delivered'[Len(delivered')] = out'.called
    BY <1>2, <2>2
  <2> QED
    BY <1>2, <2>1, <2>3 DEF BlockInv, MessagesOfStep
<1>3. CASE Bld!ProcessField(line) /\ block' = Append(block, line) /\ UNCHANGED delivered
  BY <1>3, BlockGrows
<1> QED
  BY <1>1, <1>2, <1>3 DEF Feed, CompleteMessage

(* Every step of user code and of the parser.                              *)
LEMMA BlockNext ==
  ASSUME IInv, BlockInv, [Next]_vars
  PROVE  BlockInv' /\ MessagesOfStep
<1>1. ASSUME UNCHANGED <<bld_vars, delivered, block>> PROVE BlockInv' /\ MessagesOfStep
  BY <1>1, BlockStill DEF bld_vars
<1>2. CASE \E chunk \in Chunks : Parse(chunk)
  BY <1>1, <1>2 DEF Parse
<1>3. CASE Flush \/ CallbackThrows \/ FlushClear
  BY <1>1, <1>3 DEF Flush, CallbackThrows, FlushClear
<1>4. CASE Reset
  <2>1. BlockInv'
    BY <1>4, BlockDropped DEF Reset, Bld!Reset, Bld!DefaultMessage, DefaultMessage
  <2> QED
    BY <1>4, <2>1 DEF Reset, Bld!Reset, MessagesOfStep
<1>5. CASE \E callback \in StdCallbacks \cup {None} : SetCallback(callback)
  BY <1>5, BlockStill DEF SetCallback, Bld!SetCallback
<1>6. CASE CallbackReturns
  BY <1>6, BlockFinished DEF CallbackReturns
<1>7. CASE ReadLine
  <2>1. CASE UNCHANGED <<bld_vars, delivered, block>>
    BY <1>1, <2>1
  <2>2. CASE ret'.line # None /\ Feed(ret'.line, "loop")
    <3>1. ret'.line \in Seq(Token)
      BY <1>7, <2>2, Lengths, BufferSteps DEF ReadLine
    <3> QED
      BY <2>2, <3>1, BlockFed
  <2> QED
    BY <1>7, <2>1, <2>2 DEF ReadLine
<1>8. CASE FlushLeftover
  <2>1. Buf!View \in Seq(Token)
    BY Lengths DEF Buf!View, Buf!TypeOK
  <2> QED
    BY <1>1, <1>8, <2>1, BlockFed DEF FlushLeftover
<1>9. CASE FlushComplete
  BY <1>9, EmptySeq, BlockFed DEF FlushComplete
<1>10. CASE UNCHANGED vars
  BY <1>1, <1>10 DEF vars
<1> QED
  BY <1>2, <1>3, <1>4, <1>5, <1>6, <1>7, <1>8, <1>9, <1>10 DEF Next, ParserStep

(* Each message handed to a callback and each message queued is what was   *)
(* fed to the builder since a message was last queued or reset, read as    *)
(* one block, at every depth of nested calls and whichever callbacks throw *)
(* (process_field, complete_message, reset).                               *)
THEOREM MessagesFromLines == Spec => MessagesAreTheirLines
<1> DEFINE Inv == IInv /\ BlockInv
<1>1. Init => Inv
  <2>1. Init => BlockInv
    <3>1. <<>> \in Block
      BY EmptySeq DEF Block
    <3> QED
      BY <3>1, NoLines DEF Init, BlockInv
  <2> QED
    BY <2>1, InitInv
<1>2. Inv /\ [Next]_vars => Inv'
  BY NextInv, BlockNext
<1>3. Inv /\ [Next]_vars =>
        [/\ delivered' # delivered => delivered'[Len(delivered')].msg = Interpret(block)
         /\ completed_messages_' # completed_messages_ =>
              completed_messages_' = Append(completed_messages_, Interpret(block))]_vars
  BY BlockNext DEF MessagesOfStep
<1> QED
  BY <1>1, <1>2, <1>3, PTL DEF Spec, MessagesAreTheirLines

--------------------------------------------------------------------------------
(* SseParser, seen as the parser is (SP).                                  *)

SeenPc == IF ParserRuns THEN Place ELSE "idle"

(* Where a call stands when it goes on at next.                            *)
Onto(next) == IF next = "loop" THEN Top.call ELSE next

(* The operations of the parts, as SseParser sees them.                    *)
LEMMA SeenBuffer ==
  /\ \A chunk : SP!Buf!AppendChunk(chunk) <=> Buf!AppendChunk(chunk)
  /\ SP!Buf!ReadLine <=> Buf!ReadLine
  /\ SP!Buf!Clear <=> Buf!Clear
  /\ SP!Buf!Init <=> Buf!Init
  /\ SP!Buf!Empty <=> Buf!Empty
  /\ SP!Buf!View = Buf!View
  BY DEF
     SP!Buf!AppendChunk, Buf!AppendChunk, SP!Buf!Fits, Buf!Fits, SP!Buf!Compact,
     Buf!Compact, SP!Buf!Unread, Buf!Unread, SP!Buf!ReadLine, Buf!ReadLine,
     SP!Buf!LineEnds, Buf!LineEnds, SP!Buf!FindLineEnd, Buf!FindLineEnd, SP!Buf!EOL,
     Buf!EOL, SP!Buf!AfterTerminator, Buf!AfterTerminator, SP!Buf!RawLine, Buf!RawLine,
     SP!Buf!TrimmedLen, Buf!TrimmedLen, SP!Buf!Clear, Buf!Clear, SP!Buf!Init, Buf!Init,
     SP!Buf!Empty, Buf!Empty, SP!Buf!View, Buf!View, SP!CR, SP!LF, CR, LF

LEMMA SeenParse ==
  \A line, msg : SP!Bld!ParseFieldLine(line, msg) = Bld!ParseFieldLine(line, msg)
<1>1. \A v : SP!Bld!ParseRetryValue(v) = Bld!ParseRetryValue(v)
  BY DEF
     Bld!ParseRetryValue, SP!Bld!ParseRetryValue, Bld!Trim, SP!Bld!Trim,
     Bld!IsSpace, SP!Bld!IsSpace, Bld!DigitLoop, SP!Bld!DigitLoop, Bld!AddDigit,
     SP!Bld!AddDigit, Bld!IsDigit, SP!Bld!IsDigit, Bld!Digits, SP!Bld!Digits,
     Bld!DigitValue, SP!Bld!DigitValue, Bld!WouldOverflow, SP!Bld!WouldOverflow,
     Bld!Space, SP!Bld!Space, Bld!CR, SP!Bld!CR, Bld!LF, SP!Bld!LF
<1>2. \A v : /\ SP!Bld!FieldValue(v) = Bld!FieldValue(v)
             /\ SP!Bld!FieldName(v) = Bld!FieldName(v)
             /\ SP!Bld!IsComment(v) = Bld!IsComment(v)
  BY DEF
     Bld!FieldValue, SP!Bld!FieldValue, Bld!FieldName, SP!Bld!FieldName,
     Bld!HasColon, SP!Bld!HasColon, Bld!StripSpace, SP!Bld!StripSpace,
     Bld!FirstColon, SP!Bld!FirstColon, Bld!IsComment, SP!Bld!IsComment,
     Bld!Colon, SP!Bld!Colon, Bld!Space, SP!Bld!Space
<1> QED
  BY <1>1, <1>2 DEF Bld!ParseFieldLine, SP!Bld!ParseFieldLine

(* A line that completes nothing.                                          *)
LEMMA SeenField ==
  ASSUME NEW line, Bld!ProcessField(line)
  PROVE  SP!Bld!ProcessField(line)
<1>1. /\ SP!Bld!DataValue(line) = Bld!DataValue(line)
      /\ SP!Bld!IsDataLine(line) <=> Bld!IsDataLine(line)
  BY DEF Bld!DataValue, SP!Bld!DataValue, Bld!IsDataLine, SP!Bld!IsDataLine,
     Bld!StripSpace, SP!Bld!StripSpace, Bld!Colon, SP!Bld!Colon, Bld!Space, SP!Bld!Space
<1>2. \A value : Bld!AddData(value) <=> SP!Bld!AddData(value)
  BY DEF Bld!AddData, SP!Bld!AddData, Bld!LF, SP!Bld!LF
<1>3. \A msg : Bld!Merge(msg) <=> SP!Bld!Merge(msg)
  BY DEF Bld!Merge, SP!Bld!Merge, Bld!DefaultMessage, SP!Bld!DefaultMessage
<1>4. Bld!Nothing = SP!Bld!Nothing /\ Bld!DefaultMessage = SP!Bld!DefaultMessage
  BY DEF Bld!Nothing, SP!Bld!Nothing, Bld!DefaultMessage, SP!Bld!DefaultMessage
<1> QED
  BY <1>1, <1>2, <1>3, <1>4, SeenParse DEF Bld!ProcessField, SP!Bld!ProcessField

(* A call that goes on, or returns to the user code it was made by.        *)
LEMMA SeenGoto ==
  ASSUME StackOK, ParserRuns, NEW next \in Places, Goto(next, None)
  PROVE  SeenPc' = Onto(next) /\ UNCHANGED result /\ ~ Running'
<1>1. /\ stack' # <<>> /\ Top'.running = None /\ Top'.at = next
      /\ Top'.call = Top.call /\ result' = result
  BY GotoEffect DEF ParserRuns
<1> QED
  BY <1>1 DEF SeenPc, ParserRuns, Place, Onto, Running

LEMMA SeenReturn ==
  ASSUME StackOK, ParserRuns, NEW err, Return(err)
  PROVE  SP!Return(Top.call, err)
<1>1. /\ stack' # <<>> => Top'.running # None
      /\ result' = [call |-> Top.call, err |-> err]
  BY ReturnEffect DEF ParserRuns
<1>2. ~ ParserRuns'
  BY <1>1 DEF ParserRuns
<1> QED
  BY <1>1, <1>2 DEF SP!Return

(* A callback starts under a call that goes on later.                      *)
LEMMA CallbackStarts ==
  ASSUME IInv, ParserRuns, NEW next \in Places, CompleteMessage(next), out'.called # None
  PROVE  /\ out'.called = [to |-> callback_, msg |-> current_msg_]
         /\ callback_ \in StdCallbacks /\ out'.err = "success"
         /\ Len(stack') = Len(stack) /\ stack' # <<>> /\ Running'
         /\ Top'.at = next /\ Top'.call = Top.call /\ UNCHANGED result
<1>1. /\ callback_ \in StdCallbacks \cup {None} /\ current_msg_ \in Message
      /\ StackOK /\ stack # <<>>
  BY Lengths DEF Bld!TypeOK, Bld!Message, Message, ParserRuns
<1>2. /\ out'.called = [to |-> callback_, msg |-> current_msg_]
      /\ callback_ # None /\ out'.err = "success"
  BY DEF CompleteMessage, Bld!Notify, Bld!Nothing
<1>3. out'.called \in Delivery
  BY <1>1, <1>2 DEF Delivery
<1>4. /\ stack' # <<>> /\ Len(stack') = Len(stack) /\ Top'.running = out'.called
      /\ Top'.at = next /\ Top'.call = Top.call /\ result' = result
  BY <1>1, <1>3, GotoEffect DEF CompleteMessage
<1> QED
  BY <1>1, <1>2, <1>4 DEF Running

(* feed_line, if no callback starts.                                       *)
LEMMA SeenFeed ==
  ASSUME IInv, ParserRuns, ~ CallbackStartsOrReturns,
         NEW line, NEW next \in Places, Feed(line, next)
  PROVE  SP!Feed(line, Top.call, Onto(next)) /\ UNCHANGED callback_
<1>1. StackOK /\ stack # <<>> /\ ~ Running
  BY Lengths DEF ParserRuns, Running
<1>2. SP!Feed(line, Top.call, Onto(next)) <=>
        /\ SP!Bld!FeedLine(line)
        /\ SP!Deliver
        /\ IF out'.err = "success"
           THEN SeenPc' = Onto(next) /\ UNCHANGED result
           ELSE SP!Return(Top.call, out'.err)
  BY DEF SP!Feed, SeenPc
<1>3. ASSUME out'.called = None, UNCHANGED delivered PROVE SP!Deliver
  BY <1>3 DEF SP!Deliver
<1>4. CASE line = <<>> /\ CompleteMessage(next) /\ out'.called = None /\ FinishMessage
           /\ UNCHANGED delivered
  <2>1. SeenPc' = Onto(next) /\ UNCHANGED result
    BY <1>1, <1>4, SeenGoto DEF CompleteMessage
  <2>2. out'.err = "success" /\ UNCHANGED callback_
    BY <1>4 DEF CompleteMessage, Bld!Notify, Bld!Nothing
  <2>3. SP!Bld!TrackId /\ SP!Bld!Notify
    BY <1>4 DEF CompleteMessage, Bld!TrackId, SP!Bld!TrackId, Bld!Notify, SP!Bld!Notify,
       Bld!Nothing, SP!Bld!Nothing
  <2>4. SP!Bld!FeedLine(line)
    BY <1>4, <2>2, <2>3 DEF FinishMessage, SP!Bld!FeedLine, SP!Bld!CompleteMessage,
       SP!Bld!DefaultMessage, DefaultMessage
  <2> QED
    BY <1>2, <1>3, <1>4, <2>1, <2>2, <2>4
<1>5. CASE line = <<>> /\ CompleteMessage(next) /\ out'.called # None
  <2>1. Len(stack') = Len(stack) /\ Running'
    BY <1>5, CallbackStarts
  <2> QED
    BY <1>1, <2>1 DEF CallbackStartsOrReturns
<1>6. CASE /\ line # <<>>
           /\ Bld!ProcessField(line)
           /\ IF out'.err = "success" THEN Goto(next, None) ELSE Return(out'.err)
           /\ UNCHANGED delivered
  <2>1. out'.called = None /\ UNCHANGED callback_
    BY <1>6 DEF Bld!ProcessField, Bld!Nothing
  <2>2. SP!Bld!FeedLine(line)
    BY <1>6, SeenField DEF SP!Bld!FeedLine
  <2>3. IF out'.err = "success"
        THEN SeenPc' = Onto(next) /\ UNCHANGED result
        ELSE SP!Return(Top.call, out'.err)
    BY <1>1, <1>6, SeenGoto, SeenReturn
  <2> QED
    BY <1>2, <1>3, <1>6, <2>1, <2>2, <2>3
<1> QED
  BY <1>4, <1>5, <1>6 DEF Feed, CompleteMessage

(* A call that starts, or is over at once, from user code at any depth.    *)
LEMMA UserCodeIsIdle ==
  ASSUME NEW op, MayCall(op)
  PROVE  SeenPc = "idle"
  BY DEF MayCall, SeenPc, ParserRuns

LEMMA SeenEnter ==
  ASSUME StackOK, NEW call \in {"parse", "flush"}, MayCall(call), Len(stack) < MaxDepth,
         Enter(call)
  PROVE  SeenPc' = call /\ UNCHANGED result
<1>1. stack # <<>> => Top.running # None
  BY DEF MayCall
<1>2. /\ stack' # <<>> /\ Top'.running = None /\ result' = result
      /\ Top'.at = "loop" /\ Top'.call = call
  BY <1>1, EnterEffect
<1> QED
  BY <1>2 DEF SeenPc, ParserRuns, Place

LEMMA SeenAtOnce ==
  ASSUME NEW op, MayCall(op), NEW call, NEW err, ReturnAtOnce(call, err)
  PROVE  SP!Return(call, err)
<1>1. ~ ParserRuns /\ stack' = stack /\ result' = [call |-> call, err |-> err]
  BY DEF MayCall, ParserRuns, ReturnAtOnce
<1>2. ~ ParserRuns'
  BY <1>1 DEF ParserRuns, Top
<1> QED
  BY <1>1, <1>2 DEF SP!Return

(* A call by user code, in the main program or in a callback.              *)
LEMMA CallIsSeen ==
  ASSUME IInv,
         \/ \E chunk \in Chunks : Parse(chunk)
         \/ Flush
         \/ Reset
         \/ \E callback \in StdCallbacks \cup {None} : SetCallback(callback)
  PROVE  SP!Call
<1>1. StackOK
  BY Lengths
<1>2. ASSUME NEW chunk \in Chunks, Parse(chunk) PROVE SP!Parse(chunk)
  <2>1. /\ MayCall("parse") /\ SeenPc = "idle" /\ Len(stack) < MaxDepth
        /\ UNCHANGED <<bld_vars, delivered>>
    BY <1>2, UserCodeIsIdle DEF Parse
  <2>2. UNCHANGED <<SP!bld_vars, SP!own_vars>>
    BY <2>1 DEF SP!own_vars, SP!bld_vars, bld_vars
  <2>3. CASE chunk = <<>> /\ ReturnAtOnce("parse", "success") /\ UNCHANGED buf_vars
    <3>1. SP!Return("parse", "success") /\ UNCHANGED SP!buf_vars
      BY <2>1, <2>3, SeenAtOnce DEF SP!buf_vars, buf_vars
    <3> QED
      BY <2>1, <2>2, <2>3, <3>1 DEF SP!Parse, SeenPc
  <2>4. CASE /\ chunk # <<>>
             /\ Buf!AppendChunk(chunk)
             /\ IF ret'.err = "success" THEN Enter("parse")
                ELSE ReturnAtOnce("parse", ret'.err)
    <3>1. SP!Buf!AppendChunk(chunk)
      BY <2>4, SeenBuffer
    <3>2. IF ret'.err = "success" THEN SeenPc' = "parse" /\ UNCHANGED result
          ELSE SP!Return("parse", ret'.err)
      BY <1>1, <2>1, <2>4, SeenEnter, SeenAtOnce
    <3> QED
      BY <2>1, <2>2, <2>4, <3>1, <3>2 DEF SP!Parse, SeenPc
  <2> QED
    BY <1>2, <2>3, <2>4 DEF Parse
<1>3. ASSUME Flush PROVE SP!Flush
  <2>1. /\ MayCall("flush") /\ SeenPc = "idle" /\ Len(stack) < MaxDepth
        /\ UNCHANGED <<buf_vars, bld_vars, delivered>>
    BY <1>3, UserCodeIsIdle DEF Flush
  <2>2. UNCHANGED <<SP!buf_vars, SP!bld_vars, SP!own_vars>>
    BY <2>1 DEF SP!own_vars, SP!bld_vars, SP!buf_vars, bld_vars, buf_vars
  <2>3. \/ Buf!Empty /\ SP!Return("flush", "success")
        \/ ~ Buf!Empty /\ SeenPc' = "flush" /\ UNCHANGED result
    BY <1>1, <1>3, <2>1, SeenEnter, SeenAtOnce DEF Flush
  <2> QED
    BY <2>1, <2>2, <2>3, SeenBuffer DEF SP!Flush, SeenPc
<1>4. ASSUME Reset PROVE SP!Reset
  <2>1. /\ MayCall("reset") /\ SeenPc = "idle" /\ SP!Return("reset", "success")
        /\ Buf!Clear /\ Bld!Reset /\ UNCHANGED delivered
    BY <1>4, UserCodeIsIdle, SeenAtOnce DEF Reset
  <2>2. SP!Bld!Reset /\ UNCHANGED callback_
    BY <2>1 DEF Bld!Reset, SP!Bld!Reset, Bld!Nothing, SP!Bld!Nothing,
       Bld!DefaultMessage, SP!Bld!DefaultMessage
  <2> QED
    BY <2>1, <2>2, SeenBuffer DEF SP!Reset, SP!ClearState, SeenPc
<1>5. ASSUME NEW callback \in StdCallbacks \cup {None}, SetCallback(callback)
      PROVE  SP!SetCallback(callback)
  <2>1. /\ MayCall("set_callback") /\ SeenPc = "idle" /\ SP!Return("set_callback", "success")
        /\ Bld!SetCallback(callback) /\ UNCHANGED <<buf_vars, delivered>>
    BY <1>5, UserCodeIsIdle, SeenAtOnce DEF SetCallback
  <2>2. SP!Bld!SetCallback(callback) /\ callback_' = callback /\ UNCHANGED SP!buf_vars
    BY <2>1 DEF Bld!SetCallback, SP!Bld!SetCallback, Bld!Nothing, SP!Bld!Nothing,
       SP!buf_vars, buf_vars
  <2> QED
    BY <2>1, <2>2 DEF SP!SetCallback, SeenPc
<1> QED
  BY <1>2, <1>3, <1>4, <1>5 DEF SP!Call

(* What the parser does between two runs of user code.                     *)
LEMMA ParserStepIsSeen ==
  ASSUME IInv, OnlyFlush, ParserStep, ~ CallbackStartsOrReturns, ~ NothingLeft
  PROVE  SP!Continue
<1>1. /\ StackOK /\ ParserRuns /\ stack # <<>> /\ Buf!TypeOK
      /\ Top.call \in {"parse", "flush"}
      /\ Top.at # "loop" => Top.call = "flush"
  <2>1. ParserRuns /\ StackOK /\ Buf!TypeOK
    BY Lengths DEF ParserStep, ReadLine, FlushLeftover, FlushComplete, FlushClear
  <2> QED
    BY <2>1, TopIsFrame, TopOfFlush DEF ParserRuns, Frame
<1>2. SeenPc = IF Top.at = "loop" THEN Top.call ELSE Top.at
  BY <1>1 DEF SeenPc, Place
<1>3. /\ UNCHANGED callback_ => UNCHANGED SP!own_vars
      /\ UNCHANGED buf_vars => UNCHANGED SP!buf_vars
      /\ UNCHANGED bld_vars => UNCHANGED SP!bld_vars
  BY DEF SP!own_vars, SP!buf_vars, buf_vars, SP!bld_vars, bld_vars
<1>4. Onto("loop") = Top.call /\ Onto("complete") = "complete"
      /\ Onto("clear") = "clear" /\ Onto("leftover") = "leftover"
  BY DEF Onto
<1>5. CASE ReadLine
  <2>1. /\ SP!Buf!ReadLine /\ SeenPc = Top.call
    BY <1>2, <1>5, SeenBuffer DEF ReadLine
  <2>2. CASE /\ ret'.line = None /\ Top.call = "parse" /\ Return("success")
             /\ UNCHANGED <<bld_vars, delivered>>
    <3>1. SP!Return("parse", "success") /\ UNCHANGED <<SP!bld_vars, SP!own_vars>>
      BY <1>1, <1>3, <2>2, SeenReturn DEF bld_vars
    <3>2. SP!ParseLine
      BY <2>1, <2>2, <3>1 DEF SP!ParseLine, SP!LineLoop, SeenPc
    <3> QED
      BY <3>2 DEF SP!Continue
  <2>3. CASE /\ ret'.line = None /\ Top.call # "parse" /\ Goto("leftover", None)
             /\ UNCHANGED <<bld_vars, delivered>>
    <3>1. SeenPc' = "leftover" /\ UNCHANGED result /\ SeenPc = "flush"
      BY <1>1, <1>4, <2>1, <2>3, SeenGoto DEF Places
    <3>2. UNCHANGED <<SP!bld_vars, SP!own_vars>>
      BY <1>3, <2>3 DEF bld_vars
    <3>3. SP!FlushLine
      BY <2>1, <2>3, <3>1, <3>2 DEF SP!FlushLine, SP!LineLoop, SeenPc
    <3> QED
      BY <3>3 DEF SP!Continue
  <2>4. CASE ret'.line # None /\ Feed(ret'.line, "loop")
    <3>1. SP!Feed(ret'.line, Top.call, Top.call) /\ UNCHANGED SP!own_vars
      BY <1>1, <1>3, <1>4, <2>4, SeenFeed DEF Places
    <3>2. SeenPc = "parse" => SP!ParseLine
      BY <2>1, <2>4, <3>1 DEF SP!ParseLine, SP!LineLoop, SeenPc
    <3>3. SeenPc = "flush" => SP!FlushLine
      BY <2>1, <2>4, <3>1 DEF SP!FlushLine, SP!LineLoop, SeenPc
    <3> QED
      BY <1>1, <2>1, <3>2, <3>3 DEF SP!Continue
  <2> QED
    BY <1>5, <2>2, <2>3, <2>4 DEF ReadLine
<1>6. CASE FlushLeftover
  <2>1. /\ Top.at = "leftover" /\ Feed(Buf!View, "complete") /\ UNCHANGED buf_vars
        /\ SeenPc = "leftover" /\ Top.call = "flush"
    BY <1>1, <1>2, <1>6 DEF FlushLeftover, NothingLeft
  <2>2. SP!Feed(SP!Buf!View, "flush", "complete") /\ UNCHANGED callback_
    BY <1>1, <1>4, <2>1, SeenFeed, SeenBuffer DEF Places
  <2>3. SP!FlushLeftover
    BY <1>3, <2>1, <2>2 DEF SP!FlushLeftover, SeenPc
  <2> QED
    BY <2>3 DEF SP!Continue
<1>7. CASE FlushComplete
  <2>1. /\ Top.at = "complete" /\ Feed(<<>>, "clear") /\ UNCHANGED buf_vars
        /\ SeenPc = "complete" /\ Top.call = "flush"
    BY <1>1, <1>2, <1>7 DEF FlushComplete
  <2>2. SP!Feed(<<>>, "flush", "clear") /\ UNCHANGED callback_
    BY <1>1, <1>4, <2>1, SeenFeed DEF Places
  <2>3. SP!FlushComplete
    BY <1>3, <2>1, <2>2 DEF SP!FlushComplete, SeenPc
  <2> QED
    BY <2>3 DEF SP!Continue
<1>8. CASE FlushClear
  <2>1. /\ Top.at = "clear" /\ Buf!Clear /\ Return("success")
        /\ UNCHANGED <<bld_vars, delivered>> /\ SeenPc = "clear" /\ Top.call = "flush"
    BY <1>1, <1>2, <1>8 DEF FlushClear
  <2>2. SP!Return("flush", "success") /\ UNCHANGED <<SP!bld_vars, SP!own_vars>>
    BY <1>1, <1>3, <2>1, SeenReturn DEF bld_vars
  <2>3. SP!FlushClear
    BY <2>1, <2>2, SeenBuffer DEF SP!FlushClear, SeenPc
  <2> QED
    BY <2>3 DEF SP!Continue
<1> QED
  BY <1>5, <1>6, <1>7, <1>8 DEF ParserStep

(* Every step, save where a callback starts, returns or throws.            *)
LEMMA StepIsSeen ==
  ASSUME IInv, OnlyFlush, [Next]_vars, ~ CallbackStartsOrReturns
  PROVE  Thrown \/ NothingLeft \/ [SP!Next]_(SP!vars)
<1>1. StackOK /\ Len(stack) \in Nat
  BY Lengths
<1>2. CASE UNCHANGED vars
  <2>1. /\ UNCHANGED <<buf_vars, bld_vars, stack, result, delivered>>
        /\ SeenPc' = SeenPc
    BY <1>2 DEF vars, ParserRuns, Place, Top, SeenPc
  <2> QED
    BY <2>1 DEF SP!vars, SP!buf_vars, SP!bld_vars, SP!own_vars, buf_vars, bld_vars, SeenPc
<1>3. CASE CallbackReturns
  <2>1. /\ Running /\ stack # <<>> /\ Goto(Top.at, None)
    BY <1>3 DEF CallbackReturns, Running
  <2>2. Top.at \in Places
    BY <1>1, <2>1, TopIsFrame DEF Frame, Places
  <2>3. Len(stack') = Len(stack) /\ ~ Running'
    BY <1>1, <2>1, <2>2, GotoEffect DEF Running
  <2> QED
    BY <2>1, <2>3 DEF CallbackStartsOrReturns
<1>4. CASE CallbackThrows
  <2>1. Running /\ stack # <<>> /\ Return("exception")
    BY <1>4 DEF CallbackThrows, Running
  <2>2. Len(stack') < Len(stack)
    BY <1>1, <2>1, ReturnEffect
  <2> QED
    BY <2>1, <2>2 DEF Thrown
<1>5. CASE ParserStep
  BY <1>5, ParserStepIsSeen DEF SP!Next
<1>6. CASE \/ \E chunk \in Chunks : Parse(chunk)
           \/ Flush
           \/ Reset
           \/ \E callback \in StdCallbacks \cup {None} : SetCallback(callback)
  BY <1>6, CallIsSeen DEF SP!Next
<1> QED
  BY <1>2, <1>3, <1>4, <1>5, <1>6 DEF Next

--------------------------------------------------------------------------------
(* SseParser, seen as the parser is once the callback that runs is over    *)
(* (SPBelow).                                                              *)

BelowMsg == IF Running THEN DefaultMessage ELSE current_msg_
BelowAccumulating == ~ Running /\ accumulating_data_
BelowCompleted ==
  IF Running THEN Append(completed_messages_, current_msg_) ELSE completed_messages_
BelowPc == IF stack = <<>> THEN "idle" ELSE Place

LEMMA SeenReadLineBelow == SPBelow!Buf!ReadLine <=> Buf!ReadLine
  BY DEF
     SPBelow!Buf!ReadLine, Buf!ReadLine, SPBelow!Buf!LineEnds, Buf!LineEnds,
     SPBelow!Buf!FindLineEnd, Buf!FindLineEnd, SPBelow!Buf!EOL, Buf!EOL,
     SPBelow!Buf!AfterTerminator, Buf!AfterTerminator, SPBelow!Buf!RawLine, Buf!RawLine,
     SPBelow!Buf!TrimmedLen, Buf!TrimmedLen, SPBelow!CR, SPBelow!LF, CR, LF

(* The step that starts a callback completes the message.                  *)
LEMMA StartIsComplete ==
  ASSUME IInv, SP!Wrapper \notin StdCallbacks, ParserRuns, NEW next \in Places,
         CompleteMessage(next), out'.called # None
  PROVE  SPBelow!Feed(<<>>, Top.call, Onto(next)) /\ UNCHANGED callback_
<1>1. ~ Running /\ UNCHANGED callback_
  BY DEF ParserRuns, Running, CompleteMessage
<1>2. /\ out'.called = [to |-> callback_, msg |-> current_msg_]
      /\ callback_ \in StdCallbacks /\ out'.err = "success" /\ Running'
      /\ BelowPc' = Onto(next) /\ UNCHANGED result
  <2>1. /\ stack' # <<>> /\ Top'.at = next /\ Top'.call = Top.call
    BY CallbackStarts
  <2>2. BelowPc' = Onto(next)
    BY <2>1 DEF BelowPc, Place, Onto
  <2> QED
    BY <2>2, CallbackStarts
<1>3. /\ BelowMsg' = DefaultMessage /\ BelowAccumulating' = FALSE
      /\ BelowCompleted' = Append(BelowCompleted, BelowMsg) /\ BelowMsg = current_msg_
  BY <1>1, <1>2 DEF CompleteMessage, BelowMsg, BelowAccumulating, BelowCompleted
<1>4. SPBelow!Bld!TrackId /\ SPBelow!Bld!Notify
  BY <1>1 DEF CompleteMessage, Bld!TrackId, SPBelow!Bld!TrackId, Bld!Notify,
     SPBelow!Bld!Notify, Bld!Nothing, SPBelow!Bld!Nothing
<1>5. SPBelow!Bld!FeedLine(<<>>)
  BY <1>1, <1>3, <1>4 DEF SPBelow!Bld!FeedLine, SPBelow!Bld!CompleteMessage,
     SPBelow!Bld!DefaultMessage, DefaultMessage, BelowMsg, BelowAccumulating, BelowCompleted
<1>6. SPBelow!Deliver
  <2>1. callback_ # SPBelow!Wrapper
    BY <1>2 DEF SP!Wrapper, SPBelow!Wrapper
  <2>2. SPBelow!Receiver(out'.called.to) = out'.called.to
    BY <1>2, <2>1 DEF SPBelow!Receiver
  <2>3. [to |-> SPBelow!Receiver(out'.called.to), msg |-> out'.called.msg] = out'.called
    BY <1>2, <2>2
  <2>4. delivered' = Append(delivered, out'.called)
    BY DEF CompleteMessage
  <2> QED
    BY <2>3, <2>4 DEF SPBelow!Deliver
<1> QED
  BY <1>1, <1>2, <1>5, <1>6 DEF SPBelow!Feed, BelowPc

(* A line that does not complete a message starts no callback.             *)
LEMMA FieldStartsNothing ==
  ASSUME IInv, ParserRuns, NEW line, NEW next \in Places, Feed(line, next),
         CallbackStartsOrReturns
  PROVE  line = <<>> /\ CompleteMessage(next) /\ out'.called # None
<1>1. StackOK /\ stack # <<>> /\ ~ Running /\ Len(stack) \in Nat
  BY Lengths DEF ParserRuns, Running
<1>2. Running' /\ Len(stack') = Len(stack)
  BY <1>1 DEF CallbackStartsOrReturns
<1>3. ~ Goto(next, None)
  BY <1>1, <1>2, GotoEffect DEF Running
<1>4. ASSUME NEW err PROVE ~ Return(err)
  BY <1>1, <1>2, ReturnEffect
<1> QED
  BY <1>3, <1>4 DEF Feed, CompleteMessage

(* Every step in which a callback starts or returns.                       *)
LEMMA StartOrReturnIsSeen ==
  ASSUME IInv, OnlyFlush, SP!Wrapper \notin StdCallbacks, [Next]_vars,
         CallbackStartsOrReturns
  PROVE  [SPBelow!Next]_(SPBelow!vars)
<1>1. StackOK /\ Len(stack) \in Nat /\ Len(stack') = Len(stack) /\ ~ (Running' <=> Running)
  BY Lengths DEF CallbackStartsOrReturns
<1>2. ASSUME UNCHANGED stack PROVE FALSE
  BY <1>1, <1>2 DEF Running, Top
<1>3. ASSUME NEW call, Enter(call) PROVE FALSE
  BY <1>1, <1>3 DEF Enter, StackOK
<1>4. CASE \/ \E chunk \in Chunks : Parse(chunk)
           \/ Flush
           \/ Reset
           \/ \E callback \in StdCallbacks \cup {None} : SetCallback(callback)
           \/ UNCHANGED vars
  BY <1>2, <1>3, <1>4 DEF Parse, Flush, Reset, SetCallback, ReturnAtOnce, vars
<1>5. CASE CallbackThrows
  BY <1>1, <1>5, ReturnEffect DEF CallbackThrows
<1>6. CASE CallbackReturns
  <2>1. /\ Running /\ stack # <<>> /\ FinishMessage /\ Goto(Top.at, None)
        /\ UNCHANGED <<buf_vars, callback_, last_event_id_, out, delivered>>
    BY <1>6 DEF CallbackReturns, Running
  <2>2. Top.at \in Places
    BY <1>1, <2>1, TopIsFrame DEF Frame, Places
  <2>3. /\ stack' # <<>> /\ Top'.running = None /\ Top'.at = Top.at
        /\ Top'.call = Top.call /\ result' = result
    BY <1>1, <2>1, <2>2, GotoEffect
  <2>4. BelowPc' = BelowPc /\ ~ Running'
    BY <2>1, <2>3 DEF BelowPc, Place, Running
  <2>5. /\ BelowMsg' = BelowMsg
        /\ BelowAccumulating' = BelowAccumulating
        /\ BelowCompleted' = BelowCompleted
    BY <2>1, <2>4 DEF FinishMessage, BelowMsg, BelowAccumulating, BelowCompleted
  <2> QED
    BY <2>1, <2>3, <2>4, <2>5 DEF SPBelow!vars, SPBelow!buf_vars, SPBelow!bld_vars,
       SPBelow!own_vars, buf_vars, BelowPc, BelowMsg, BelowAccumulating, BelowCompleted
<1>7. CASE ParserStep
  <2>1. /\ ParserRuns /\ stack # <<>> /\ ~ Running /\ Buf!TypeOK
        /\ Top.call \in {"parse", "flush"}
        /\ Top.at # "loop" => Top.call = "flush"
    <3>1. ParserRuns /\ Buf!TypeOK
      BY <1>7, Lengths DEF ParserStep, ReadLine, FlushLeftover, FlushComplete, FlushClear
    <3> QED
      BY <1>1, <3>1, TopIsFrame, TopOfFlush DEF ParserRuns, Running, Frame
  <2>2. BelowPc = IF Top.at = "loop" THEN Top.call ELSE Top.at
    BY <2>1 DEF BelowPc, Place
  <2>3. /\ UNCHANGED callback_ => UNCHANGED SPBelow!own_vars
        /\ UNCHANGED buf_vars => UNCHANGED SPBelow!buf_vars
    BY DEF SPBelow!own_vars, SPBelow!buf_vars, buf_vars
  <2>4. ASSUME NEW next \in Places, Goto(next, None) PROVE FALSE
    BY <1>1, <2>1, <2>4, GotoEffect DEF Running
  <2>5. ASSUME NEW err, Return(err) PROVE FALSE
    BY <1>1, <2>1, <2>5, ReturnEffect
  <2>6. CASE ReadLine
    <3>1. /\ SPBelow!Buf!ReadLine /\ BelowPc = Top.call
          /\ ret'.line # None /\ Feed(ret'.line, "loop")
      BY <2>2, <2>4, <2>5, <2>6, SeenReadLineBelow DEF ReadLine, Places
    <3>2. ret'.line = <<>> /\ CompleteMessage("loop") /\ out'.called # None
      BY <2>1, <3>1, FieldStartsNothing DEF Places
    <3>3. SPBelow!Feed(ret'.line, Top.call, Top.call) /\ UNCHANGED SPBelow!own_vars
      BY <2>1, <2>3, <3>2, StartIsComplete DEF Places, Onto
    <3>4. BelowPc = "parse" => SPBelow!ParseLine
      BY <3>1, <3>3 DEF SPBelow!ParseLine, SPBelow!LineLoop, BelowPc
    <3>5. BelowPc = "flush" => SPBelow!FlushLine
      BY <3>1, <3>3 DEF SPBelow!FlushLine, SPBelow!LineLoop, BelowPc
    <3> QED
      BY <2>1, <3>1, <3>4, <3>5 DEF SPBelow!Continue, SPBelow!Next
  <2>7. CASE FlushLeftover
    <3>1. Buf!View # <<>> /\ Feed(Buf!View, "complete")
      BY <2>4, <2>7 DEF FlushLeftover, Places
    <3> QED
      BY <2>1, <3>1, FieldStartsNothing DEF Places
  <2>8. CASE FlushComplete
    <3>1. /\ Top.at = "complete" /\ Feed(<<>>, "clear") /\ UNCHANGED buf_vars
          /\ BelowPc = "complete" /\ Top.call = "flush"
      BY <2>1, <2>2, <2>8 DEF FlushComplete
    <3>2. CompleteMessage("clear") /\ out'.called # None
      BY <2>1, <3>1, FieldStartsNothing DEF Places
    <3>3. SPBelow!Feed(<<>>, "flush", "clear") /\ UNCHANGED callback_
      BY <2>1, <3>1, <3>2, StartIsComplete DEF Places, Onto
    <3>4. SPBelow!FlushComplete
      BY <2>3, <3>1, <3>3 DEF SPBelow!FlushComplete, BelowPc
    <3> QED
      BY <3>4 DEF SPBelow!Continue, SPBelow!Next
  <2>9. CASE FlushClear
    BY <2>5, <2>9 DEF FlushClear
  <2> QED
    BY <1>7, <2>6, <2>7, <2>8, <2>9 DEF ParserStep
<1> QED
  BY <1>4, <1>5, <1>6, <1>7 DEF Next

(* For all chunks, callbacks and calls that they make, and every depth:    *)
(* a call made in a callback takes the steps of SseParser from its entry   *)
(* to its return, the step that starts a callback completes the message,   *)
(* and its return is no step (parse, flush, reset, set_callback).  The     *)
(* name SseParser has for its own lambda is not that of a callback.        *)
THEOREM ReentrantImplementsSseParser ==
  ASSUME SP!Wrapper \notin StdCallbacks
  PROVE  Spec => RunsAsSseParser
<1> DEFINE Inv == IInv /\ OnlyFlush
<1>1. Init => Inv /\ SP!Init
  <2> SUFFICES ASSUME Init PROVE Inv /\ SP!Init
    OBVIOUS
  <2>1. Inv
    BY InitInv DEF Init, OnlyFlush
  <2>2. SeenPc = "idle"
    BY DEF Init, SeenPc, ParserRuns
  <2>3. SP!Init
    BY <2>2, SeenBuffer DEF Init, SP!Init, SeenPc, SP!DefaultMessage, DefaultMessage,
       SP!Bld!Nothing, Bld!Nothing
  <2> QED
    BY <2>1, <2>3
<1>2. Inv /\ [Next]_vars => Inv'
  BY NextInv, OnlyFlushNext
<1>3. Inv /\ [Next]_vars =>
        [IF CallbackStartsOrReturns THEN [SPBelow!Next]_(SPBelow!vars)
         ELSE Thrown \/ NothingLeft \/ [SP!Next]_(SP!vars)]_vars
  BY StepIsSeen, StartOrReturnIsSeen
<1> QED
  BY <1>1, <1>2, <1>3, PTL DEF Spec, RunsAsSseParser

================================================================================
