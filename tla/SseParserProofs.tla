--------------------------- MODULE SseParserProofs ----------------------------
(***************************************************************************)
(* Theorems about SseParser for every set of chunks and callbacks, every   *)
(* limit and every INT_MAX.                                                *)
(***************************************************************************)
EXTENDS SseParserHistory, TextLemmas, SequenceTheorems

--------------------------------------------------------------------------------
(* What is proved of the buffer and of the builder on their own holds of   *)
(* those inside a parser: BufP and BldP are Buf and Bld, with theorems.    *)
(* BldP is given no history of the builder: only the lemmas about single   *)
(* operations are used, and they do not mention it.                        *)

BufP == INSTANCE BufferProofs WITH Byte <- Token, MaxSizes <- {MaxSize}
BldP == INSTANCE MessageBuilderProofs WITH
          Lines <- {}, Callbacks <- StdCallbacks \cup {Wrapper},
          callback_ <- bld_callback_, last_event_id_ <- bld_last_event_id_,
          MaxLines <- 0, fed <- 0, block <- <<>>, completed <- <<>>, due <- <<>>,
          shown <- <<>>, popped <- <<>>, registered <- None, ids_from <- 0

(* The parser gives its parts what they assume.                            *)
LEMMA PartsAssumptions ==
  /\ BufP!BufferAssumption
  /\ BldP!FieldParserAssumption
  /\ BldP!MessageBuilderAssumption
<1>1. BufP!BufferAssumption
  <2>1. CR \in Token /\ LF \in Token /\ Chunks \subseteq Seq(Token) /\ MaxSize \in Nat
    BY FieldParserAssumption, SseParserAssumption
  <2>2. CR # LF
    BY DEF CR, LF
  <2> QED
    BY <2>1, <2>2 DEF BufP!BufferAssumption
<1> QED
  BY <1>1, FieldParserAssumption, SseParserAssumption DEF
     BldP!MessageBuilderAssumption, BldP!FieldParserAssumption, BldP!Message, Message,
     BldP!Colon, BldP!Space, BldP!CR, BldP!LF, Colon, Space, CR, LF

(* The operations of the buffer, seen through either instance.             *)
LEMMA SameBuffer ==
  /\ Buf!TypeOK <=> BufP!TypeOK
  /\ Buf!TypeOK' <=> BufP!TypeOK'
  /\ \A chunk : Buf!AppendChunk(chunk) <=> BufP!AppendChunk(chunk)
  /\ Buf!ReadLine <=> BufP!ReadLine
  /\ Buf!Clear <=> BufP!Clear
  BY DEF
     Buf!TypeOK, BufP!TypeOK, Buf!Results, BufP!Results, Buf!AppendChunk,
     BufP!AppendChunk, Buf!Fits, BufP!Fits, Buf!Compact, BufP!Compact,
     Buf!Unread, BufP!Unread, Buf!ReadLine, BufP!ReadLine, Buf!LineEnds,
     BufP!LineEnds, Buf!FindLineEnd, BufP!FindLineEnd, Buf!EOL, BufP!EOL,
     Buf!AfterTerminator, BufP!AfterTerminator, Buf!RawLine, BufP!RawLine,
     Buf!TrimmedLen, BufP!TrimmedLen, Buf!Clear, BufP!Clear

(* The functions of the field parser, seen through either instance.        *)
LEMMA SameRetry == \A v : Bld!ParseRetryValue(v) = BldP!ParseRetryValue(v)
  BY DEF
     Bld!ParseRetryValue, BldP!ParseRetryValue, Bld!Trim, BldP!Trim,
     Bld!IsSpace, BldP!IsSpace, Bld!DigitLoop, BldP!DigitLoop, Bld!AddDigit,
     BldP!AddDigit, Bld!IsDigit, BldP!IsDigit, Bld!Digits, BldP!Digits,
     Bld!DigitValue, BldP!DigitValue, Bld!WouldOverflow, BldP!WouldOverflow,
     Bld!Space, BldP!Space, Bld!CR, BldP!CR, Bld!LF, BldP!LF

(* The parts of a line, seen through either instance.                      *)
LEMMA SameFields ==
  \A v : /\ Bld!FieldValue(v) = BldP!FieldValue(v)
        /\ Bld!FieldName(v) = BldP!FieldName(v)
        /\ Bld!IsComment(v) = BldP!IsComment(v)
        /\ Bld!DataValue(v) = BldP!DataValue(v)
        /\ Bld!IsDataLine(v) = BldP!IsDataLine(v)
  BY DEF
     Bld!FieldValue, BldP!FieldValue, Bld!FieldName, BldP!FieldName,
     Bld!HasColon, BldP!HasColon, Bld!StripSpace, BldP!StripSpace,
     Bld!FirstColon, BldP!FirstColon, Bld!IsComment, BldP!IsComment,
     Bld!DataValue, BldP!DataValue, Bld!IsDataLine, BldP!IsDataLine,
     Bld!Colon, BldP!Colon, Bld!Space, BldP!Space

(* parse_field_line, seen through either instance.                         *)
LEMMA SameParse ==
  \A line, msg : Bld!ParseFieldLine(line, msg) = BldP!ParseFieldLine(line, msg)
  BY SameRetry, SameFields DEF
     Bld!ParseFieldLine, BldP!ParseFieldLine

(* The operations of the builder, seen through either instance.            *)
LEMMA SameBuilder ==
  /\ Bld!TypeOK <=> BldP!TypeOK
  /\ Bld!TypeOK' <=> BldP!TypeOK'
  /\ \A line : Bld!FeedLine(line) <=> BldP!FeedLine(line)
  /\ Bld!Reset <=> BldP!Reset
  /\ \A callback : Bld!SetCallback(callback) <=> BldP!SetCallback(callback)
<1>1. (Bld!TypeOK <=> BldP!TypeOK) /\ (Bld!TypeOK' <=> BldP!TypeOK')
  BY DEF
     Bld!TypeOK, BldP!TypeOK, Bld!Message, BldP!Message
<1>2. ASSUME NEW line PROVE Bld!FeedLine(line) <=> BldP!FeedLine(line)
  BY SameFields, SameParse DEF
     Bld!FeedLine, BldP!FeedLine, Bld!ProcessField, BldP!ProcessField,
     Bld!CompleteMessage, BldP!CompleteMessage, Bld!AddData, BldP!AddData,
     Bld!Merge, BldP!Merge, Bld!Nothing, BldP!Nothing, Bld!DefaultMessage,
     BldP!DefaultMessage, Bld!TrackId, BldP!TrackId, Bld!Notify, BldP!Notify,
     Bld!LF, BldP!LF
<1>3. Bld!Reset <=> BldP!Reset
  BY DEF
     Bld!Reset, BldP!Reset, Bld!Nothing, BldP!Nothing, Bld!DefaultMessage,
     BldP!DefaultMessage
<1>4. ASSUME NEW callback
      PROVE  Bld!SetCallback(callback) <=> BldP!SetCallback(callback)
  BY DEF
     Bld!SetCallback, BldP!SetCallback, Bld!Nothing, BldP!Nothing
<1> QED
  BY <1>1, <1>2, <1>3, <1>4

(* What the operations of the buffer do to a well formed one; a line that  *)
(* read_line returns has moved the read position.                          *)
LEMMA BufferSteps ==
  ASSUME Buf!TypeOK
  PROVE  /\ \A chunk \in Seq(Token) :
              Buf!AppendChunk(chunk) => /\ Buf!TypeOK'
                                        /\ ret'.err \in {"success", "buffer_overflow"}
         /\ Buf!ReadLine => /\ Buf!TypeOK'
                            /\ ret'.line \in Seq(Token) \cup {None}
                            /\ ret'.line # None => read_pos_' > read_pos_
         /\ Buf!Clear => Buf!TypeOK'
<1>1. BufP!TypeOK /\ read_pos_ \in Nat
  BY SameBuffer DEF Buf!TypeOK
<1>2. Buf!TypeOK' <=> BufP!TypeOK'
  BY SameBuffer
<1>3. ASSUME NEW chunk \in Seq(Token), Buf!AppendChunk(chunk)
      PROVE  Buf!TypeOK' /\ ret'.err \in {"success", "buffer_overflow"}
  <2>1. BufP!AppendChunk(chunk)
    BY <1>3, SameBuffer
  <2>2. /\ BufP!TypeOK'
        /\ ret' \in [call : {"append"}, err : {"success", "buffer_overflow"}]
    BY <1>1, <2>1, PartsAssumptions, BufP!AppendChunkType
  <2> QED
    BY <1>2, <2>2
<1>4. ASSUME Buf!ReadLine
      PROVE  /\ Buf!TypeOK'
             /\ ret'.line \in Seq(Token) \cup {None}
             /\ ret'.line # None => read_pos_' > read_pos_
  <2>1. BufP!ReadLine
    BY <1>4, SameBuffer
  <2>2. /\ BufP!TypeOK'
        /\ ret' \in [call : {"read_line"}, line : Seq(Token) \cup {None}]
        /\ \/ ret'.line = None
           \/ read_pos_' \in read_pos_ + 1 .. Len(buffer_)
    BY <1>1, <2>1, PartsAssumptions, BufP!ReadLineType
  <2> QED
    BY <1>1, <1>2, <2>2
<1>5. Buf!Clear => Buf!TypeOK'
  BY <1>1, <1>2, SameBuffer, PartsAssumptions, BufP!ClearType
<1> QED
  BY <1>3, <1>4, <1>5

(* What the operations of the builder do to a well formed one; the         *)
(* callback they call is the one set.                                      *)
LEMMA BuilderSteps ==
  ASSUME Bld!TypeOK
  PROVE  /\ \A line \in Seq(Token) :
              Bld!FeedLine(line) =>
                /\ Bld!TypeOK'
                /\ UNCHANGED bld_callback_
                /\ out'.called = None \/ out'.called.to = bld_callback_
         /\ Bld!Reset => Bld!TypeOK'
         /\ \A callback \in StdCallbacks \cup {Wrapper} \cup {None} :
              Bld!SetCallback(callback) => Bld!TypeOK'
<1>1. BldP!TypeOK
  BY SameBuilder
<1>2. Bld!TypeOK' <=> BldP!TypeOK'
  BY SameBuilder
<1>3. ASSUME NEW line \in Seq(Token), Bld!FeedLine(line)
      PROVE  /\ Bld!TypeOK'
             /\ UNCHANGED bld_callback_
             /\ out'.called = None \/ out'.called.to = bld_callback_
  <2>1. BldP!FeedLine(line)
    BY <1>3, SameBuilder
  <2>2. BldP!TypeOK'
    BY <1>1, <2>1, PartsAssumptions, BldP!FeedLineType
  <2>3. out'.called = None \/ out'.called.to = bld_callback_
    BY <2>1, PartsAssumptions, BldP!CalledIsSet
  <2>4. UNCHANGED bld_callback_
    BY <1>3 DEF Bld!FeedLine, Bld!ProcessField, Bld!CompleteMessage
  <2> QED
    BY <1>2, <2>2, <2>3, <2>4
<1>4. Bld!Reset => Bld!TypeOK'
  BY <1>1, <1>2, SameBuilder, PartsAssumptions, BldP!ResetType
<1>5. ASSUME NEW callback \in StdCallbacks \cup {Wrapper} \cup {None},
             Bld!SetCallback(callback)
      PROVE  Bld!TypeOK'
  BY <1>1, <1>2, <1>5, SameBuilder, PartsAssumptions, BldP!SetCallbackType
<1> QED
  BY <1>3, <1>4, <1>5

--------------------------------------------------------------------------------
(* The inductive invariant: the builder holds the wrapper only while there *)
(* is a function pointer for it to call.                                   *)

WrapperIsBacked ==
  bld_callback_ = Wrapper => fn_callback_ \in FnCallbacks /\ user_data_ \in UserData

IInv == TypeOK /\ WrapperIsBacked

(* Both constructors establish the invariant.                              *)
LEMMA InitInv == Init => IInv
<1> SUFFICES ASSUME Init PROVE IInv
  OBVIOUS
<1>1. Buf!TypeOK
  <2>1. MaxSize \in Nat
    BY SseParserAssumption
  <2> QED
    BY <2>1 DEF Init, Buf!Init, Buf!TypeOK, Buf!Results
<1>2. Bld!TypeOK
  <2>1. "message" \in Token
    BY FieldParserAssumption
  <2>2. current_msg_ \in Bld!Message
    BY <2>1 DEF Init, DefaultMessage, Bld!Message
  <2>3. out \in [err : {"success", "invalid_retry"},
                 called : [to : StdCallbacks \cup {Wrapper}, msg : Bld!Message] \cup {None},
                 got : Bld!Message \cup {None}]
    BY DEF Init, Bld!Nothing
  <2>4. <<>> \in Seq(Token) /\ <<>> \in Seq(Bld!Message)
    BY EmptySeq
  <2> QED
    BY <2>2, <2>3, <2>4 DEF Init, Bld!TypeOK
<1>3. bld_callback_ # Wrapper
  BY SseParserAssumption DEF Init
<1> QED
  BY <1>1, <1>2, <1>3 DEF Init, IInv, TypeOK, WrapperIsBacked

(* A line handed to the builder: what is delivered goes to a callback of   *)
(* the user, never through a null function pointer.                        *)
LEMMA DeliverType ==
  ASSUME IInv, NEW line \in Seq(Token), Bld!FeedLine(line), Deliver, UNCHANGED own_vars
  PROVE  /\ Bld!TypeOK'
         /\ UNCHANGED bld_callback_
         /\ delivered' \in Seq([to : Targets, msg : Message])
         /\ out'.err \in {"success", "invalid_retry"}
<1>1. Bld!TypeOK /\ delivered \in Seq([to : Targets, msg : Message])
  BY DEF IInv, TypeOK
<1>2. /\ Bld!TypeOK' /\ UNCHANGED bld_callback_
      /\ out'.called = None \/ out'.called.to = bld_callback_
  BY <1>1, BuilderSteps
<1>3. out' \in [err : {"success", "invalid_retry"},
                called : [to : StdCallbacks \cup {Wrapper}, msg : Bld!Message] \cup {None},
                got : Bld!Message \cup {None}]
  BY <1>2 DEF Bld!TypeOK
<1>4. CASE out'.called = None
  BY <1>1, <1>2, <1>3, <1>4 DEF Deliver
<1>5. CASE out'.called # None
  <2>1. /\ out'.called.to = bld_callback_
        /\ out'.called.to \in StdCallbacks \cup {Wrapper}
        /\ out'.called.msg \in Message
    BY <1>2, <1>3, <1>5 DEF Bld!Message, Message
  <2>2. Receiver(out'.called.to) \in Targets
    <3>1. CASE out'.called.to = Wrapper
      BY <2>1, <3>1 DEF IInv, WrapperIsBacked, Receiver, Targets
    <3>2. CASE out'.called.to # Wrapper
      BY <2>1, <3>2 DEF Receiver, Targets
    <3> QED
      BY <3>1, <3>2
  <2> DEFINE call == [to |-> Receiver(out'.called.to), msg |-> out'.called.msg]
  <2>3. call \in [to : Targets, msg : Message]
    BY <2>1, <2>2
  <2>4. delivered' = Append(delivered, call)
    BY <1>5 DEF Deliver
  <2> HIDE DEF call
  <2>5. delivered' \in Seq([to : Targets, msg : Message])
    BY <1>1, <2>3, <2>4, AppendProperties
  <2> QED
    BY <1>2, <1>3, <2>5
<1> QED
  BY <1>4, <1>5

(* What TypeOK says of the variables that neither part keeps.              *)
OwnTypeOK ==
  /\ callback_ \in StdCallbacks \cup {None}
  /\ last_event_id_ \in Seq(Token)
  /\ fn_callback_ \in FnCallbacks \cup {None}
  /\ user_data_ \in UserData \cup {None}

Pcs == {"idle", "parse", "flush", "leftover", "complete", "clear"}
CallResults ==
  [call : {"none", "parse", "flush", "reset", "set_callback"},
   err : {"success", "buffer_overflow", "invalid_retry"}]

(* A line fed, and either the call goes on or the error is returned.       *)
LEMMA FeedInv ==
  ASSUME IInv, NEW line \in Seq(Token), NEW next \in Pcs,
         NEW call \in {"parse", "flush"},
         Feed(line, call, next), UNCHANGED own_vars, Buf!TypeOK'
  PROVE  IInv'
<1>1. /\ Bld!TypeOK' /\ UNCHANGED bld_callback_
      /\ delivered' \in Seq([to : Targets, msg : Message])
      /\ out'.err \in {"success", "invalid_retry"}
  BY DeliverType DEF Feed
<1>2. OwnTypeOK /\ UNCHANGED <<callback_, last_event_id_, fn_callback_, user_data_>>
  BY DEF IInv, TypeOK, OwnTypeOK, own_vars
<1>3. pc' \in Pcs /\ result' \in CallResults
  BY <1>1 DEF Feed, Return, IInv, TypeOK, Pcs, CallResults
<1> QED
  BY <1>1, <1>2, <1>3 DEF IInv, TypeOK, WrapperIsBacked, OwnTypeOK, Pcs, CallResults

(* One turn of a loop, whatever its end leads to.                          *)
LEMMA LineLoopInv ==
  ASSUME IInv, pc \in {"parse", "flush"}, NEW call \in {"parse", "flush"},
         \/ LineLoop(call, Return("parse", "success"))
         \/ LineLoop(call, pc' = "leftover" /\ UNCHANGED result)
  PROVE  IInv'
<1>1. Buf!ReadLine /\ UNCHANGED own_vars
  BY DEF LineLoop
<1>2. Buf!TypeOK' /\ ret'.line \in Seq(Token) \cup {None}
  BY <1>1, BufferSteps DEF IInv, TypeOK
<1>3. CASE Feed(ret'.line, call, pc) /\ ret'.line # None
  BY <1>1, <1>2, <1>3, FeedInv DEF Pcs
<1>4. CASE /\ \/ Return("parse", "success")
              \/ pc' = "leftover" /\ UNCHANGED result
           /\ UNCHANGED <<bld_vars, delivered>>
  <2>1. Bld!TypeOK'
    BY <1>4 DEF IInv, TypeOK, bld_vars, Bld!TypeOK
  <2>2. pc' \in Pcs /\ result' \in CallResults
    BY <1>4 DEF Return, IInv, TypeOK, Pcs, CallResults
  <2> QED
    BY <1>1, <1>2, <1>4, <2>1, <2>2
       DEF IInv, TypeOK, WrapperIsBacked, own_vars, bld_vars, Pcs, CallResults
<1> QED
  BY <1>3, <1>4 DEF LineLoop

(* A chunk taken or refused, whatever parse may be given.                  *)
LEMMA ParseInv ==
  ASSUME IInv, NEW chunk \in Seq(Token), Parse(chunk)
  PROVE  IInv'
<1> USE DEF Pcs, CallResults
<1>1. TypeOK /\ WrapperIsBacked /\ Buf!TypeOK /\ Bld!TypeOK
  BY DEF IInv, TypeOK
<1>2. Bld!TypeOK' /\ UNCHANGED bld_callback_
  BY <1>1 DEF Parse, bld_vars, Bld!TypeOK
<1>3. Buf!TypeOK' /\ pc' \in Pcs /\ result' \in CallResults
  <2>1. CASE chunk = <<>> /\ Return("parse", "success") /\ UNCHANGED buf_vars
    BY <1>1, <2>1 DEF Return, buf_vars, Buf!TypeOK
  <2>2. CASE /\ Buf!AppendChunk(chunk)
             /\ IF ret'.err = "success"
                THEN pc' = "parse" /\ UNCHANGED result
                ELSE Return("parse", ret'.err)
    <3>1. Buf!TypeOK' /\ ret'.err \in {"success", "buffer_overflow"}
      BY <1>1, <2>2, BufferSteps
    <3> QED
      BY <1>1, <2>2, <3>1 DEF Return, TypeOK
  <2> QED
    BY <2>1, <2>2 DEF Parse
<1>4. UNCHANGED <<bld_vars, own_vars, delivered>>
  BY DEF Parse
<1> QED
  BY <1>1, <1>2, <1>3, <1>4 DEF IInv, TypeOK, WrapperIsBacked, own_vars

(* Every step of every call keeps the invariant.                           *)
LEMMA NextInv == IInv /\ [Next]_vars => IInv'
<1> SUFFICES ASSUME IInv, [Next]_vars PROVE IInv'
  OBVIOUS
<1> USE DEF Pcs, CallResults
<1>1. TypeOK /\ WrapperIsBacked /\ Buf!TypeOK /\ Bld!TypeOK
  BY DEF IInv, TypeOK
<1>2. ASSUME UNCHANGED buf_vars PROVE Buf!TypeOK'
  BY <1>1, <1>2 DEF buf_vars, Buf!TypeOK
<1>3. ASSUME UNCHANGED bld_vars PROVE Bld!TypeOK' /\ UNCHANGED bld_callback_
  BY <1>1, <1>3 DEF bld_vars, Bld!TypeOK
<1>4. ASSUME NEW chunk \in Chunks, Parse(chunk) PROVE IInv'
  BY <1>4, ParseInv, SseParserAssumption
<1>5. CASE ParseLine
  BY <1>5, LineLoopInv DEF ParseLine
<1>6. CASE Flush
  <2>1. pc' \in Pcs /\ result' \in CallResults
    BY <1>1, <1>6 DEF Flush, Return, TypeOK
  <2> QED
    BY <1>1, <1>2, <1>3, <1>6, <2>1 DEF Flush, IInv, TypeOK, WrapperIsBacked, own_vars
<1>7. CASE FlushLine
  BY <1>7, LineLoopInv DEF FlushLine
<1>8. CASE FlushLeftover
  <2>1. Buf!View \in Seq(Token)
    BY <1>1 DEF Buf!View, Buf!TypeOK
  <2> QED
    BY <1>2, <1>8, <2>1, FeedInv DEF FlushLeftover
<1>9. CASE FlushComplete
  BY <1>2, <1>9, EmptySeq, FeedInv DEF FlushComplete
<1>10. CASE FlushClear
  <2>1. Buf!TypeOK'
    BY <1>1, <1>10, BufferSteps DEF FlushClear
  <2> QED
    BY <1>1, <1>3, <1>10, <2>1
       DEF FlushClear, Return, IInv, TypeOK, WrapperIsBacked, own_vars
<1>11. CASE Reset
  <2>1. Buf!TypeOK' /\ Bld!TypeOK'
    BY <1>1, <1>11, BufferSteps, BuilderSteps DEF Reset, ClearState
  <2>2. UNCHANGED bld_callback_ /\ last_event_id_' \in Seq(Token)
    BY <1>11, EmptySeq DEF Reset, ClearState, Bld!Reset
  <2> QED
    BY <1>1, <1>11, <2>1, <2>2 DEF Reset, Return, IInv, TypeOK, WrapperIsBacked
<1>12. ASSUME NEW callback \in StdCallbacks \cup {None}, SetCallback(callback) PROVE IInv'
  <2>1. Bld!TypeOK'
    BY <1>1, <1>12, BuilderSteps DEF SetCallback
  <2>2. bld_callback_' # Wrapper
    BY <1>12, SseParserAssumption DEF SetCallback, Bld!SetCallback
  <2> QED
    BY <1>1, <1>2, <1>12, <2>1, <2>2
       DEF SetCallback, Return, IInv, TypeOK, WrapperIsBacked
<1>13. ASSUME NEW fn \in FnCallbacks \cup {None}, NEW user_data \in UserData,
              SetFnCallback(fn, user_data)
       PROVE  IInv'
  <2>1. Bld!TypeOK'
    BY <1>1, <1>13, BuilderSteps DEF SetFnCallback, WrapFn
  <2>2. bld_callback_' = IF fn # None THEN Wrapper ELSE None
    BY <1>13 DEF SetFnCallback, WrapFn, Bld!SetCallback
  <2>3. WrapperIsBacked'
    BY <1>13, <2>2, SseParserAssumption DEF SetFnCallback, WrapperIsBacked
  <2> QED
    BY <1>1, <1>2, <1>13, <2>1, <2>3 DEF SetFnCallback, Return, IInv, TypeOK
<1>14. CASE UNCHANGED vars
  BY <1>1, <1>2, <1>3, <1>14 DEF vars, own_vars, IInv, TypeOK, WrapperIsBacked
<1> QED
  BY <1>4, <1>5, <1>6, <1>7, <1>8, <1>9, <1>10, <1>11, <1>12, <1>13, <1>14
     DEF Next, Call, Continue

(* For every set of chunks and callbacks, every limit and every INT_MAX:   *)
(* buffer, builder and facade stay well formed through any sequence of     *)
(* calls, and every delivery reaches a callback of the user; the wrapper   *)
(* never calls a null function pointer (parse, flush, reset, set_callback). *)
THEOREM TypeCorrect == Spec => []TypeOK
<1>1. IInv => TypeOK
  BY DEF IInv
<1> QED
  BY <1>1, InitInv, NextInv, PTL DEF Spec

--------------------------------------------------------------------------------
(* Who gets the messages.  The inductive invariant says, besides, that the *)
(* receiver set last is the one the builder's callback ends up at.         *)

RegisteredIsSet == registered = Receiver(bld_callback_)
HInv == IInv /\ RegisteredIsSet /\ LastCallbackReceives

(* A line completes one message and calls the callback set, or neither.    *)
LEMMA FeedCompletes ==
  ASSUME Bld!TypeOK, NEW line, Bld!FeedLine(line)
  PROVE  \/ /\ completed_messages_' = Append(completed_messages_, current_msg_)
            /\ completed_messages_' # completed_messages_
            /\ completed_messages_'[Len(completed_messages_')] = current_msg_
            /\ bld_callback_ # None =>
                 out'.called = [to |-> bld_callback_, msg |-> current_msg_]
            /\ bld_callback_ = None => out'.called = None
         \/ completed_messages_' = completed_messages_ /\ out'.called = None
<1>1. CASE line = <<>> /\ Bld!CompleteMessage
  <2>1. completed_messages_ \in Seq(Bld!Message) /\ current_msg_ \in Bld!Message
    BY DEF Bld!TypeOK
  <2>2. completed_messages_' = Append(completed_messages_, current_msg_)
    BY <1>1 DEF Bld!CompleteMessage
  <2>3. /\ Len(completed_messages_') = Len(completed_messages_) + 1
        /\ completed_messages_'[Len(completed_messages_')] = current_msg_
    BY <2>1, <2>2, AppendProperties
  <2>4. Len(completed_messages_) \in Nat
    BY <2>1
  <2>5. out' = [err |-> "success", got |-> None,
                called |-> IF bld_callback_ # None
                           THEN [to |-> bld_callback_, msg |-> current_msg_] ELSE None]
    BY <1>1 DEF Bld!CompleteMessage, Bld!Notify, Bld!Nothing
  <2> QED
    BY <2>2, <2>3, <2>4, <2>5
<1>2. CASE Bld!ProcessField(line)
  BY <1>2 DEF Bld!ProcessField, Bld!Nothing
<1> QED
  BY <1>1, <1>2 DEF Bld!FeedLine

(* What is expected of a step that feeds no line.                          *)
LEMMA NothingExpected ==
  ASSUME HInv, HContinue, UNCHANGED <<bld_vars, own_vars, delivered>>
  PROVE  LastCallbackReceives' /\ RegisteredIsSet'
  BY DEF HInv, HContinue, bld_vars, own_vars, RegisteredIsSet, Receiver,
     LastCallbackReceives

(* The message of a step that feeds a line goes where it is expected.      *)
LEMMA FedAsExpected ==
  ASSUME HInv, HContinue, NEW line \in Seq(Token), Bld!FeedLine(line), Deliver,
         UNCHANGED own_vars
  PROVE  LastCallbackReceives' /\ RegisteredIsSet'
<1>1. Bld!TypeOK /\ RegisteredIsSet /\ delivered = expected /\ UNCHANGED registered
  BY DEF HInv, IInv, TypeOK, LastCallbackReceives, HContinue
<1>2. UNCHANGED <<bld_callback_, fn_callback_, user_data_>>
  BY <1>1, BuilderSteps DEF own_vars
<1>3. RegisteredIsSet'
  BY <1>1, <1>2 DEF RegisteredIsSet, Receiver
<1>4. registered = None <=> bld_callback_ = None
  <2>1. bld_callback_ \in StdCallbacks \cup {Wrapper} \cup {None}
    BY <1>1 DEF Bld!TypeOK
  <2>2. CASE bld_callback_ = Wrapper
    <3>1. <<fn_callback_, user_data_>> \in FnCallbacks \X UserData
      BY <2>2 DEF HInv, IInv, WrapperIsBacked
    <3>2. registered # None /\ bld_callback_ # None
      BY <1>1, <2>2, <3>1, SseParserAssumption DEF RegisteredIsSet, Receiver
    <3> QED
      BY <3>2
  <2>3. CASE bld_callback_ # Wrapper
    BY <1>1, <2>3 DEF RegisteredIsSet, Receiver
  <2> QED
    BY <2>2, <2>3
<1>5. CASE completed_messages_' = completed_messages_ /\ out'.called = None
  BY <1>1, <1>3, <1>5 DEF HContinue, Deliver, LastCallbackReceives
<1>6. CASE /\ completed_messages_' # completed_messages_
           /\ completed_messages_'[Len(completed_messages_')] = current_msg_
           /\ bld_callback_ # None =>
                out'.called = [to |-> bld_callback_, msg |-> current_msg_]
           /\ bld_callback_ = None => out'.called = None
  <2>1. CASE bld_callback_ = None
    BY <1>1, <1>3, <1>4, <1>6, <2>1 DEF HContinue, Deliver, LastCallbackReceives
  <2>2. CASE bld_callback_ # None
    <3>1. out'.called # None
      <4>1. /\ bld_callback_ \in StdCallbacks \cup {Wrapper}
            /\ current_msg_ \in Message
        BY <1>1, <2>2 DEF Bld!TypeOK, Bld!Message, Message
      <4> QED
        BY <1>6, <2>2, <4>1, SseParserAssumption
    <3>2. delivered' = Append(delivered, [to |-> Receiver(bld_callback_), msg |-> current_msg_])
      <4>1. delivered' = Append(delivered, [to |-> Receiver(out'.called.to),
                                            msg |-> out'.called.msg])
        BY <3>1 DEF Deliver
      <4>2. out'.called.to = bld_callback_ /\ out'.called.msg = current_msg_
        BY <1>6, <2>2
      <4> QED
        BY <4>1, <4>2
    <3>3. expected' = Append(expected, [to |-> registered, msg |-> current_msg_])
      BY <1>4, <1>6, <2>2 DEF HContinue
    <3> QED
      BY <1>1, <1>3, <3>2, <3>3 DEF LastCallbackReceives, RegisteredIsSet
  <2> QED
    BY <2>1, <2>2
<1> QED
  BY <1>1, <1>3, <1>5, <1>6, FeedCompletes

(* A history step is a step of the parser.                                 *)
LEMMA StepIsNext == HNext \/ UNCHANGED <<vars, history>> => [Next]_vars
  BY DEF HNext, HParse, HFlush, HContinue, HReset, HSetCallback, HSetFnCallback,
     Next, Call

(* Every step of the history keeps the invariant.                          *)
LEMMA HNextInv == HInv /\ [HNext]_<<vars, history>> => HInv'
<1> SUFFICES ASSUME HInv, [HNext]_<<vars, history>>
             PROVE  LastCallbackReceives' /\ RegisteredIsSet'
  <2>1. HInv /\ [HNext]_<<vars, history>> => IInv'
    BY StepIsNext, NextInv DEF HInv
  <2> QED
    BY <2>1 DEF HInv
<1>1. delivered = expected /\ registered = Receiver(bld_callback_) /\ TypeOK
  BY DEF HInv, IInv, LastCallbackReceives, RegisteredIsSet
<1> USE DEF LastCallbackReceives, RegisteredIsSet
<1>2. ASSUME UNCHANGED <<bld_callback_, fn_callback_, user_data_>>
      PROVE  Receiver(bld_callback_)' = Receiver(bld_callback_)
  BY <1>2 DEF Receiver
<1>3. ASSUME NEW chunk \in Chunks, HParse(chunk)
      PROVE  LastCallbackReceives' /\ RegisteredIsSet'
  BY <1>1, <1>2, <1>3 DEF HParse, Parse, bld_vars, own_vars
<1>4. CASE HFlush
  BY <1>1, <1>2, <1>4 DEF HFlush, Flush, bld_vars, own_vars
<1>5. CASE HContinue
  <2>1. ASSUME NEW call \in {"parse", "flush"},
               \/ LineLoop(call, Return("parse", "success"))
               \/ LineLoop(call, pc' = "leftover" /\ UNCHANGED result)
        PROVE  LastCallbackReceives' /\ RegisteredIsSet'
    <3>1. CASE UNCHANGED <<bld_vars, delivered>>
      BY <1>5, <2>1, <3>1, NothingExpected DEF LineLoop
    <3>2. CASE ret'.line # None /\ Feed(ret'.line, call, pc)
      <4>1. Buf!TypeOK /\ Buf!ReadLine /\ UNCHANGED own_vars
        BY <1>1, <2>1 DEF TypeOK, LineLoop
      <4>2. ret'.line \in Seq(Token)
        BY <3>2, <4>1, BufferSteps
      <4> QED
        BY <1>5, <3>2, <4>1, <4>2, FedAsExpected DEF Feed
    <3> QED
      BY <2>1, <3>1, <3>2 DEF LineLoop
  <2>2. CASE ParseLine
    BY <2>1, <2>2 DEF ParseLine
  <2>3. CASE FlushLine
    BY <2>1, <2>3 DEF FlushLine
  <2>4. CASE FlushLeftover
    <3>1. Buf!View \in Seq(Token)
      BY <1>1 DEF TypeOK, Buf!TypeOK, Buf!View
    <3> QED
      BY <1>5, <2>4, <3>1, FedAsExpected DEF FlushLeftover, Feed
  <2>5. CASE FlushComplete
    BY <1>5, <2>5, EmptySeq, FedAsExpected DEF FlushComplete, Feed
  <2>6. CASE FlushClear
    BY <1>5, <2>6, NothingExpected DEF FlushClear
  <2> QED
    BY <1>5, <2>2, <2>3, <2>4, <2>5, <2>6 DEF HContinue, Continue
<1>6. CASE HReset
  BY <1>1, <1>2, <1>6 DEF HReset, Reset, ClearState, Bld!Reset
<1>7. ASSUME NEW callback \in StdCallbacks \cup {None}, HSetCallback(callback)
      PROVE  LastCallbackReceives' /\ RegisteredIsSet'
  <2>1. bld_callback_' = callback /\ callback # Wrapper
    BY <1>7, SseParserAssumption DEF HSetCallback, SetCallback, Bld!SetCallback
  <2> QED
    BY <1>1, <1>7, <2>1 DEF HSetCallback, SetCallback, Receiver
<1>8. ASSUME NEW fn \in FnCallbacks \cup {None}, NEW user_data \in UserData,
             HSetFnCallback(fn, user_data)
      PROVE  LastCallbackReceives' /\ RegisteredIsSet'
  <2>1. /\ bld_callback_' = IF fn # None THEN Wrapper ELSE None
        /\ fn_callback_' = fn /\ user_data_' = user_data
        /\ registered' = IF fn = None THEN None ELSE <<fn, user_data>>
        /\ UNCHANGED <<delivered, expected>>
    BY <1>8 DEF HSetFnCallback, SetFnCallback, WrapFn, Bld!SetCallback
  <2>2. None # Wrapper
    BY SseParserAssumption
  <2> QED
    BY <1>1, <2>1, <2>2 DEF Receiver
<1>9. CASE UNCHANGED <<vars, history>>
  BY <1>1, <1>2, <1>9 DEF vars, history, bld_vars, own_vars
<1> QED
  BY <1>3, <1>4, <1>5, <1>6, <1>7, <1>8, <1>9 DEF HNext

(* For every set of chunks and callbacks, every limit and every INT_MAX:   *)
(* each message completed while a callback of either kind was set reaches  *)
(* the one set last, with its own user data, once and in order (both       *)
(* set_callback, complete_message).                                        *)
THEOREM LastReceives == HSpec => []LastCallbackReceives
<1>1. HInit => HInv
  <2> SUFFICES ASSUME HInit PROVE HInv
    OBVIOUS
  <2>1. IInv
    BY InitInv DEF HInit
  <2>2. callback_ # Wrapper /\ bld_callback_ = callback_ /\ registered = callback_
    BY SseParserAssumption DEF HInit, Init
  <2>3. delivered = <<>> /\ expected = <<>>
    BY DEF HInit, Init
  <2> QED
    BY <2>1, <2>2, <2>3 DEF HInv, RegisteredIsSet, Receiver, LastCallbackReceives
<1>2. HInv => LastCallbackReceives
  BY DEF HInv
<1> QED
  BY <1>1, <1>2, HNextInv, PTL DEF HSpec

--------------------------------------------------------------------------------
(* What the messages say.  What a block means, seen through either         *)
(* instance.                                                               *)

LEMMA SameValues ==
  /\ \A v : /\ ParseRetryValue(v) = BldP!ParseRetryValue(v)
            /\ FieldValue(v) = BldP!FieldValue(v)
            /\ HasColon(v) = BldP!HasColon(v)
  /\ \A v, name : IsField(v, name) = BldP!IsField(v, name)
  BY DEF
     IsField, BldP!IsField, FieldValue, BldP!FieldValue, FieldName, BldP!FieldName,
     HasColon, BldP!HasColon, StripSpace, BldP!StripSpace, FirstColon, BldP!FirstColon,
     IsComment, BldP!IsComment, ParseRetryValue, BldP!ParseRetryValue, Trim, BldP!Trim,
     IsSpace, BldP!IsSpace, DigitLoop, BldP!DigitLoop, AddDigit, BldP!AddDigit,
     IsDigit, BldP!IsDigit, Digits, BldP!Digits, DigitValue, BldP!DigitValue,
     WouldOverflow, BldP!WouldOverflow, Colon, BldP!Colon, Space, BldP!Space,
     CR, BldP!CR, LF, BldP!LF

LEMMA SameBlocks ==
  ASSUME NEW lines
  PROVE  DataLines(lines) = BldP!DataLines(lines) /\ Interpret(lines) = BldP!Interpret(lines)
<1>1. /\ EventLines(lines) = BldP!EventLines(lines)
      /\ DataLines(lines) = BldP!DataLines(lines)
      /\ IdLines(lines) = BldP!IdLines(lines)
      /\ RetryLines(lines) = BldP!RetryLines(lines)
  BY SameValues DEF
     EventLines, BldP!EventLines, DataLines, BldP!DataLines,
     IdLines, BldP!IdLines, RetryLines, BldP!RetryLines
<1>2. \A W, default : LastValue(lines, W, default) = BldP!LastValue(lines, W, default)
  BY SameValues DEF LastValue, BldP!LastValue, Max, BldP!Max
<1>3. \A W : JoinedValues(lines, W) = BldP!JoinedValues(lines, W)
  BY SameValues DEF
     JoinedValues, BldP!JoinedValues, JoinedPrefixes, BldP!JoinedPrefixes,
     AddValue, BldP!AddValue, Min, BldP!Min, LF, BldP!LF
<1> QED
  BY <1>1, <1>2, <1>3, SameValues DEF Interpret, BldP!Interpret

(* The builder has read some lines since the last fresh start: it has      *)
(* completed their messages and holds the block that is open.              *)
HoldsBlock(block) ==
  current_msg_ = Interpret(block) /\ (accumulating_data_ <=> DataLines(block) # {})
HasRead(lines) == Completed = MessagesIn(lines) /\ HoldsBlock(OpenLines(lines))

(* A line that is not empty joins the block, also when it is refused.      *)
LEMMA FieldIsRead ==
  ASSUME Bld!TypeOK, NEW lines \in Block, HoldsBlock(lines),
         NEW line \in Seq(Token), line # <<>>, Bld!FeedLine(line)
  PROVE  /\ current_msg_' = Interpret(Append(lines, line))
         /\ accumulating_data_' <=> DataLines(Append(lines, line)) # {}
         /\ UNCHANGED completed_messages_
         /\ out'.err # "success" => UNCHANGED <<current_msg_, accumulating_data_>>
<1>1. BldP!TypeOK /\ BldP!FeedLine(line)
  BY SameBuilder
<1>2. BldP!ProcessField(line)
  BY <1>1 DEF BldP!FeedLine
<1>3. /\ current_msg_ = BldP!Interpret(lines)
      /\ accumulating_data_ <=> BldP!DataLines(lines) # {}
      /\ lines \in BldP!Block
  BY SameBlocks DEF HoldsBlock, Block, BldP!Block
<1>4. /\ current_msg_' = BldP!Interpret(Append(lines, line))
      /\ accumulating_data_' <=> BldP!DataLines(Append(lines, line)) # {}
      /\ out'.err # "success" => UNCHANGED <<current_msg_, accumulating_data_>>
  BY <1>1, <1>2, <1>3, PartsAssumptions, BldP!ProcessFieldReads
<1>5. UNCHANGED completed_messages_
  BY <1>2 DEF BldP!ProcessField
<1> QED
  BY <1>4, <1>5, SameBlocks

(* An empty line completes the message.                                    *)
LEMMA EmptyLineIsRead ==
  ASSUME Bld!FeedLine(<<>>)
  PROVE  /\ completed_messages_' = Append(completed_messages_, current_msg_)
         /\ current_msg_' = DefaultMessage /\ accumulating_data_' = FALSE
         /\ out'.err = "success"
  BY DEF Bld!FeedLine, Bld!CompleteMessage, Bld!Notify, Bld!Nothing, Bld!DefaultMessage,
     DefaultMessage

(* What is left of a sequence without its first elements.                  *)
LEMMA RestOfSeq ==
  ASSUME NEW S, NEW s \in Seq(S), NEW k \in Nat, NEW n \in Nat, Len(s) = k + n
  PROVE  /\ [i \in 1 .. n |-> s[k + i]] \in Seq(S)
         /\ Len([i \in 1 .. n |-> s[k + i]]) = n
<1>1. \A i \in 1 .. n : s[k + i] \in S
  <2>1. \A i \in 1 .. n : k + i \in 1 .. Len(s)
    OBVIOUS
  <2> QED
    BY <2>1, ElementOfSeq
<1> QED
  BY <1>1

(* One more completed message.                                             *)
LEMMA CompletedLonger ==
  ASSUME Bld!TypeOK, base \in 0 .. Len(completed_messages_), UNCHANGED base,
         NEW msg \in Bld!Message, completed_messages_' = Append(completed_messages_, msg)
  PROVE  /\ Completed' = Append(Completed, msg)
         /\ Len(Completed) \in Nat /\ Len(Completed') = Len(Completed) + 1
         /\ completed_messages_'[Len(completed_messages_')] = msg
         /\ base' \in 0 .. Len(completed_messages_')
<1> DEFINE old == completed_messages_
           new == completed_messages_'
           n == Len(old) - base
<1>1. /\ old \in Seq(Bld!Message) /\ new = Append(old, msg) /\ base \in Nat
      /\ base <= Len(old) /\ n \in Nat /\ Len(old) \in Nat
  BY DEF Bld!TypeOK
<1>2. /\ Len(new) = Len(old) + 1 /\ new[Len(old) + 1] = msg
      /\ \A i \in 1 .. Len(old) : new[i] = old[i]
  BY <1>1, AppendProperties
<1> DEFINE x == [i \in 1 .. n |-> old[base + i]]
           y == [i \in 1 .. n + 1 |-> new[base + i]]
<1>3. Completed = x /\ Completed' = y
  <2>1. Len(new) - base = n + 1
    BY <1>1, <1>2
  <2>2. Completed' = [i \in 1 .. Len(new) - base |-> new[base + i]]
    BY DEF Completed
  <2> QED
    BY <2>1, <2>2 DEF Completed
<1> HIDE DEF old, new, n
<1>4. Len(old) = base + n
  BY <1>1 DEF n
<1>5. x \in Seq(Bld!Message) /\ Len(x) = n
  BY <1>1, <1>4, RestOfSeq
<1>6. y \in Seq(Bld!Message) /\ Len(y) = n + 1
  <2>1. new \in Seq(Bld!Message) /\ n + 1 \in Nat /\ Len(new) = base + (n + 1)
    BY <1>1, <1>2, <1>4
  <2> QED
    BY <1>1, <2>1, RestOfSeq
<1>7. /\ Append(x, msg) \in Seq(Bld!Message) /\ Len(Append(x, msg)) = n + 1
      /\ Append(x, msg)[n + 1] = msg /\ \A i \in 1 .. n : Append(x, msg)[i] = x[i]
  <2> HIDE DEF x
  <2> QED
    BY <1>5, AppendProperties
<1>8. \A i \in 1 .. n + 1 : y[i] = Append(x, msg)[i]
  <2> SUFFICES ASSUME NEW i \in 1 .. n + 1 PROVE y[i] = Append(x, msg)[i]
    OBVIOUS
  <2>1. y[i] = new[base + i]
    OBVIOUS
  <2>2. CASE i = n + 1
    <3>1. base + i = Len(old) + 1
      BY <1>1, <1>4, <2>2
    <3> QED
      BY <1>2, <1>7, <2>1, <2>2, <3>1
  <2>3. CASE i # n + 1
    <3>1. i \in 1 .. n /\ base + i \in 1 .. Len(old)
      BY <1>1, <1>4, <2>3
    <3>2. x[i] = old[base + i]
      BY <3>1
    <3> HIDE DEF x, y
    <3> QED
      BY <1>2, <1>7, <2>1, <3>1, <3>2
  <2> QED
    BY <2>2, <2>3
<1> HIDE DEF x, y
<1>9. y = Append(x, msg)
  BY <1>6, <1>7, <1>8, SeqEqual
<1>10. /\ completed_messages_'[Len(completed_messages_')] = msg
      /\ base' \in 0 .. Len(completed_messages_')
  <2>1. base \in 0 .. Len(new)
    BY <1>1, <1>2
  <2> QED
    BY <1>2, <2>1 DEF new
<1> QED
  BY <1>1, <1>3, <1>5, <1>6, <1>9, <1>10

(* Reading the next line.                                                  *)
LEMMA LineIsRead ==
  ASSUME Bld!TypeOK, base \in 0 .. Len(completed_messages_), UNCHANGED base,
         NEW lines \in Block, HasRead(lines), NEW line \in Seq(Token), Bld!FeedLine(line)
  PROVE  /\ Completed' = MessagesIn(Append(lines, line))
         /\ current_msg_' = Interpret(OpenLines(Append(lines, line)))
         /\ accumulating_data_' <=> DataLines(OpenLines(Append(lines, line))) # {}
         /\ base' \in 0 .. Len(completed_messages_')
<1> DEFINE block == OpenLines(lines)
<1>1. block \in Block
  <2>1. Len(lines) \in 0 .. Len(lines)
    BY DEF Block
  <2> QED
    BY <2>1, BlockAtEffect DEF OpenLines
<1>2. HoldsBlock(block) /\ Completed = MessagesIn(lines)
  BY DEF HasRead
<1>3. CASE line = <<>>
  <2>1. /\ completed_messages_' = Append(completed_messages_, current_msg_)
        /\ current_msg_' = DefaultMessage /\ accumulating_data_' = FALSE
    BY <1>3, EmptyLineIsRead
  <2>2. current_msg_ \in Bld!Message /\ current_msg_ = Interpret(block)
    BY <1>2 DEF Bld!TypeOK, HoldsBlock
  <2>3. /\ Completed' = Append(Completed, current_msg_)
        /\ base' \in 0 .. Len(completed_messages_')
    BY <2>1, <2>2, CompletedLonger
  <2>4. /\ MessagesIn(Append(lines, line)) = Append(MessagesIn(lines), Interpret(block))
        /\ OpenLines(Append(lines, line)) = <<>>
    BY <1>3, MessagesOfLonger
  <2> QED
    BY <1>2, <2>1, <2>2, <2>3, <2>4, NoLines
<1>4. CASE line # <<>>
  <2>1. /\ current_msg_' = Interpret(Append(block, line))
        /\ accumulating_data_' <=> DataLines(Append(block, line)) # {}
        /\ UNCHANGED completed_messages_
    BY <1>1, <1>2, <1>4, FieldIsRead
  <2>2. /\ MessagesIn(Append(lines, line)) = MessagesIn(lines)
        /\ OpenLines(Append(lines, line)) = Append(block, line)
    BY <1>4, MessagesOfLonger
  <2>3. Completed' = Completed
    BY <2>1 DEF Completed
  <2> QED
    BY <1>2, <2>1, <2>2, <2>3
<1> QED
  BY <1>3, <1>4

(* What the operations of the buffer do to the unread text.                *)
LEMMA BufferTexts ==
  ASSUME Buf!TypeOK
  PROVE  /\ Buf!Unread \in Seq(Token)
         /\ \A chunk \in Seq(Token) : Buf!AppendChunk(chunk) =>
              Buf!Unread' = IF ret'.err = "success" THEN Buf!Unread \o chunk ELSE Buf!Unread
         /\ Buf!Clear => Buf!Unread' = <<>>
<1>1. BufP!TypeOK /\ BufP!BufferAssumption
  BY SameBuffer, PartsAssumptions
<1>2. Buf!Unread = BufP!Unread /\ Buf!Unread' = BufP!Unread'
  BY DEF Buf!Unread, BufP!Unread
<1>3. Buf!Unread \in Seq(Token)
  BY <1>1, <1>2, BufP!UnreadBytes
<1>4. ASSUME NEW chunk \in Seq(Token), Buf!AppendChunk(chunk)
      PROVE  Buf!Unread' = IF ret'.err = "success" THEN Buf!Unread \o chunk ELSE Buf!Unread
  <2>1. BufP!AppendChunk(chunk)
    BY <1>4, SameBuffer
  <2>2. BufP!Unread' = IF ret'.err = "success" THEN BufP!Unread \o chunk ELSE BufP!Unread
    BY <1>1, <2>1, BufP!AppendText
  <2> QED
    BY <1>2, <2>2
<1>5. Buf!Clear => Buf!Unread' = <<>>
  <2>1. Buf!Clear => BufP!Clear
    BY SameBuffer
  <2>2. BufP!Clear => BufP!Unread' = <<>>
    BY <1>1, BufP!ClearText
  <2> QED
    BY <1>2, <2>1, <2>2
<1> QED
  BY <1>3, <1>4, <1>5

(* read_line moves the cut behind the next line, or all lines were read.   *)
LEMMA CutMoves ==
  ASSUME Buf!TypeOK, NEW text, Cut(text, Buf!Unread), Buf!ReadLine
  PROVE  \/ /\ ret'.line = None
            /\ HasNoEnd(Buf!Unread)
            /\ Buf!Unread' = Buf!Unread
            /\ LinesRead(text, Buf!Unread) = LinesOf(text)
         \/ /\ ret'.line \in Seq(Token)
            /\ ~ HasNoEnd(Buf!Unread)
            /\ Cut(text, Buf!Unread')
            /\ LinesRead(text, Buf!Unread')
                 = Append(LinesRead(text, Buf!Unread), ret'.line)
<1> DEFINE old == Buf!Unread
           new == Buf!Unread'
<1>1. BufP!TypeOK /\ BufP!ReadLine /\ BufP!BufferAssumption
  BY SameBuffer, PartsAssumptions
<1>2. old = BufP!Unread /\ new = BufP!Unread'
  BY DEF Buf!Unread, BufP!Unread
<1>3. BufP!EOL = EOL
  BY DEF BufP!EOL, EOL
<1>4. \/ /\ ret'.line = None
         /\ new = old
         /\ \A i \in 1 .. Len(old) : old[i] \notin EOL
      \/ \E n \in 1 .. Len(old) :
           /\ old[n] \in EOL
           /\ \A i \in 1 .. n - 1 : old[i] \notin EOL
           /\ ret'.line = SubSeq(old, 1, n - 1)
           /\ LET t == IF old[n] = CR /\ n < Len(old) /\ old[n + 1] = LF THEN 2 ELSE 1
              IN  new = SubSeq(old, n + t, Len(old))
  <2> HIDE DEF old, new
  <2> QED
    BY <1>1, <1>2, <1>3, BufP!ReadLineText
<1>5. Cut(text, old)
  OBVIOUS
<1> HIDE DEF old, new
<1>6. CASE ret'.line = None /\ new = old /\ \A i \in 1 .. Len(old) : old[i] \notin EOL
  <2>1. LinesRead(text, old) = LinesOf(text)
    BY <1>5, <1>6, CutAtEnd
  <2> QED
    BY <1>6, <2>1 DEF HasNoEnd, old, new
<1>7. ASSUME NEW n \in 1 .. Len(old),
             old[n] \in EOL,
             \A i \in 1 .. n - 1 : old[i] \notin EOL,
             ret'.line = SubSeq(old, 1, n - 1),
             NEW t, t = IF old[n] = CR /\ n < Len(old) /\ old[n + 1] = LF THEN 2 ELSE 1,
             new = SubSeq(old, n + t, Len(old))
      PROVE  /\ ret'.line \in Seq(Token)
             /\ ~ HasNoEnd(old)
             /\ Cut(text, new)
             /\ LinesRead(text, new) = Append(LinesRead(text, old), ret'.line)
  <2>1. Cut(text, new) /\ LinesRead(text, new) = Append(LinesRead(text, old), ret'.line)
    BY <1>5, <1>7, CutOfNext
  <2>2. SubSeq(old, 1, n - 1) \in Seq(Token)
    <3>1. /\ old \in Seq(Token) /\ 1 \in 1 .. Len(old) + 1 /\ n - 1 \in 0 .. Len(old)
          /\ 1 <= (n - 1) + 1
      BY <1>5 DEF Cut
    <3> QED
      BY <3>1, Piece
  <2> QED
    BY <1>7, <2>1, <2>2 DEF HasNoEnd
<1> QED
  BY <1>4, <1>6, <1>7 DEF old, new

(* The accepted text is cut where the unread bytes start, and the lines    *)
(* before the cut are what the builder has read.                           *)
ReadsOn ==
  /\ Cut(accepted, Buf!Unread)
  /\ HasRead(LinesRead(accepted, Buf!Unread))

EndsLikeAChunk ==
  accepted # <<>> =>
    \E chunk \in Chunks : chunk # <<>> /\ chunk[Len(chunk)] = accepted[Len(accepted)]

(* While flush delivers a last line without terminator, all of the buffer  *)
(* is unread and joins the open block.                                     *)
TailInv ==
  tail # None =>
    /\ pc \in {"flush", "leftover"} =>
         /\ Buf!Unread = buffer_ /\ HasNoEnd(buffer_)
         /\ tail = Interpret(Append(OpenBlock(accepted), buffer_))
    /\ pc = "complete" => current_msg_ = tail /\ Completed = MessagesOf(accepted)
    /\ pc = "clear" => FlushDeliversTail

(* From the leftover on, flush feeds consumed bytes again, and the fresh   *)
(* start that follows forgets them.                                        *)
TextInv ==
  /\ base \in 0 .. Len(completed_messages_)
  /\ EndsLikeAChunk
  /\ pc \notin {"complete", "clear"} => ReadsOn
  /\ pc \in {"flush", "leftover"} => buffer_ # <<>>
  /\ pc = "clear" => current_msg_ = DefaultMessage /\ accumulating_data_ = FALSE
  /\ TailInv

(* No chunk ends in a CR when another starts with an LF, so that no cut    *)
(* falls inside a CRLF; SplitCRLF.cfg shows what happens when one does.    *)
NoCRLFCut ==
  \A first, second \in Chunks :
    ~ (first # <<>> /\ second # <<>> /\ first[Len(first)] = CR /\ second[1] = LF)

(* One turn of a loop.                                                     *)
LEMMA LoopReads ==
  ASSUME TypeOK, base \in 0 .. Len(completed_messages_), ReadsOn,
         Buf!ReadLine, UNCHANGED <<accepted, base>>,
         \/ ret'.line = None /\ UNCHANGED bld_vars
         \/ ret'.line # None /\ Bld!FeedLine(ret'.line)
  PROVE  /\ ReadsOn'
         /\ base' \in 0 .. Len(completed_messages_')
         /\ ret'.line = None => Completed = MessagesOf(accepted)
         /\ ret'.line = None <=> HasNoEnd(Buf!Unread)
         /\ ret'.line = None => Buf!Unread' = Buf!Unread
<1> DEFINE old == Buf!Unread
           new == Buf!Unread'
           lines == LinesRead(accepted, old)
<1>1. Buf!TypeOK /\ Bld!TypeOK /\ Cut(accepted, old) /\ HasRead(lines)
  BY DEF TypeOK, ReadsOn
<1>2. ReadsOn' <=> /\ Cut(accepted, new)
                   /\ Completed' = MessagesIn(LinesRead(accepted, new))
                   /\ current_msg_' = Interpret(OpenLines(LinesRead(accepted, new)))
                   /\ accumulating_data_'
                        <=> DataLines(OpenLines(LinesRead(accepted, new))) # {}
  BY DEF ReadsOn, HasRead, HoldsBlock
<1>3. \/ /\ ret'.line = None /\ HasNoEnd(old) /\ new = old
         /\ lines = LinesOf(accepted)
      \/ /\ ret'.line \in Seq(Token) /\ ~ HasNoEnd(old)
         /\ Cut(accepted, new)
         /\ LinesRead(accepted, new) = Append(lines, ret'.line)
  BY <1>1, CutMoves
<1>4. None \notin Seq(Token)
  BY FieldParserAssumption
<1>5. CASE /\ ret'.line = None /\ HasNoEnd(old) /\ new = old /\ UNCHANGED bld_vars
           /\ lines = LinesOf(accepted)
  <2>1. UNCHANGED <<current_msg_, accumulating_data_, completed_messages_>>
    BY <1>5 DEF bld_vars
  <2>2. Completed' = Completed
    BY <2>1 DEF Completed
  <2>3. Completed = MessagesIn(lines) /\ HoldsBlock(OpenLines(lines))
    BY <1>1 DEF HasRead
  <2>4. ReadsOn'
    BY <1>1, <1>2, <1>5, <2>1, <2>2, <2>3 DEF HoldsBlock
  <2> QED
    BY <1>5, <2>1, <2>3, <2>4 DEF MessagesOf
<1>6. CASE /\ ret'.line \in Seq(Token) /\ ~ HasNoEnd(old) /\ Bld!FeedLine(ret'.line)
           /\ Cut(accepted, new)
           /\ LinesRead(accepted, new) = Append(lines, ret'.line)
  <2>1. lines \in Block
    BY <1>1, CutPlace
  <2> HIDE DEF lines, old, new
  <2>2. /\ Completed' = MessagesIn(Append(lines, ret'.line))
        /\ current_msg_' = Interpret(OpenLines(Append(lines, ret'.line)))
        /\ accumulating_data_' <=> DataLines(OpenLines(Append(lines, ret'.line))) # {}
        /\ base' \in 0 .. Len(completed_messages_')
    BY <1>1, <1>6, <2>1, LineIsRead
  <2> QED
    BY <1>2, <1>4, <1>6, <2>2 DEF old, new
<1> QED
  BY <1>3, <1>4, <1>5, <1>6

(* Nothing is accepted, read or under construction after a fresh start.    *)
LEMMA StartsAfresh ==
  ASSUME accepted' = <<>>, base' = Len(completed_messages_'), Buf!Unread' = <<>>,
         completed_messages_' \in Seq(Bld!Message),
         current_msg_' = DefaultMessage, accumulating_data_' = FALSE
  PROVE  ReadsOn' /\ EndsLikeAChunk' /\ base' \in 0 .. Len(completed_messages_')
<1>1. LinesRead(accepted', Buf!Unread') = <<>> /\ Cut(accepted', Buf!Unread')
  BY CutOfNothing
<1>2. Len(completed_messages_') \in Nat /\ Len(completed_messages_') - base' = 0
  OBVIOUS
<1>3. Completed' = <<>>
  <2>1. Completed' = [i \in 1 .. 0 |-> completed_messages_'[base' + i]]
    BY <1>2 DEF Completed
  <2> QED
    BY <2>1
<1>4. HasRead(<<>>)'
  <2>1. Completed' = MessagesIn(<<>>) /\ OpenLines(<<>>) = <<>>
    BY <1>3, NoMessages
  <2>2. current_msg_' = Interpret(<<>>) /\ DataLines(<<>>) = {}
    BY NoLines
  <2> QED
    BY <2>1, <2>2 DEF HasRead, HoldsBlock
<1>5. ReadsOn'
  BY <1>1, <1>4 DEF ReadsOn
<1> QED
  BY <1>2, <1>5 DEF EndsLikeAChunk

(* A chunk that is accepted is unread text; one that is refused leaves     *)
(* none.                                                                   *)
LEMMA ParseReads ==
  ASSUME NoCRLFCut, TypeOK, TextInv, NEW chunk \in Chunks, HParse(chunk)
  PROVE  TextInv'
<1>1. /\ Buf!TypeOK /\ pc = "idle" /\ ReadsOn /\ EndsLikeAChunk
      /\ chunk \in Seq(Token) /\ Chunks \subseteq Seq(Token)
      /\ base \in 0 .. Len(completed_messages_)
  BY SseParserAssumption DEF TypeOK, TextInv, HParse, Parse
<1>2. /\ UNCHANGED <<base, tail>> /\ UNCHANGED bld_vars
      /\ accepted' = IF pc' = "parse" THEN accepted \o chunk ELSE accepted
  BY DEF HParse, Parse
<1>3. UNCHANGED <<current_msg_, accumulating_data_, completed_messages_>>
  BY <1>2 DEF bld_vars
<1>4. Completed' = Completed
  BY <1>2, <1>3 DEF Completed
<1> DEFINE old == Buf!Unread
           new == Buf!Unread'
<1>5. \/ pc' = "idle" /\ new = old /\ accepted' = accepted
      \/ pc' = "parse" /\ chunk # <<>> /\ new = old \o chunk /\ accepted' = accepted \o chunk
  <2>1. CASE chunk = <<>> /\ Return("parse", "success") /\ UNCHANGED buf_vars
    <3>1. new = old
      BY <2>1 DEF buf_vars, Buf!Unread
    <3> QED
      BY <1>2, <2>1, <3>1 DEF Return
  <2>2. CASE /\ chunk # <<>> /\ Buf!AppendChunk(chunk)
             /\ IF ret'.err = "success" THEN pc' = "parse" /\ UNCHANGED result
                ELSE Return("parse", ret'.err)
    <3>1. new = IF ret'.err = "success" THEN old \o chunk ELSE old
      BY <1>1, <2>2, BufferTexts
    <3> QED
      BY <1>2, <2>2, <3>1 DEF Return
  <2> QED
    BY <2>1, <2>2 DEF HParse, Parse
<1>6. /\ Cut(accepted', new)
      /\ LinesRead(accepted', new) = LinesRead(accepted, old)
      /\ EndsLikeAChunk'
  <2>1. Cut(accepted, old)
    BY <1>1 DEF ReadsOn
  <2> HIDE DEF old, new
  <2>2. CASE new = old /\ accepted' = accepted
    BY <1>1, <2>1, <2>2 DEF EndsLikeAChunk
  <2>3. CASE chunk # <<>> /\ new = old \o chunk /\ accepted' = accepted \o chunk
    <3>1. ~ (accepted # <<>> /\ chunk # <<>> /\ accepted[Len(accepted)] = CR /\ chunk[1] = LF)
      BY <1>1 DEF EndsLikeAChunk, NoCRLFCut
    <3>2. /\ Cut(accepted \o chunk, old \o chunk)
          /\ LinesRead(accepted \o chunk, old \o chunk) = LinesRead(accepted, old)
      BY <1>1, <2>1, <3>1, CutOfLonger
    <3>3. accepted'[Len(accepted')] = chunk[Len(chunk)]
      BY <1>1, <2>1, <2>3, EndOfConcat DEF Cut
    <3> QED
      BY <2>3, <3>2, <3>3 DEF EndsLikeAChunk
  <2> QED
    BY <1>5, <2>2, <2>3
<1>7. ReadsOn'
  <2>1. HasRead(LinesRead(accepted, old))
    BY <1>1 DEF ReadsOn
  <2>2. HasRead(LinesRead(accepted, old))' <=>
          /\ Completed' = MessagesIn(LinesRead(accepted', new))
          /\ current_msg_' = Interpret(OpenLines(LinesRead(accepted', new)))
          /\ accumulating_data_' <=> DataLines(OpenLines(LinesRead(accepted', new))) # {}
    BY DEF HasRead, HoldsBlock
  <2> QED
    BY <1>3, <1>4, <1>6, <2>1, <2>2 DEF ReadsOn, HasRead, HoldsBlock
<1>8. base' \in 0 .. Len(completed_messages_') /\ pc' \in {"idle", "parse"}
  BY <1>1, <1>2, <1>3, <1>5
<1> QED
  BY <1>6, <1>7, <1>8 DEF TextInv, TailInv

(* A step that changes neither buffer nor builder nor the text.            *)
LEMMA ReadsStill ==
  ASSUME UNCHANGED <<current_msg_, accumulating_data_, completed_messages_>>,
         UNCHANGED <<buffer_, read_pos_>>, UNCHANGED <<accepted, base>>
  PROVE  /\ ReadsOn' <=> ReadsOn
         /\ EndsLikeAChunk' <=> EndsLikeAChunk
         /\ Completed' = Completed /\ Buf!Unread' = Buf!Unread
         /\ base \in 0 .. Len(completed_messages_)
              => base' \in 0 .. Len(completed_messages_')
<1>1. Completed' = Completed /\ Buf!Unread' = Buf!Unread
  BY DEF Completed, Buf!Unread
<1> QED
  BY <1>1 DEF ReadsOn, HasRead, HoldsBlock, EndsLikeAChunk

LEMMA FlushReads ==
  ASSUME TypeOK, TextInv, HFlush
  PROVE  TextInv'
<1>1. /\ pc = "idle" /\ ReadsOn /\ EndsLikeAChunk /\ Buf!TypeOK
      /\ base \in 0 .. Len(completed_messages_)
  BY DEF TextInv, TypeOK, HFlush, Flush
<1>2. /\ UNCHANGED <<current_msg_, accumulating_data_, completed_messages_>>
      /\ UNCHANGED <<buffer_, read_pos_>> /\ UNCHANGED <<accepted, base>>
      /\ tail' = IF pc' = "flush" /\ Buf!Unread = buffer_ /\ Buf!LineEnds(0) = {}
                 THEN Interpret(Append(OpenBlock(accepted), buffer_)) ELSE None
      /\ \/ pc' = "idle"
         \/ pc' = "flush" /\ buffer_ # <<>>
  BY DEF HFlush, Flush, Return, buf_vars, bld_vars, Buf!Empty
<1>3. /\ ReadsOn' /\ EndsLikeAChunk' /\ Buf!Unread' = Buf!Unread
      /\ base' \in 0 .. Len(completed_messages_')
  BY <1>1, <1>2, ReadsStill
<1>4. Buf!LineEnds(0) = {} => HasNoEnd(buffer_)
  <2>1. buffer_ \in Seq(Token)
    BY <1>1 DEF Buf!TypeOK
  <2>2. ASSUME NEW i \in 1 .. Len(buffer_), buffer_[i] \in EOL
        PROVE  i - 1 \in Buf!LineEnds(0)
    <3>1. i - 1 \in 0 .. Len(buffer_) - 1 /\ (i - 1) + 1 = i
      BY <2>1
    <3> QED
      BY <2>2, <3>1 DEF Buf!LineEnds, Buf!EOL, EOL
  <2> QED
    BY <2>2 DEF HasNoEnd
<1>5. TailInv'
  <2>1. CASE tail' = None
    BY <2>1 DEF TailInv
  <2>2. CASE tail' # None
    <3>1. /\ pc' = "flush" /\ Buf!Unread = buffer_ /\ Buf!LineEnds(0) = {}
          /\ tail' = Interpret(Append(OpenBlock(accepted), buffer_))
      BY <1>2, <2>2
    <3>2. /\ Buf!Unread' = buffer_' /\ HasNoEnd(buffer_')
          /\ tail' = Interpret(Append(OpenBlock(accepted'), buffer_'))
      BY <1>2, <1>3, <1>4, <3>1
    <3> QED
      BY <3>1, <3>2 DEF TailInv
  <2> QED
    BY <2>1, <2>2
<1> QED
  BY <1>2, <1>3, <1>5 DEF TextInv

(* One turn of the loop of parse or of flush.                              *)
LEMMA TurnReads ==
  ASSUME TypeOK, TextInv, HContinue, ParseLine \/ FlushLine
  PROVE  TextInv'
<1>1. /\ pc \in {"parse", "flush"} /\ ReadsOn /\ EndsLikeAChunk /\ TailInv
      /\ base \in 0 .. Len(completed_messages_)
      /\ pc = "flush" => buffer_ # <<>>
  BY DEF TextInv, ParseLine, FlushLine
<1>2. UNCHANGED <<accepted, base, tail>>
  BY <1>1 DEF HContinue
<1>3. /\ Buf!ReadLine
      /\ \/ ret'.line = None /\ UNCHANGED bld_vars
         \/ ret'.line # None /\ Bld!FeedLine(ret'.line)
  BY DEF ParseLine, FlushLine, LineLoop, Feed
<1>4. /\ ReadsOn' /\ base' \in 0 .. Len(completed_messages_')
      /\ ret'.line = None <=> HasNoEnd(Buf!Unread)
      /\ ret'.line = None => Buf!Unread' = Buf!Unread
  BY <1>1, <1>2, <1>3, LoopReads
<1>5. UNCHANGED buffer_
  BY <1>3 DEF Buf!ReadLine
<1>6. \/ pc' = "idle"
      \/ pc' = pc
      \/ pc = "flush" /\ pc' = "leftover"
  BY DEF ParseLine, FlushLine, LineLoop, Feed, Return
<1>7. EndsLikeAChunk'
  BY <1>1, <1>2 DEF EndsLikeAChunk
<1>8. TailInv'
  <2>1. CASE tail # None /\ pc = "flush"
    <3>1. /\ Buf!Unread = buffer_ /\ HasNoEnd(buffer_)
          /\ tail = Interpret(Append(OpenBlock(accepted), buffer_))
      BY <1>1, <2>1 DEF TailInv
    <3>2. /\ Buf!Unread' = buffer_' /\ HasNoEnd(buffer_')
          /\ tail' = Interpret(Append(OpenBlock(accepted'), buffer_'))
      BY <1>2, <1>4, <1>5, <3>1
    <3> QED
      BY <1>6, <2>1, <3>2 DEF TailInv
  <2>2. CASE tail = None
    BY <1>2, <2>2 DEF TailInv
  <2>3. CASE pc = "parse"
    BY <1>6, <2>3 DEF TailInv
  <2> QED
    BY <1>1, <2>1, <2>2, <2>3
<1> QED
  BY <1>1, <1>4, <1>5, <1>6, <1>7, <1>8 DEF TextInv

(* The leftover joins the open block, or is refused.                       *)
LEMMA LeftoverReads ==
  ASSUME TypeOK, TextInv, HContinue, FlushLeftover
  PROVE  TextInv'
<1>1. /\ pc = "leftover" /\ ReadsOn /\ EndsLikeAChunk /\ TailInv
      /\ base \in 0 .. Len(completed_messages_) /\ buffer_ # <<>>
      /\ Bld!TypeOK /\ Buf!TypeOK /\ buffer_ \in Seq(Token)
  BY DEF TextInv, FlushLeftover, TypeOK, Buf!TypeOK
<1>2. UNCHANGED <<accepted, base, tail>> /\ UNCHANGED <<buffer_, read_pos_>>
  BY <1>1 DEF HContinue, FlushLeftover, buf_vars
<1>3. /\ Bld!FeedLine(buffer_)
      /\ \/ out'.err = "success" /\ pc' = "complete"
         \/ out'.err # "success" /\ pc' = "idle"
  BY DEF FlushLeftover, Feed, Return, Buf!View
<1> DEFINE lines == LinesRead(accepted, Buf!Unread)
           open == OpenLines(lines)
<1>4. /\ lines \in Block /\ open \in Block /\ HoldsBlock(open)
      /\ Completed = MessagesIn(lines)
  <2>1. Cut(accepted, Buf!Unread) /\ HasRead(lines)
    BY <1>1 DEF ReadsOn
  <2>2. lines \in Block
    BY <2>1, CutPlace
  <2> HIDE DEF lines
  <2>3. Len(lines) \in 0 .. Len(lines)
    BY <2>2 DEF Block
  <2>4. open \in Block
    BY <2>2, <2>3, BlockAtEffect DEF OpenLines
  <2> QED
    BY <2>1, <2>2, <2>4 DEF HasRead
<1> HIDE DEF open
<1>5. /\ current_msg_' = Interpret(Append(open, buffer_))
      /\ UNCHANGED completed_messages_
      /\ out'.err # "success" => UNCHANGED <<current_msg_, accumulating_data_>>
  BY <1>1, <1>3, <1>4, FieldIsRead
<1>6. Completed' = Completed /\ base' \in 0 .. Len(completed_messages_')
  BY <1>1, <1>2, <1>5 DEF Completed
<1>7. EndsLikeAChunk'
  BY <1>1, <1>2 DEF EndsLikeAChunk
<1>8. CASE out'.err # "success" /\ pc' = "idle"
  <2>1. ReadsOn'
    BY <1>1, <1>2, <1>5, <1>8, ReadsStill
  <2> QED
    BY <1>6, <1>7, <1>8, <2>1 DEF TextInv, TailInv
<1>9. CASE out'.err = "success" /\ pc' = "complete"
  <2>1. TailInv'
    <3>1. CASE tail = None
      BY <1>2, <3>1 DEF TailInv
    <3>2. CASE tail # None
      <4>1. /\ Buf!Unread = buffer_ /\ HasNoEnd(Buf!Unread)
            /\ tail = Interpret(Append(OpenBlock(accepted), buffer_))
        BY <1>1, <3>2 DEF TailInv
      <4>2. lines = LinesOf(accepted)
        BY <1>1, <4>1, CutAtEnd DEF ReadsOn, HasNoEnd
      <4>3. open = OpenBlock(accepted) /\ Completed = MessagesOf(accepted)
        BY <1>4, <4>2 DEF open, OpenLines, OpenBlock, MessagesOf
      <4>4. current_msg_' = tail' /\ Completed' = MessagesOf(accepted')
        BY <1>2, <1>5, <1>6, <4>1, <4>3
      <4> QED
        BY <1>9, <4>4 DEF TailInv
    <3> QED
      BY <3>1, <3>2
  <2> QED
    BY <1>6, <1>7, <1>9, <2>1 DEF TextInv
<1> QED
  BY <1>3, <1>8, <1>9

(* The empty line that flush feeds completes the message.                  *)
LEMMA CompleteReads ==
  ASSUME TypeOK, TextInv, HContinue, FlushComplete
  PROVE  TextInv'
<1>1. /\ pc = "complete" /\ EndsLikeAChunk /\ TailInv
      /\ base \in 0 .. Len(completed_messages_)
      /\ Bld!TypeOK /\ current_msg_ \in Bld!Message
  BY DEF TextInv, FlushComplete, TypeOK, Bld!TypeOK
<1>2. UNCHANGED <<accepted, base, tail>>
  BY <1>1 DEF HContinue
<1>3. /\ Bld!FeedLine(<<>>)
      /\ \/ out'.err = "success" /\ pc' = "clear"
         \/ out'.err # "success" /\ pc' = "idle"
  BY DEF FlushComplete, Feed, Return
<1>4. /\ completed_messages_' = Append(completed_messages_, current_msg_)
      /\ current_msg_' = DefaultMessage /\ accumulating_data_' = FALSE
      /\ pc' = "clear"
  BY <1>3, EmptyLineIsRead
<1>5. /\ Len(Completed) \in Nat /\ Len(Completed') = Len(Completed) + 1
      /\ completed_messages_'[Len(completed_messages_')] = current_msg_
      /\ base' \in 0 .. Len(completed_messages_')
  BY <1>1, <1>2, <1>4, CompletedLonger
<1>6. EndsLikeAChunk'
  BY <1>1, <1>2 DEF EndsLikeAChunk
<1>7. TailInv'
  <2>1. CASE tail = None
    BY <1>2, <2>1 DEF TailInv
  <2>2. CASE tail # None
    <3>1. current_msg_ = tail /\ Completed = MessagesOf(accepted)
      BY <1>1, <2>2 DEF TailInv
    <3>2. FlushDeliversTail'
      BY <1>2, <1>5, <3>1 DEF FlushDeliversTail
    <3> QED
      BY <1>4, <3>2 DEF TailInv
  <2> QED
    BY <2>1, <2>2
<1> QED
  BY <1>4, <1>5, <1>6, <1>7 DEF TextInv

(* Every step keeps what is known of the text.                             *)
LEMMA TextNext ==
  ASSUME NoCRLFCut
  PROVE  TypeOK /\ TypeOK' /\ TextInv /\ [HNext]_<<vars, history>> => TextInv'
<1> SUFFICES ASSUME TypeOK, TypeOK', TextInv, [HNext]_<<vars, history>> PROVE TextInv'
  OBVIOUS
<1>1. /\ Buf!TypeOK /\ completed_messages_' \in Seq(Bld!Message)
  BY DEF TypeOK, Bld!TypeOK
<1>2. ASSUME NEW chunk \in Chunks, HParse(chunk) PROVE TextInv'
  BY <1>2, ParseReads
<1>3. CASE HFlush
  BY <1>3, FlushReads
<1>4. CASE HContinue
  <2>1. CASE FlushClear
    <3>1. /\ pc = "clear" /\ current_msg_ = DefaultMessage /\ accumulating_data_ = FALSE
      BY <2>1 DEF TextInv, FlushClear
    <3>2. /\ accepted' = <<>> /\ base' = Len(completed_messages_')
          /\ current_msg_' = DefaultMessage /\ accumulating_data_' = FALSE
          /\ pc' = "idle"
      BY <1>4, <2>1, <3>1 DEF HContinue, FreshStart, FlushClear, Return, bld_vars
    <3>3. Buf!Unread' = <<>>
      BY <1>1, <2>1, BufferTexts DEF FlushClear
    <3> QED
      BY <1>1, <3>2, <3>3, StartsAfresh DEF TextInv, TailInv
  <2> QED
    BY <1>4, <2>1, TurnReads, LeftoverReads, CompleteReads DEF HContinue, Continue
<1>5. CASE HReset
  <2>1. /\ accepted' = <<>> /\ base' = Len(completed_messages_')
        /\ current_msg_' = DefaultMessage /\ accumulating_data_' = FALSE
        /\ pc' = "idle"
    BY <1>5 DEF HReset, FreshStart, Reset, ClearState, Return, Bld!Reset,
       Bld!DefaultMessage, DefaultMessage
  <2>2. Buf!Unread' = <<>>
    BY <1>1, <1>5, BufferTexts DEF HReset, Reset, ClearState
  <2> QED
    BY <1>1, <2>1, <2>2, StartsAfresh DEF TextInv, TailInv
<1>6. ASSUME UNCHANGED <<current_msg_, accumulating_data_, completed_messages_>>,
             UNCHANGED <<buffer_, read_pos_>>, UNCHANGED <<accepted, base>>,
             pc = "idle", pc' = "idle"
      PROVE  TextInv'
  BY <1>6, ReadsStill DEF TextInv, TailInv
<1>7. CASE \E callback \in StdCallbacks \cup {None} : HSetCallback(callback)
  BY <1>6, <1>7 DEF HSetCallback, SetCallback, Bld!SetCallback, Return, buf_vars
<1>8. CASE \E fn \in FnCallbacks \cup {None}, user_data \in UserData :
             HSetFnCallback(fn, user_data)
  BY <1>6, <1>8 DEF HSetFnCallback, SetFnCallback, WrapFn, Bld!SetCallback, Return, buf_vars
<1>9. CASE UNCHANGED <<vars, history>>
  <2>1. /\ UNCHANGED <<current_msg_, accumulating_data_, completed_messages_>>
        /\ UNCHANGED <<buffer_, read_pos_>> /\ UNCHANGED <<accepted, base, pc, tail>>
    BY <1>9 DEF vars, history, buf_vars, bld_vars
  <2>2. /\ ReadsOn' <=> ReadsOn
        /\ EndsLikeAChunk' <=> EndsLikeAChunk
        /\ Completed' = Completed /\ Buf!Unread' = Buf!Unread
        /\ base \in 0 .. Len(completed_messages_)
             => base' \in 0 .. Len(completed_messages_')
    BY <2>1, ReadsStill
  <2>3. TailInv'
    BY <2>1, <2>2 DEF TextInv, TailInv, FlushDeliversTail
  <2> QED
    BY <2>1, <2>2, <2>3 DEF TextInv
<1> QED
  BY <1>2, <1>3, <1>4, <1>5, <1>7, <1>8, <1>9 DEF HNext

LEMMA TextInit == HInit => TextInv
<1> SUFFICES ASSUME HInit PROVE TextInv
  OBVIOUS
<1>1. /\ accepted = <<>> /\ base = 0 /\ tail = None /\ pc = "idle"
      /\ completed_messages_ = <<>> /\ current_msg_ = DefaultMessage
      /\ accumulating_data_ = FALSE
  BY DEF HInit, Init
<1>2. Buf!Unread = <<>>
  <2>1. buffer_ = <<>> /\ read_pos_ = 0
    BY DEF HInit, Init, Buf!Init
  <2> QED
    BY <2>1 DEF Buf!Unread
<1>3. LinesRead(accepted, Buf!Unread) = <<>> /\ Cut(accepted, Buf!Unread)
  BY <1>1, <1>2, CutOfNothing
<1>4. Completed = <<>>
  <2>1. Completed = [i \in 1 .. 0 |-> completed_messages_[base + i]]
    BY <1>1 DEF Completed
  <2> QED
    BY <2>1
<1>5. HasRead(<<>>)
  <2>1. Completed = MessagesIn(<<>>) /\ OpenLines(<<>>) = <<>>
    BY <1>4, NoMessages
  <2>2. current_msg_ = Interpret(<<>>) /\ DataLines(<<>>) = {}
    BY <1>1, NoLines
  <2> QED
    BY <1>1, <2>1, <2>2 DEF HasRead, HoldsBlock
<1>6. ReadsOn /\ EndsLikeAChunk /\ TailInv
  BY <1>1, <1>3, <1>5 DEF ReadsOn, EndsLikeAChunk, TailInv
<1> QED
  BY <1>1, <1>6 DEF TextInv

(* The invariant the theorems about the text rest on.                      *)
LEMMA HTypeOK == HInit => IInv
  BY InitInv DEF HInit

LEMMA HTextInv ==
  ASSUME NoCRLFCut
  PROVE  HSpec => [](TypeOK /\ TextInv)
<1>1. HInit => IInv /\ TextInv
  BY HTypeOK, TextInit
<1>2. IInv /\ TextInv /\ [HNext]_<<vars, history>> => (IInv /\ TextInv)'
  <2> SUFFICES ASSUME IInv, TextInv, [HNext]_<<vars, history>> PROVE (IInv /\ TextInv)'
    OBVIOUS
  <2>1. IInv'
    BY StepIsNext, NextInv
  <2> QED
    BY <2>1, TextNext DEF IInv
<1>3. IInv /\ TextInv => TypeOK /\ TextInv
  BY DEF IInv
<1> QED
  BY <1>1, <1>2, <1>3, PTL DEF HSpec

(* For every set of chunks of which none ends in a CR when another starts  *)
(* with an LF, every limit and every INT_MAX: what the parser has          *)
(* completed is what the accepted text, read as a whole, begins with,      *)
(* whatever was refused or failed on the way and however the text was cut  *)
(* (parse, append, read_line, feed_line).                                  *)
THEOREM SameMessagesHoweverCut ==
  ASSUME NoCRLFCut
  PROVE  HSpec => []NothingSpurious
<1>1. TypeOK /\ TextInv => NothingSpurious
  <2> SUFFICES ASSUME TextInv, pc \notin {"complete", "clear"}
               PROVE  IsPrefix(Completed, MessagesOf(accepted))
    BY DEF NothingSpurious
  <2>1. /\ Cut(accepted, Buf!Unread)
        /\ Completed = MessagesIn(LinesRead(accepted, Buf!Unread))
    BY DEF TextInv, ReadsOn, HasRead
  <2> QED
    BY <2>1, ReadIsPrefix
<1> QED
  BY <1>1, HTextInv, PTL

(* For the same chunks: a flush of a last line without terminator, nothing *)
(* of the buffer being read yet, delivers one message, the open block with *)
(* that line (flush).                                                      *)
THEOREM FlushDelivers ==
  ASSUME NoCRLFCut
  PROVE  HSpec => []FlushDeliversTail
<1>1. TypeOK /\ TextInv => FlushDeliversTail
  BY DEF TextInv, TailInv, FlushDeliversTail
<1> QED
  BY <1>1, HTextInv, PTL

(* For the same chunks: a parse that was given bytes and returned success  *)
(* has completed every message of the accepted text, those that an earlier *)
(* failed call left unread included (parse).                               *)
THEOREM SuccessIsComplete ==
  ASSUME NoCRLFCut
  PROVE  HSpec => SuccessMeansComplete
<1>1. TypeOK /\ TextInv /\ [HNext]_<<vars, history>> =>
        [pc = "parse" /\ pc' = "idle" /\ result'.err = "success"
           => Completed = MessagesOf(accepted)]_<<vars, history>>
  <2> SUFFICES ASSUME TypeOK, TextInv, [HNext]_<<vars, history>>,
                      pc = "parse", pc' = "idle", result'.err = "success"
               PROVE  Completed = MessagesOf(accepted)
    OBVIOUS
  <2>1. HContinue
    BY DEF HNext, HParse, Parse, HFlush, Flush, HReset, Reset, HSetCallback, SetCallback,
       HSetFnCallback, SetFnCallback, vars
  <2>2. ParseLine
    BY <2>1 DEF HContinue, Continue, FlushLine, FlushLeftover, FlushComplete, FlushClear
  <2>3. Buf!ReadLine /\ ret'.line = None /\ UNCHANGED bld_vars
    BY <2>2 DEF ParseLine, LineLoop, Feed, Return
  <2>4. UNCHANGED <<accepted, base>> /\ base \in 0 .. Len(completed_messages_) /\ ReadsOn
    BY <2>1 DEF HContinue, TextInv
  <2> QED
    BY <2>3, <2>4, LoopReads
<1> QED
  BY <1>1, HTextInv, PTL DEF HSpec, SuccessMeansComplete

--------------------------------------------------------------------------------
(* What is refused.                                                        *)

(* The limit is the one the parser was built with.                         *)
LimitInv == max_size_ = MaxSize

LEMMA LimitStays ==
  ASSUME LimitInv, [HNext]_<<vars, history>>
  PROVE  LimitInv'
<1>1. [Next]_vars
  BY StepIsNext
<1>2. CASE Call
  BY <1>2 DEF Call, Parse, Flush, Reset, ClearState, SetCallback, SetFnCallback,
     Buf!AppendChunk, Buf!Clear, buf_vars, LimitInv
<1>3. CASE Continue
  BY <1>3 DEF Continue, ParseLine, FlushLine, LineLoop, FlushLeftover, FlushComplete,
     FlushClear, Buf!ReadLine, Buf!Clear, buf_vars, LimitInv
<1>4. CASE UNCHANGED vars
  BY <1>4 DEF vars, buf_vars, LimitInv
<1> QED
  BY <1>1, <1>2, <1>3, <1>4 DEF Next

(* Unread text without a terminator is the unfinished line of the text.    *)
LEMMA UnreadIsUnfinished ==
  ASSUME NEW text, NEW unread, Cut(text, unread), HasNoEnd(unread)
  PROVE  Len(Unfinished(text)) = Len(unread)
<1> DEFINE k == ReadUpTo(text, unread)
           T == {j \in 1 .. (Len(text) + 1) - 1 : text[j] \in {CR, LF}}
           t == TerminatorBefore(text, Len(text) + 1)
<1>1. /\ text \in Seq(Token) /\ Len(text) \in Nat /\ Len(unread) \in Nat
      /\ k \in 0 .. Len(text) /\ k + Len(unread) = Len(text)
      /\ \A i \in 1 .. Len(unread) : unread[i] = text[k + i]
      /\ LineStart(text, k)
  BY CutPlace DEF Cut
<1> HIDE DEF k
<1>2. t = Max({0} \cup T)
  BY DEF TerminatorBefore
<1>3. T \subseteq 1 .. Len(text) /\ \A j \in T : text[j] \in EOL
  BY <1>1 DEF EOL
<1>4. k # 0 => k \in T
  BY <1>1 DEF LineStart, EOL
<1>5. \A j \in k + 1 .. Len(text) : text[j] \notin EOL
  <2>1. ASSUME NEW j \in k + 1 .. Len(text) PROVE text[j] \notin EOL
    <3>1. j - k \in 1 .. Len(unread) /\ k + (j - k) = j
      BY <1>1
    <3> QED
      BY <1>1, <3>1 DEF HasNoEnd
  <2> QED
    BY <2>1
<1> HIDE DEF T, t
<1>6. t \in {0} \cup T /\ \A j \in T : j <= t
  BY <1>1, <1>2, <1>3, GreatestOrZero
<1>7. t = k
  <2>1. t <= k
    <3>1. CASE t = 0
      BY <1>1, <3>1
    <3>2. CASE t \in T /\ t > k
      <4>1. t \in k + 1 .. Len(text)
        BY <1>1, <1>3, <3>2
      <4> QED
        BY <1>3, <1>5, <3>2, <4>1
    <3> QED
      BY <1>1, <1>3, <1>6, <3>1, <3>2
  <2>2. k <= t
    BY <1>1, <1>3, <1>4, <1>6
  <2> QED
    BY <1>1, <1>3, <1>6, <2>1, <2>2
<1>8. Unfinished(text) = SubSeq(text, k + 1, Len(text))
  BY <1>7 DEF Unfinished, t
<1> QED
  BY <1>1, <1>8

(* The verdict of append rests on the unread text alone.                   *)
LEMMA RefusedIffFull ==
  ASSUME Buf!TypeOK, LimitInv, NEW chunk \in Seq(Token), chunk # <<>>,
         Buf!AppendChunk(chunk)
  PROVE  /\ ret'.err \in {"success", "buffer_overflow"}
         /\ ret'.err = "buffer_overflow" <=> Len(Buf!Unread) + Len(chunk) > MaxSize
<1>1. /\ buffer_ \in Seq(Token) /\ read_pos_ \in 0 .. Len(buffer_) /\ max_size_ = MaxSize
      /\ MaxSize \in Nat /\ Len(chunk) \in Nat /\ Len(buffer_) \in Nat
  BY SseParserAssumption DEF Buf!TypeOK, LimitInv
<1>2. Len(Buf!Unread) \in Nat /\ Len(Buf!Unread) <= Len(buffer_)
  BY <1>1 DEF Buf!Unread
<1>3. \/ ret'.err = "success" /\ (Buf!Fits(buffer_, chunk) \/ Buf!Fits(Buf!Unread, chunk))
      \/ ret'.err = "buffer_overflow" /\ ~ Buf!Fits(Buf!Unread, chunk)
  BY DEF Buf!AppendChunk
<1> HIDE DEF Buf!Unread
<1> QED
  BY <1>1, <1>2, <1>3 DEF Buf!Fits

(* Nothing unread ends a line.                                             *)
LEMMA NoLineUnread ==
  ASSUME Buf!TypeOK, Buf!LineEnds(read_pos_) = {}
  PROVE  HasNoEnd(Buf!Unread)
<1>1. buffer_ \in Seq(Token) /\ read_pos_ \in 0 .. Len(buffer_) /\ Len(buffer_) \in Nat
  BY DEF Buf!TypeOK
<1>2. ASSUME NEW i \in 1 .. Len(Buf!Unread) PROVE Buf!Unread[i] \notin EOL
  <2>1. i \in 1 .. Len(buffer_) - read_pos_ /\ Buf!Unread[i] = buffer_[read_pos_ + i]
    BY <1>1 DEF Buf!Unread
  <2>2. /\ read_pos_ + i - 1 \in read_pos_ .. Len(buffer_) - 1
        /\ (read_pos_ + i - 1) + 1 = read_pos_ + i
    BY <1>1, <2>1
  <2>3. read_pos_ + i - 1 \notin Buf!LineEnds(read_pos_)
    OBVIOUS
  <2>4. buffer_[(read_pos_ + i - 1) + 1] \notin {CR, LF}
    BY <2>2, <2>3 DEF Buf!LineEnds, Buf!EOL
  <2> QED
    BY <2>1, <2>2, <2>4 DEF EOL
<1> QED
  BY <1>2 DEF HasNoEnd

(* For the same chunks: while no complete line is unread, a chunk is       *)
(* refused exactly when it does not fit next to the unfinished line of the *)
(* accepted text, whatever was read, compacted or refused before (parse,   *)
(* append).                                                                *)
THEOREM RefusesOnlyWhenFull ==
  ASSUME NoCRLFCut
  PROVE  HSpec => RefusedExactlyWhenFull
<1>1. TypeOK /\ TextInv /\ LimitInv /\ [HNext]_<<vars, history>> =>
        [\A chunk \in Chunks \ {<<>>} :
           HParse(chunk) /\ Buf!LineEnds(read_pos_) = {} =>
             (pc' = "idle" /\ result' = [call |-> "parse", err |-> "buffer_overflow"]
                <=> Len(Unfinished(accepted)) + Len(chunk) > MaxSize)]_<<vars, history>>
  <2> SUFFICES ASSUME TypeOK, TextInv, LimitInv, NEW chunk \in Chunks \ {<<>>},
                      HParse(chunk), Buf!LineEnds(read_pos_) = {}
               PROVE  pc' = "idle" /\ result' = [call |-> "parse", err |-> "buffer_overflow"]
                        <=> Len(Unfinished(accepted)) + Len(chunk) > MaxSize
    OBVIOUS
  <2>1. /\ pc = "idle" /\ Buf!AppendChunk(chunk) /\ chunk \in Seq(Token) /\ chunk # <<>>
        /\ IF ret'.err = "success" THEN pc' = "parse" ELSE Return("parse", ret'.err)
    BY SseParserAssumption DEF HParse, Parse
  <2>2. Cut(accepted, Buf!Unread) /\ HasNoEnd(Buf!Unread) /\ Buf!TypeOK
    BY <2>1, NoLineUnread DEF TypeOK, TextInv, ReadsOn
  <2>3. Len(Unfinished(accepted)) = Len(Buf!Unread)
    BY <2>2, UnreadIsUnfinished
  <2>4. /\ ret'.err \in {"success", "buffer_overflow"}
        /\ ret'.err = "buffer_overflow" <=> Len(Unfinished(accepted)) + Len(chunk) > MaxSize
    BY <2>1, <2>2, <2>3, RefusedIffFull
  <2>5. ret'.err = "buffer_overflow" <=>
          pc' = "idle" /\ result' = [call |-> "parse", err |-> "buffer_overflow"]
    BY <2>1, <2>4 DEF Return
  <2> QED
    BY <2>4, <2>5
<1>2. HInit => LimitInv
  BY DEF HInit, Init, Buf!Init, LimitInv
<1>3. LimitInv /\ [HNext]_<<vars, history>> => LimitInv'
  BY LimitStays
<1> QED
  BY <1>1, <1>2, <1>3, HTextInv, PTL DEF HSpec, RefusedExactlyWhenFull

================================================================================
