----------------------------- MODULE SseReentrant -----------------------------
(***************************************************************************)
(* sse::SseParser with user code inside: a callback runs in the middle of  *)
(* complete_message, may itself call parse, flush, reset and set_callback  *)
(* of the parser that runs it, and may throw.  A call stack, top first,    *)
(* takes the place of SseParser's pc.  Only std::function callbacks; the   *)
(* facade's copy of the callback equals the builder's.                     *)
(***************************************************************************)
EXTENDS MessageBlocks

CONSTANTS
  Chunks, MaxSize, StdCallbacks,   \* as in SseParser
  InCallback,                      \* the calls that callbacks make
  MayThrow,                        \* whether callbacks throw
  MaxDepth, MaxCalls               \* bounds: the stack, the calls of parse and flush

ASSUME SseReentrantAssumption ==
  /\ Chunks \subseteq Seq(Token)
  /\ MaxSize \in Nat
  /\ None \notin StdCallbacks \cup Message \cup [to : StdCallbacks, msg : Message]
  /\ InCallback \subseteq {"parse", "flush", "reset", "set_callback"}
  /\ MayThrow \in BOOLEAN
  /\ MaxDepth \in Nat /\ MaxCalls \in Nat

VARIABLES
  buffer_, read_pos_, max_size_, ret,                  \* buffer_
  current_msg_, callback_, completed_messages_,
  accumulating_data_, last_event_id_, out,             \* builder_
  stack,       \* the calls of parse and flush in progress
  result,      \* the call that ended last, and how
  delivered,   \* the callback calls that were made
  calls,       \* the calls of parse and flush so far
  accepted,    \* the text accepted since the buffer was last cleared
  fed,         \* the lines read from it
  block,       \* all that was fed since a message was last queued or dropped by
               \* reset: lines, and what flush takes for one
  owed         \* messages the queue should get: one for each boundary,
               \* save those whose callback threw

buf_vars == <<buffer_, read_pos_, max_size_, ret>>
bld_vars == <<current_msg_, callback_, completed_messages_,
              accumulating_data_, last_event_id_, out>>
vars == <<buf_vars, bld_vars, stack, result, delivered, calls, accepted, fed,
          block, owed>>

Buf == INSTANCE Buffer WITH Byte <- Token, MaxSizes <- {MaxSize}
Bld == INSTANCE MessageBuilder WITH Lines <- {}, Callbacks <- StdCallbacks

Delivery == [to : StdCallbacks, msg : Message]

(* at is where the call goes on, running the callback call it waits for.   *)
Frame == [call : {"parse", "flush"},
          at : {"loop", "leftover", "complete", "clear"},
          running : Delivery \cup {None}]

(* The one type invariant: only the call on top of the stack is not        *)
(* waiting for a callback.                                                 *)
TypeOK ==
  /\ Buf!TypeOK /\ Bld!TypeOK
  /\ stack \in Seq(Frame) /\ Len(stack) <= MaxDepth
  /\ \A i \in 2 .. Len(stack) : stack[i].running # None
  /\ result \in [call : {"none", "parse", "flush", "reset", "set_callback"},
                 err : {"success", "buffer_overflow", "invalid_retry", "exception"}]
  /\ delivered \in Seq(Delivery)
  /\ accepted \in Seq(Token) /\ fed \in Seq(Seq(Token))

Init ==
  /\ Buf!Init
  /\ current_msg_ = DefaultMessage
  /\ callback_ \in StdCallbacks \cup {None}
  /\ completed_messages_ = <<>>
  /\ accumulating_data_ = FALSE
  /\ last_event_id_ = <<>>
  /\ out = Bld!Nothing
  /\ stack = <<>>
  /\ result = [call |-> "none", err |-> "success"]
  /\ delivered = <<>>
  /\ calls = 0 /\ accepted = <<>> /\ fed = <<>> /\ block = <<>> /\ owed = 0

--------------------------------------------------------------------------------
(* The stack.                                                              *)

Top == Head(stack)
MayCall(op) == stack # <<>> => Top.running # None /\ op \in InCallback
(* Slips: a lock that is not recursive, held while a callback runs; an     *)
(* error kept for the call outermost.                                      *)
ParserRunsUnderLock == Len(stack) = 1 /\ Top.running = None
ReturnKeepsNestedErrors(err) ==
  /\ stack' = Tail(stack)
  /\ result' = [call |-> Top.call, err |-> IF Len(stack) > 1 THEN "success" ELSE err]
ParserRuns == stack # <<>> /\ Top.running = None

Goto(at, running) ==
  /\ stack' = [stack EXCEPT ![1] = [call |-> Top.call, at |-> at, running |-> running]]
  /\ UNCHANGED result
Return(err) ==
  /\ stack' = Tail(stack)
  /\ result' = [call |-> Top.call, err |-> err]
Enter(call) ==
  /\ stack' = <<[call |-> call, at |-> "loop", running |-> None]>> \o stack
  /\ UNCHANGED result
ReturnAtOnce(call, err) ==
  result' = [call |-> call, err |-> err] /\ UNCHANGED stack

--------------------------------------------------------------------------------
(* Slips the operators below could contain; each breaks a property.        *)

FinishMessageIfFull ==
  /\ completed_messages_' =
       IF current_msg_ = DefaultMessage THEN completed_messages_
       ELSE Append(completed_messages_, current_msg_)
  /\ current_msg_' = DefaultMessage
  /\ accumulating_data_' = FALSE
FinishKeepsAccumulating ==
  /\ completed_messages_' = Append(completed_messages_, current_msg_)
  /\ current_msg_' = DefaultMessage
  /\ UNCHANGED accumulating_data_
CallbackThrowSwallowed ==
  /\ MayThrow /\ stack # <<>> /\ Top.running # None
  /\ Return("success")
  /\ owed' = owed - 1
  /\ UNCHANGED <<buf_vars, bld_vars, delivered, calls, accepted, fed, block>>

--------------------------------------------------------------------------------
(* The last part of complete_message, after the callback.  current_msg_ is *)
(* what the callback has left of it.                                       *)
FinishMessage ==
  /\ completed_messages_' = Append(completed_messages_, current_msg_)
  /\ current_msg_' = DefaultMessage
  /\ accumulating_data_' = FALSE

(* complete_message up to the callback, and all of it if there is none.    *)
CompleteMessage(next) ==
  /\ Bld!TrackId
  /\ Bld!Notify
  /\ owed' = owed + 1
  /\ Goto(next, out'.called)
  /\ UNCHANGED callback_
  /\ \/ /\ out'.called = None
        /\ FinishMessage
        /\ block' = <<>>
        /\ UNCHANGED delivered
     \/ /\ out'.called # None
        /\ delivered' = Append(delivered, out'.called)
        /\ UNCHANGED <<completed_messages_, current_msg_, accumulating_data_, block>>

(* feed_line, with the return of its error.                                *)
Feed(line, next) ==
  \/ line = <<>> /\ CompleteMessage(next)
  \/ /\ line # <<>>
     /\ Bld!ProcessField(line)
     /\ block' = Append(block, line)
     /\ IF out'.err = "success" THEN Goto(next, None) ELSE Return(out'.err)
     /\ UNCHANGED <<delivered, owed>>

FreshStart == accepted' = <<>> /\ fed' = <<>>

--------------------------------------------------------------------------------
(* What user code calls: the main program, or a callback.                  *)

Parse(chunk) ==
  /\ MayCall("parse") /\ Len(stack) < MaxDepth /\ calls < MaxCalls
  /\ calls' = calls + 1
  /\ \/ /\ chunk = <<>>
        /\ ReturnAtOnce("parse", "success")
        /\ UNCHANGED <<buf_vars, accepted>>
     \/ /\ chunk # <<>>
        /\ Buf!AppendChunk(chunk)
        /\ IF ret'.err = "success"
           THEN Enter("parse") /\ accepted' = accepted \o chunk
           ELSE ReturnAtOnce("parse", ret'.err) /\ UNCHANGED accepted
  /\ UNCHANGED <<bld_vars, delivered, fed, block, owed>>

Flush ==
  /\ MayCall("flush") /\ Len(stack) < MaxDepth /\ calls < MaxCalls
  /\ calls' = calls + 1
  /\ IF Buf!Empty THEN ReturnAtOnce("flush", "success") ELSE Enter("flush")
  /\ UNCHANGED <<buf_vars, bld_vars, delivered, accepted, fed, block, owed>>

Reset ==
  /\ MayCall("reset")
  /\ Buf!Clear /\ Bld!Reset /\ FreshStart /\ block' = <<>>
  /\ ReturnAtOnce("reset", "success")
  /\ UNCHANGED <<delivered, calls, owed>>

(* Within a callback this destroys the callable that runs; its code goes   *)
(* on, which is fine as long as it uses no captured variable any more.     *)
SetCallback(callback) ==
  /\ MayCall("set_callback")
  /\ Bld!SetCallback(callback)
  /\ ReturnAtOnce("set_callback", "success")
  /\ UNCHANGED <<buf_vars, delivered, calls, accepted, fed, block, owed>>

CallbackReturns ==
  /\ stack # <<>> /\ Top.running # None
  /\ FinishMessage
  /\ block' = <<>>
  /\ Goto(Top.at, None)
  /\ UNCHANGED <<buf_vars, callback_, last_event_id_, out, delivered, calls,
                 accepted, fed, owed>>

(* The exception leaves complete_message, feed_line and the call; the      *)
(* caller, if it is a callback, may catch it or throw in turn.             *)
CallbackThrows ==
  /\ MayThrow /\ stack # <<>> /\ Top.running # None
  /\ Return("exception")
  /\ owed' = owed - 1
  /\ UNCHANGED <<buf_vars, bld_vars, delivered, calls, accepted, fed, block>>

--------------------------------------------------------------------------------
(* What the parser does between two runs of user code.                     *)

ReadLine ==
  /\ ParserRuns /\ Top.at = "loop"
  /\ Buf!ReadLine
  /\ \/ /\ ret'.line = None
        /\ IF Top.call = "parse" THEN Return("success") ELSE Goto("leftover", None)
        /\ UNCHANGED <<bld_vars, delivered, fed, block, owed>>
     \/ /\ ret'.line # None
        /\ fed' = Append(fed, ret'.line)
        /\ Feed(ret'.line, "loop")
  /\ UNCHANGED <<calls, accepted>>

(* The string is empty here if a callback has cleared it.                  *)
FlushLeftover ==
  /\ ParserRuns /\ Top.at = "leftover"
  /\ \/ /\ Buf!View = <<>>
        /\ Goto("clear", None)
        /\ UNCHANGED <<bld_vars, delivered, block, owed>>
     \/ /\ Buf!View # <<>>
        /\ Feed(Buf!View, "complete")
  /\ UNCHANGED <<buf_vars, calls, accepted, fed>>

FlushComplete ==
  /\ ParserRuns /\ Top.at = "complete"
  /\ Feed(<<>>, "clear")
  /\ UNCHANGED <<buf_vars, calls, accepted, fed>>

(* Text that a callback has added meanwhile is cleared as well.            *)
FlushClear ==
  /\ ParserRuns /\ Top.at = "clear"
  /\ Buf!Clear /\ FreshStart
  /\ Return("success")
  /\ UNCHANGED <<bld_vars, delivered, calls, block, owed>>

ParserStep == ReadLine \/ FlushLeftover \/ FlushComplete \/ FlushClear

Next ==
  \/ \E chunk \in Chunks : Parse(chunk)
  \/ Flush
  \/ Reset
  \/ \E callback \in StdCallbacks \cup {None} : SetCallback(callback)
  \/ CallbackReturns
  \/ CallbackThrows
  \/ ParserStep

(* The thread keeps running, and no callback runs for ever.                *)
Spec ==
  /\ Init /\ [][Next]_vars
  /\ WF_vars(ParserStep) /\ WF_vars(CallbackReturns)

--------------------------------------------------------------------------------
(* A callback is handed, and the queue gets, what was fed to the builder   *)
(* since a message was last queued, or reset, read as one block: lines of  *)
(* the call outside and of nested ones, those of a message whose callback  *)
(* threw, and what flush takes for a line.  So a nested call may add to    *)
(* the message under delivery, but nothing fed is lost, counted twice or   *)
(* found in two messages of the queue (process_field, complete_message,    *)
(* reset).                                                                 *)
MessagesAreTheirLines ==
  [][/\ delivered' # delivered =>
          delivered'[Len(delivered')].msg = Interpret(block)
     /\ completed_messages_' # completed_messages_ =>
          completed_messages_' = Append(completed_messages_, Interpret(block))]_vars

(* A parse that returns success leaves no complete line unread, at any     *)
(* depth, whatever the callbacks under it have done to the buffer.         *)
SuccessMeansAllFed ==
  [][Len(stack') < Len(stack) /\ result' = [call |-> "parse", err |-> "success"]
       => fed = LinesOf(accepted)]_vars

(* Each boundary puts one message into the queue once its callback has     *)
(* returned, and no exception adds one or loses another.  All calls on the *)
(* stack wait for a callback, save the one that runs (complete_message).   *)
OneMessagePerBoundary ==
  Len(completed_messages_) + Len(stack) - (IF ParserRuns THEN 1 ELSE 0) = owed

(* Every call returns if the callbacks do, nested calls and those they     *)
(* leave behind in the loop outside included (the loops of parse, flush).  *)
AllCallsReturn == stack # <<>> ~> stack = <<>>

(* SseParser takes a callback for a part of the step that calls it.  Its   *)
(* state is seen in two ways: SP is the parser as it is, "idle" for user   *)
(* code that may call it, in the main program or in a callback; SPBelow is *)
(* the parser once the callback that runs is over, for the call that waits *)
(* for it.                                                                 *)
Running == stack # <<>> /\ Top.running # None
Place == IF Top.at = "loop" THEN Top.call ELSE Top.at

SP == INSTANCE SseParser WITH
        FnCallbacks <- {}, UserData <- {},
        bld_callback_ <- callback_, bld_last_event_id_ <- last_event_id_,
        last_event_id_ <- <<>>, fn_callback_ <- None, user_data_ <- None,
        pc <- IF ParserRuns THEN Place ELSE "idle"

SPBelow == INSTANCE SseParser WITH
        FnCallbacks <- {}, UserData <- {},
        current_msg_ <- IF Running THEN DefaultMessage ELSE current_msg_,
        accumulating_data_ <- ~ Running /\ accumulating_data_,
        completed_messages_ <- IF Running THEN Append(completed_messages_, current_msg_)
                               ELSE completed_messages_,
        bld_callback_ <- callback_, bld_last_event_id_ <- last_event_id_,
        last_event_id_ <- <<>>, fn_callback_ <- None, user_data_ <- None,
        pc <- IF stack = <<>> THEN "idle" ELSE Place

(* A callback starts or returns; it throws; it has cleared the string      *)
(* under a flush, so that there is no leftover.                            *)
CallbackStartsOrReturns == Len(stack') = Len(stack) /\ ~ (Running' <=> Running)
Thrown == Running /\ Len(stack') < Len(stack)
NothingLeft == ParserRuns /\ Top.at = "leftover" /\ Buf!View = <<>>

(* A call made in a callback, at any depth, takes the steps that SseParser *)
(* takes when the main program makes it in that state: it is accepted,     *)
(* refused or over at once, it reads, fails, flushes, clears and returns   *)
(* as there, and what its caller has on the stack makes no difference.     *)
(* The step that starts a callback is the one of SseParser that completes  *)
(* the message, whatever the callback will do; its return is no step.      *)
RunsAsSseParser ==
  /\ SP!Init
  /\ [][IF CallbackStartsOrReturns THEN [SPBelow!Next]_(SPBelow!vars)
        ELSE Thrown \/ NothingLeft \/ [SP!Next]_(SP!vars)]_vars

--------------------------------------------------------------------------------
(* What the repository says, and the code does not do.                     *)

(* sse_parser.hpp:868: a callback gets a "pointer to complete message      *)
(* (valid only during call)".                                              *)
MessageValidDuringCall ==
  \A i \in DOMAIN stack :
    stack[i].running # None => current_msg_ = stack[i].running.msg

(* sse_parser.hpp:678: the "queue is populated even if callback is set".   *)
QueueHoldsDelivered ==
  stack = <<>> =>
    \A i \in DOMAIN delivered : \E j \in DOMAIN completed_messages_ :
      completed_messages_[j] = delivered[i].msg

(* .planning/research/PITFALLS.md:216: "User callback might throw. Parser  *)
(* must remain in valid state": no field of a message outlives its         *)
(* boundary.                                                               *)
FreshAfterBoundary ==
  stack = <<>> /\ fed # <<>> /\ fed[Len(fed)] = <<>> => current_msg_ = DefaultMessage

================================================================================
