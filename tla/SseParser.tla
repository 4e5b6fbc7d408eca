------------------------------ MODULE SseParser -------------------------------
(***************************************************************************)
(* sse::SseParser: the facade that feeds the lines of a Buffer to a        *)
(* MessageBuilder.  parse and flush are loops; each iteration is a step of *)
(* its own, and pc says where the call in progress stands ("idle" between  *)
(* calls).  A callback runs inside a step; callbacks that call back into   *)
(* the parser are not modelled here.                                       *)
(***************************************************************************)
EXTENDS FieldParser

CONSTANTS
  Chunks,         \* what parse may be given
  MaxSize,        \* the limit of the buffer, 4096 in the code
  StdCallbacks,   \* std::function callbacks
  FnCallbacks,    \* function pointers
  UserData        \* what is registered with a function pointer

Wrapper == "wrapper"   \* the lambda that calls fn_callback_ with user_data_

ASSUME SseParserAssumption ==
  /\ Chunks \subseteq Seq(Token)
  /\ MaxSize \in Nat
  /\ None \notin StdCallbacks \cup FnCallbacks \cup {Wrapper} \cup (FnCallbacks \X UserData)
  /\ None \notin Message \cup [to : StdCallbacks \cup {Wrapper}, msg : Message]
  /\ Wrapper \notin StdCallbacks

VARIABLES
  buffer_, read_pos_, max_size_, ret,                     \* buffer_
  current_msg_, bld_callback_, completed_messages_,
  accumulating_data_, bld_last_event_id_, out,            \* builder_
  callback_, last_event_id_, fn_callback_, user_data_,    \* the rest
  pc,          \* "idle", or the part of parse or flush that runs
  result,      \* the call that returned last, and what it returned
  delivered    \* the calls that reached the user's callbacks

buf_vars == <<buffer_, read_pos_, max_size_, ret>>
bld_vars == <<current_msg_, bld_callback_, completed_messages_,
              accumulating_data_, bld_last_event_id_, out>>
own_vars == <<callback_, last_event_id_, fn_callback_, user_data_>>
vars == <<buf_vars, bld_vars, own_vars, pc, result, delivered>>

Buf == INSTANCE Buffer WITH Byte <- Token, MaxSizes <- {MaxSize}
Bld == INSTANCE MessageBuilder WITH
         Lines <- {}, Callbacks <- StdCallbacks \cup {Wrapper},
         callback_ <- bld_callback_, last_event_id_ <- bld_last_event_id_

Targets == StdCallbacks \cup (FnCallbacks \X UserData)

(* The one type invariant.                                                 *)
TypeOK ==
  /\ Buf!TypeOK
  /\ Bld!TypeOK
  /\ callback_ \in StdCallbacks \cup {None}
  /\ last_event_id_ \in Seq(Token)
  /\ fn_callback_ \in FnCallbacks \cup {None}
  /\ user_data_ \in UserData \cup {None}
  /\ pc \in {"idle", "parse", "flush", "leftover", "complete", "clear"}
  /\ result \in [call : {"none", "parse", "flush", "reset", "set_callback"},
                 err : {"success", "buffer_overflow", "invalid_retry"}]
  /\ delivered \in Seq([to : Targets, msg : Message])

(* Constructed without a callback or with a std::function.                 *)
Init ==
  /\ Buf!Init
  /\ callback_ \in StdCallbacks \cup {None}
  /\ current_msg_ = DefaultMessage
  /\ bld_callback_ = callback_
  /\ completed_messages_ = <<>>
  /\ accumulating_data_ = FALSE
  /\ bld_last_event_id_ = <<>>
  /\ out = Bld!Nothing
  /\ last_event_id_ = <<>>
  /\ fn_callback_ = None
  /\ user_data_ = None
  /\ pc = "idle"
  /\ result = [call |-> "none", err |-> "success"]
  /\ delivered = <<>>

HasIncompleteMessage == Bld!HasMessage \/ ~ Buf!Empty

--------------------------------------------------------------------------------
(* Slips the operators below could contain; each breaks a property.        *)

LineLoopSpins(call, Done) ==
  /\ Buf!ReadLine
  /\ ret'.line # None
  /\ Bld!FeedLine(ret'.line)
  /\ UNCHANGED <<own_vars, pc, result, delivered>>
LineLoopOnce(call, Done) ==
  /\ Buf!ReadLine
  /\ Bld!FeedLine(IF ret'.line = None THEN <<Colon>> ELSE ret'.line)
  /\ Done
  /\ UNCHANGED <<own_vars, delivered>>
FlushSkipsLeftover ==
  pc = "leftover" /\ pc' = "complete" /\ UNCHANGED <<buf_vars, bld_vars, own_vars, result, delivered>>
ClearBufferOnly == Buf!Clear /\ UNCHANGED bld_vars /\ last_event_id_' = <<>>
WrapFnAlways(fn) == Bld!SetCallback(Wrapper)
ReceiverIsStd(callback) == callback_

--------------------------------------------------------------------------------
(* Parts of the operations.                                                *)

Return(call, err) == pc' = "idle" /\ result' = [call |-> call, err |-> err]

(* Where a call of the builder's callback ends up.  The wrapper looks up   *)
(* the function pointer when it runs.                                      *)
Receiver(callback) ==
  IF callback = Wrapper THEN <<fn_callback_, user_data_>> ELSE callback

Deliver ==
  delivered' = IF out'.called = None THEN delivered
               ELSE Append(delivered, [to |-> Receiver(out'.called.to),
                                       msg |-> out'.called.msg])

(* feed_line, with the return of its error.                                *)
Feed(line, call, next) ==
  /\ Bld!FeedLine(line)
  /\ Deliver
  /\ IF out'.err = "success"
     THEN pc' = next /\ UNCHANGED result
     ELSE Return(call, out'.err)

(* One turn of "while (auto line = buffer_.read_line())": Done when there  *)
(* is no line left.                                                        *)
LineLoop(call, Done) ==
  /\ Buf!ReadLine
  /\ UNCHANGED own_vars
  /\ \/ /\ ret'.line = None
        /\ Done
        /\ UNCHANGED <<bld_vars, delivered>>
     \/ /\ ret'.line # None
        /\ Feed(ret'.line, call, pc)

--------------------------------------------------------------------------------
(* parse                                                                   *)

Parse(chunk) ==
  /\ pc = "idle"
  /\ UNCHANGED <<bld_vars, own_vars, delivered>>
  /\ \/ /\ chunk = <<>>
        /\ Return("parse", "success")
        /\ UNCHANGED buf_vars
     \/ /\ chunk # <<>>
        /\ Buf!AppendChunk(chunk)
        /\ IF ret'.err = "success"
           THEN pc' = "parse" /\ UNCHANGED result
           ELSE Return("parse", ret'.err)

ParseLine == pc = "parse" /\ LineLoop("parse", Return("parse", "success"))

--------------------------------------------------------------------------------
(* flush                                                                   *)

Flush ==
  /\ pc = "idle"
  /\ UNCHANGED <<buf_vars, bld_vars, own_vars, delivered>>
  /\ \/ Buf!Empty /\ Return("flush", "success")
     \/ ~ Buf!Empty /\ pc' = "flush" /\ UNCHANGED result

FlushLine ==
  pc = "flush" /\ LineLoop("flush", pc' = "leftover" /\ UNCHANGED result)

(* The leftover is the whole string, consumed bytes included; it is not    *)
(* empty, because flush has returned on an empty buffer and reading lines  *)
(* removes nothing.                                                        *)
FlushLeftover ==
  /\ pc = "leftover"
  /\ Feed(Buf!View, "flush", "complete")
  /\ UNCHANGED <<buf_vars, own_vars>>

FlushComplete ==
  /\ pc = "complete"
  /\ Feed(<<>>, "flush", "clear")
  /\ UNCHANGED <<buf_vars, own_vars>>

FlushClear ==
  /\ pc = "clear"
  /\ Buf!Clear
  /\ Return("flush", "success")
  /\ UNCHANGED <<bld_vars, own_vars, delivered>>

--------------------------------------------------------------------------------
(* reset and the two set_callbacks                                         *)

ClearState ==
  /\ Buf!Clear
  /\ Bld!Reset
  /\ last_event_id_' = <<>>

Reset ==
  /\ pc = "idle"
  /\ ClearState
  /\ Return("reset", "success")
  /\ UNCHANGED <<callback_, fn_callback_, user_data_, delivered>>

SetCallback(callback) ==
  /\ pc = "idle"
  /\ callback_' = callback
  /\ Bld!SetCallback(callback)
  /\ fn_callback_' = None
  /\ user_data_' = None
  /\ Return("set_callback", "success")
  /\ UNCHANGED <<buf_vars, last_event_id_, delivered>>

WrapFn(fn) == Bld!SetCallback(IF fn # None THEN Wrapper ELSE None)

SetFnCallback(fn, user_data) ==
  /\ pc = "idle"
  /\ fn_callback_' = fn
  /\ user_data_' = user_data
  /\ WrapFn(fn)
  /\ Return("set_callback", "success")
  /\ UNCHANGED <<buf_vars, callback_, last_event_id_, delivered>>

--------------------------------------------------------------------------------

(* The rest of a call in progress.                                         *)
Continue ==
  ParseLine \/ FlushLine \/ FlushLeftover \/ FlushComplete \/ FlushClear

Call ==
  \/ \E chunk \in Chunks : Parse(chunk)
  \/ Flush
  \/ Reset
  \/ \E callback \in StdCallbacks \cup {None} : SetCallback(callback)
  \/ \E fn \in FnCallbacks \cup {None}, user_data \in UserData :
       SetFnCallback(fn, user_data)

Next == Call \/ Continue

(* The thread inside a call keeps running; nobody has to make a call.      *)
Spec == Init /\ [][Next]_vars /\ WF_vars(Continue)

================================================================================
